----------------------- MODULE TunnelResources_proofs -----------------------
(***************************************************************************)
(* Theorems of TunnelResources as MCTunnelOperations runs it, for any      *)
(* configurations, objects of others and mishaps.                          *)
(***************************************************************************)
EXTENDS MCTunnelOperations, TLAPS

\* What each phase has to do, and with what.
TodoOK ==
  /\ phase = "idle" => todo = {}
  /\ phase = "apply" => op.name \notin {"idle", "cleanup"} /\ todo \subseteq Resources!Steps(op)
  /\ phase = "clean" => /\ op.name \in {"clear", "cleanup"}
                        /\ todo \subseteq Resources!Kinds \cup {"read"}
  /\ phase = "undo" =>
       /\ op.name \in {"ensure", "configure"}
       /\ todo \subseteq (Resources!Kinds \ {"tls"}) \cup
                           {"drop", "secret back", "issuer back", "certificate back"}
       /\ "secret back" \in todo => saved.applied # None
       /\ "issuer back" \in todo \/ "certificate back" \in todo => saved.issuer # None
  /\ saved.applied # None => saved.secret # None
  /\ saved.issuer # None => saved.certificate # None

Snapshots ==
  [secret : Resources!Auths \cup {None}, applied : Resources!Auths \cup {None},
   issuer : {"own", Absent, Foreign, None},
   certificate : Resources!Hosts \cup {Absent, Foreign, None}]

ResourceTypes ==
  /\ DOMAIN objects = Resources!Kinds
  /\ \A k \in Resources!Kinds : objects[k] \in Resources!Managed(k) \cup {Absent, Foreign}
  /\ op \in Resources!Ensures \cup Resources!Others
  /\ phase \in {"idle", "apply", "clean", "undo"}
  /\ made \subseteq Resources!Kinds \ {"tls"}
  /\ saved \in Snapshots
  /\ outcome \in {"none", "ok", "error"}
  /\ mishaps \in 0..MaxMishaps
  /\ defects \subseteq {"lost", "call", "undo", "rival"}

\* Whose an object is has not changed since the operation began, and no certificate is
\* issued for somebody else's Certificate.
OwnersKept ==
  /\ \A k \in Resources!Kinds : (objects[k] = Foreign) <=> (before[k] = Foreign)
  /\ objects["certificate"] = Foreign => objects["tls"] \in {Absent, Foreign}

TypesInv == ResourceTypes /\ TodoOK /\ OwnersKept

\* An object that is as it was, or was there and is replaced when the operation is
\* repeated.
Good(k) ==
  \/ objects[k] = before[k]
  \/ k \in {"deployment", "service", "tcp", "ingress"} /\ before[k] # Absent

Undoable == Resources!Kinds \ {"tls"}

\* While the calls are made: what is left is untouched, what was done can be undone.
ApplyOK ==
  /\ \A k \in Undoable \cap todo : objects[k] = before[k] /\ k \notin made
  /\ \A k \in made : before[k] = Absent
  /\ \A k \in Undoable \ made :
       \/ Good(k)
       \/ k = "secret" /\ saved.applied # None
       \/ k \in {"issuer", "certificate"} /\ saved.issuer # None
  /\ "secret" \in todo => saved.applied = None
  /\ saved.applied # None => saved.secret = before["secret"]
  /\ saved.issuer # None =>
       saved.issuer = before["issuer"] /\ saved.certificate = before["certificate"]
  /\ "snapshot" \in todo =>
       \A k \in {"issuer", "certificate"} : objects[k] = before[k] /\ k \notin made
  /\ {"issuer", "certificate"} \cap (todo \cup made) # {} =>
       "snapshot" \in todo \/ saved.issuer # None

\* While they are undone: what is not as it was, is still to be undone.
UndoOK ==
  /\ \A k \in Undoable :
       \/ Good(k) \/ k \in todo
       \/ k = "secret" /\ "secret back" \in todo
       \/ k = "issuer" /\ "issuer back" \in todo
       \/ k = "certificate" /\ "certificate back" \in todo
  /\ \A k \in Undoable \cap todo : before[k] = Absent
  /\ "drop" \in todo => "issuer back" \in todo
  /\ "secret back" \in todo => saved.secret = before["secret"]
  /\ "issuer back" \in todo => saved.issuer = before["issuer"]
  /\ "certificate back" \in todo => saved.certificate = before["certificate"]

RollbackInv ==
  defects = {} /\ op.name \in {"ensure", "configure"} =>
    /\ phase = "apply" => ApplyOK
    /\ phase = "undo" => UndoOK
    /\ phase = "idle" /\ outcome = "error" => \A k \in Undoable : Good(k)

\* What a cleanup leaves of a kind that it has done with.
Gone(k) ==
  \/ ~Resources!Own(k)
  \/ k = "tls" /\ objects[k] = "annotated" /\ before["certificate"] = Absent

CleanOK ==
  /\ \A k \in Resources!Kinds \ todo : Gone(k)
  /\ "read" \in todo => "certificate" \in todo
  /\ "read" \notin todo =>
       saved.certificate = before["certificate"] /\ saved.certificate # None
  /\ "certificate" \in todo => objects["certificate"] = before["certificate"]
  /\ "tls" \notin todo => "certificate" \notin todo

CleanupInv ==
  op.name = "cleanup" =>
    /\ phase = "clean" /\ "call" \notin defects => CleanOK
    /\ phase = "idle" /\ outcome = "ok" => \A k \in Resources!Kinds : Gone(k)

ResourcesInv == TypesInv /\ RollbackInv /\ CleanupInv
-----------------------------------------------------------------------------
(* What the assumptions say, and the order of the calls. *)

LEMMA Sentinels ==
  /\ Absent # Foreign /\ None # Absent /\ None # Foreign
  /\ None \notin Resources!Auths \cup Resources!Hosts \cup {"own"}
  /\ \A k \in Resources!Kinds : \A v \in Resources!Managed(k) : v # Absent /\ v # Foreign
  /\ MaxMishaps \in Nat
BY ResourcesAssumption DEF Resources!SentinelAssumption, Resources!FaultsAssumption

LEMMA ManagedIs ==
  /\ Resources!Managed("secret") = Resources!Auths
  /\ Resources!Managed("deployment") = [auth : Resources!Auths, replicas : {0, 1}]
  /\ Resources!Managed("service") = {"own"} /\ Resources!Managed("tcp") = {"own"}
  /\ Resources!Managed("issuer") = {"own"}
  /\ Resources!Managed("certificate") = Resources!Hosts
  /\ Resources!Managed("ingress") = Resources!Hosts \cup {NoDomain}
  /\ Resources!Managed("tls") = {"labelled", "annotated"}
BY DEF Resources!Managed

\* The configuration of an operation that has one.
LEMMA ConfigsAre ==
  ASSUME NEW o \in Resources!Ensures \cup Resources!Others, o.name \in {"ensure", "configure"}
  PROVE  /\ o.config \in ResourceConfigs
         /\ o.config.auth \in Resources!Auths
         /\ o.config.domain \in Resources!Hosts \cup {NoDomain}
         /\ o.name = "configure" => o.config.domain # NoDomain
BY DEF Resources!Ensures, Resources!Others, Resources!Auths, Resources!Hosts

LEMMA StepsOf ==
  ASSUME NEW o
  PROVE  /\ o.name = "ensure" =>
              /\ Resources!Steps(o) \subseteq
                   {"secret", "deployment", "service", "tcp", "ingress", "port",
                    "snapshot", "slot", "issuer", "certificate"}
              /\ o.config.domain = NoDomain =>
                   {"snapshot", "slot", "issuer", "certificate"} \cap Resources!Steps(o) = {}
              /\ {"issuer", "certificate"} \cap Resources!Steps(o) # {}
                   => "snapshot" \in Resources!Steps(o)
         /\ o.name = "configure" =>
              Resources!Steps(o) = {"core", "ingress", "snapshot", "slot", "issuer", "certificate"}
         /\ o.name = "clear" => Resources!Steps(o) = {"core", "ingress"}
         /\ o.name = "cleanup" =>
              Resources!Steps(o) = {"read", "certificate", "tls", "issuer", "secret",
                                    "deployment", "service", "tcp", "ingress"}
         /\ o.name \in {"pause", "resume"} => Resources!Steps(o) = {"scale"}
BY DEF Resources!Steps, Resources!ForDomain, Resources!Cleaning

LEMMA AfterSnapshot ==
  ASSUME NEW k \in {"issuer", "certificate"}, Resources!Turn("apply", k)
  PROVE  "snapshot" \notin todo
BY DEF Resources!Turn, Resources!Order

\* The calls of a clean-up and of a roll-back, one after the other.
CleanCalls == <<"read", "certificate", "tls", "issuer", "secret", "deployment",
                "service", "tcp", "ingress">>
UndoCalls == <<"drop", "ingress", "certificate", "issuer", "tcp", "service",
               "deployment", "secret", "secret back", "issuer back",
               "certificate back">>

LEMMA OrderIs ==
  /\ Resources!Order["clean"] = CleanCalls /\ Resources!Order["undo"] = UndoCalls
  /\ DOMAIN CleanCalls = 1..9 /\ DOMAIN UndoCalls = 1..11
  /\ CleanCalls[1] = "read" /\ CleanCalls[2] = "certificate"
  /\ UndoCalls[1] = "drop"
<1>1. Resources!Order["clean"] = CleanCalls /\ Resources!Order["undo"] = UndoCalls
  BY DEF Resources!Order, CleanCalls, UndoCalls
<1>2. DOMAIN CleanCalls = 1..9
  BY SMTT(30) DEF CleanCalls
<1>3. DOMAIN UndoCalls = 1..11
  BY SMTT(30) DEF UndoCalls
<1>4. CleanCalls[1] = "read" /\ CleanCalls[2] = "certificate" /\ UndoCalls[1] = "drop"
  BY SMTT(30) DEF CleanCalls, UndoCalls
<1> QED BY <1>1, <1>2, <1>3, <1>4

\* The first call of a phase is not due while another's turn it is, nor the second.
LEMMA CleanTurns ==
  ASSUME NEW call, Resources!Turn("clean", call)
  PROVE  /\ call = "certificate" => "read" \notin todo
         /\ call = "tls" => "read" \notin todo /\ "certificate" \notin todo
<1>1. PICK i \in 1..9 :
        CleanCalls[i] = call /\ \A j \in 1..(i - 1) : CleanCalls[j] \notin todo
  BY OrderIs DEF Resources!Turn
<1>2. i \in Nat /\ i >= 1
  BY <1>1
<1>3. CASE i = 1
  <2>1. call = "read"
    BY <1>1, <1>3, OrderIs
  <2> QED BY <2>1
<1>4. CASE i = 2
  <2>1. call = "certificate" /\ 1 \in 1..(i - 1)
    BY <1>1, <1>4, OrderIs
  <2>2. "read" \notin todo
    BY <1>1, <2>1, OrderIs
  <2> QED BY <2>1, <2>2
<1>5. CASE i > 2
  <2>1. 1 \in 1..(i - 1) /\ 2 \in 1..(i - 1)
    BY <1>2, <1>5
  <2> QED BY <1>1, <2>1, OrderIs
<1> QED BY <1>2, <1>3, <1>4, <1>5

LEMMA AfterDrop ==
  ASSUME NEW call, Resources!Turn("undo", call)
  PROVE  call = "issuer back" => "drop" \notin todo
<1>1. PICK i \in 1..11 :
        UndoCalls[i] = call /\ \A j \in 1..(i - 1) : UndoCalls[j] \notin todo
  BY OrderIs DEF Resources!Turn
<1>2. i \in Nat /\ i >= 1
  BY <1>1
<1>3. CASE i = 1
  <2>1. call = "drop"
    BY <1>1, <1>3, OrderIs
  <2> QED BY <2>1
<1>4. CASE i > 1
  <2>1. 1 \in 1..(i - 1)
    BY <1>2, <1>4
  <2> QED BY <1>1, <2>1, OrderIs
<1>5. i = 1 \/ i > 1
  BY <1>2
<1> QED BY <1>3, <1>4, <1>5
-----------------------------------------------------------------------------
(* Types, whose the objects are, and what each phase has to do. *)

\* No object comes into others' hands or out of them.
SameOwners == \A k \in Resources!Kinds : (objects'[k] = Foreign) <=> (objects[k] = Foreign)

ObjectTypes ==
  /\ DOMAIN objects = Resources!Kinds
  /\ \A k \in Resources!Kinds : objects[k] \in Resources!Managed(k) \cup {Absent, Foreign}

LEMMA PutKeeps ==
  ASSUME ObjectTypes, NEW k \in Resources!Kinds, NEW v \in Resources!Managed(k) \cup {Absent},
         objects[k] # Foreign, Resources!Put(k, v)
  PROVE  ObjectTypes' /\ SameOwners
<1>1. v # Foreign
  BY Sentinels
<1>2. objects' = [objects EXCEPT ![k] = v]
  BY DEF Resources!Put
<1> QED BY <1>1, <1>2 DEF ObjectTypes, SameOwners

LEMMA SameKeeps ==
  ASSUME ObjectTypes, UNCHANGED objects
  PROVE  ObjectTypes' /\ SameOwners
BY DEF ObjectTypes, SameOwners

\* What was begun is another's if and only if it is: the certificates are the controllers'.
LEMMA OwnersStay ==
  ASSUME OwnersKept, SameOwners, before' = before \/ before' = objects,
         objects["certificate"] = Foreign /\ objects["tls"] \in {Absent, Foreign}
           => objects'["tls"] \in {Absent, Foreign}
  PROVE  OwnersKept'
<1>1. {"certificate", "tls"} \subseteq Resources!Kinds
  BY DEF Resources!Kinds
<1> QED BY <1>1 DEF OwnersKept, SameOwners

LEMMA PutOwners ==
  ASSUME TypesInv, NEW k \in Resources!Kinds, NEW v \in Resources!Managed(k) \cup {Absent},
         objects[k] # Foreign, Resources!Put(k, v), k # "tls" \/ v = Absent,
         before' = before \/ before' = objects
  PROVE  ObjectTypes' /\ SameOwners /\ OwnersKept'
<1>1. ObjectTypes' /\ SameOwners
  BY PutKeeps DEF TypesInv, ResourceTypes, ObjectTypes
<1>2. objects'["tls"] = objects["tls"] \/ objects'["tls"] = Absent
  BY DEF Resources!Put, TypesInv, ResourceTypes, Resources!Kinds
<1> QED BY <1>1, <1>2, OwnersStay DEF TypesInv

LEMMA SameOwn ==
  ASSUME TypesInv, UNCHANGED objects, before' = before \/ before' = objects
  PROVE  ObjectTypes' /\ SameOwners /\ OwnersKept'
BY SameKeeps, OwnersStay DEF TypesInv, ResourceTypes, ObjectTypes

\* A fault is counted; without one nothing is.
CountTypes == mishaps \in 0..MaxMishaps /\ defects \subseteq {"lost", "call", "undo", "rival"}

LEMMA FaultKeeps ==
  ASSUME CountTypes, NEW f \in SUBSET {"lost", "call", "undo", "rival"}, Resources!Fault(f)
  PROVE  CountTypes' /\ defects' = defects \cup f
BY Sentinels DEF CountTypes, Resources!Fault

LEMMA NoFaultKeeps ==
  ASSUME CountTypes, Resources!NoFault
  PROVE  CountTypes' /\ defects' = defects
BY DEF CountTypes, Resources!NoFault

\* What a call leaves to do, when it is made and when it fails.
SavedOK ==
  /\ saved \in Snapshots
  /\ saved.applied # None => saved.secret # None
  /\ saved.issuer # None => saved.certificate # None

CallsOK ==
  /\ op \in Resources!Ensures \cup Resources!Others
  /\ phase \in {"idle", "apply", "clean", "undo"}
  /\ outcome \in {"none", "ok", "error"}
  /\ made \subseteq Undoable /\ SavedOK
  /\ TodoOK

LEMMA TypesAre == TypesInv <=> ObjectTypes /\ CountTypes /\ CallsOK /\ OwnersKept
BY DEF TypesInv, ResourceTypes, ObjectTypes, CountTypes, CallsOK, SavedOK, TodoOK, Undoable

LEMMA TypesNext == ObjectTypes' /\ CountTypes' /\ CallsOK' /\ OwnersKept' => TypesInv'
BY DEF TypesInv, ResourceTypes, ObjectTypes, CountTypes, CallsOK, SavedOK, TodoOK, Undoable

LEMMA ProceedKeeps ==
  ASSUME CallsOK, NEW call, Resources!Proceed(call), made' \subseteq Undoable, SavedOK',
         phase \in {"apply", "clean"}
  PROVE  CallsOK' /\ UNCHANGED <<op, phase, outcome, before>> /\ todo' = todo \ {call}
<1>1. UNCHANGED <<op, phase, outcome, before>> /\ todo' = todo \ {call}
  BY DEF Resources!Proceed
<1>2. TodoOK'
  BY <1>1 DEF CallsOK, TodoOK, SavedOK
<1> QED BY <1>1, <1>2 DEF CallsOK

LEMMA FinishKeeps ==
  ASSUME CallsOK, NEW r \in {"none", "ok", "error"}, Resources!Finish(r)
  PROVE  /\ CallsOK' /\ before' \in {before, objects}
         /\ op' = op /\ phase' = "idle" /\ outcome' = r
         /\ Resources!Judged(r) => before' = before
<1>1. /\ op' = op /\ phase' = "idle" /\ todo' = {} /\ made' = {} /\ outcome' = r
      /\ saved' = Resources!NoSnapshots
      /\ before' = IF Resources!Judged(r) THEN before ELSE objects
  BY DEF Resources!Finish
<1>2. SavedOK'
  BY <1>1 DEF SavedOK, Snapshots, Resources!NoSnapshots
<1>3. TodoOK'
  BY <1>1, <1>2 DEF TodoOK, SavedOK
<1> QED BY <1>1, <1>2, <1>3 DEF CallsOK

\* A call that fails leaves the roll-back to be made, or ends the operation.
LEMMA FailKeeps ==
  ASSUME CallsOK, NEW call, Resources!Fail(call), made' \subseteq Undoable, SavedOK'
  PROVE  /\ CallsOK' /\ op' = op /\ before' \in {before, objects}
         /\ op.name \in {"ensure", "configure"} =>
              /\ phase' = "undo" /\ todo' = Resources!Undoing(call, made', saved')
              /\ before' = before
         /\ op.name \notin {"ensure", "configure"} => phase' = "idle" /\ outcome' = "error"
<1>1. CASE op.name \in {"ensure", "configure"}
  <2>1. /\ phase' = "undo" /\ todo' = Resources!Undoing(call, made', saved')
        /\ UNCHANGED <<op, outcome, before>>
    BY <1>1 DEF Resources!Fail
  <2>2. /\ todo' \subseteq made' \cup {"drop", "secret back", "issuer back", "certificate back"}
        /\ "secret back" \in todo' => saved'.applied # None
        /\ "issuer back" \in todo' \/ "certificate back" \in todo' => saved'.issuer # None
    BY <2>1 DEF Resources!Undoing, Undoable, Resources!Kinds
  <2>3. TodoOK'
    BY <1>1, <2>1, <2>2 DEF TodoOK, SavedOK, Undoable
  <2> QED BY <1>1, <2>1, <2>3 DEF CallsOK
<1>2. CASE op.name \notin {"ensure", "configure"}
  BY <1>2, FinishKeeps DEF Resources!Fail
<1> QED BY <1>1, <1>2
-----------------------------------------------------------------------------
(* The actions keep them. *)

Kept == TypesInv' /\ SameOwners

LEMMA DesiredIs ==
  /\ Resources!Desired("secret") = op.config.auth
  /\ Resources!Desired("deployment") = [auth |-> op.config.auth, replicas |-> 1]
  /\ Resources!Desired("service") = "own" /\ Resources!Desired("tcp") = "own"
  /\ Resources!Desired("issuer") = "own"
  /\ Resources!Desired("certificate") =
       IF op.name = "clear" THEN NoDomain ELSE op.config.domain
  /\ Resources!Desired("ingress") =
       IF op.name = "clear" THEN NoDomain ELSE op.config.domain
BY DEF Resources!Desired

\* What is made so has the type of its kind: a Certificate is made for a domain only.
LEMMA DesiredTyped ==
  ASSUME TypesInv, NEW k \in Resources!Kinds, Resources!Turn("apply", k)
  PROVE  /\ k # "tls" /\ Resources!Desired(k) \in Resources!Managed(k)
         /\ op.name \in {"ensure", "configure", "clear"}
<1>1. k \in Resources!Steps(op) /\ op.name \notin {"idle", "cleanup"}
  BY DEF Resources!Turn, TypesInv, TodoOK
<1>2. op \in Resources!Ensures \cup Resources!Others
  BY DEF TypesInv, ResourceTypes
<1>3. op.name \in {"ensure", "configure", "clear", "pause", "resume"}
  BY <1>1, <1>2 DEF Resources!Ensures, Resources!Others
<1>4. op.name \notin {"pause", "resume"}
  BY <1>1, StepsOf DEF Resources!Kinds
<1>5. CASE op.name = "clear"
  <2>1. k = "ingress"
    BY <1>1, <1>5, StepsOf DEF Resources!Kinds
  <2> QED BY <1>5, <2>1, ManagedIs, DesiredIs
<1>6. CASE op.name \in {"ensure", "configure"}
  <2>1. /\ op.config.auth \in Resources!Auths
        /\ op.config.domain \in Resources!Hosts \cup {NoDomain}
        /\ op.name = "configure" => op.config.domain # NoDomain
    BY <1>2, <1>6, ConfigsAre
  <2>2. k # "tls" /\ (k = "certificate" => op.config.domain # NoDomain)
    BY <1>1, <1>6, <2>1, StepsOf
  <2>3. /\ Resources!Desired("secret") \in Resources!Managed("secret")
        /\ Resources!Desired("deployment") \in Resources!Managed("deployment")
    BY <2>1, ManagedIs, DesiredIs
  <2>4. \A j \in {"service", "tcp", "issuer"} :
          Resources!Desired(j) \in Resources!Managed(j)
    BY ManagedIs, DesiredIs
  <2>5. k \in {"secret", "deployment", "service", "tcp", "issuer"} =>
          Resources!Desired(k) \in Resources!Managed(k)
    BY <2>3, <2>4
  <2>6. CASE k \in {"certificate", "ingress"}
    BY <1>6, <2>1, <2>2, <2>6, ManagedIs, DesiredIs
  <2> QED BY <1>6, <2>2, <2>5, <2>6 DEF Resources!Kinds
<1> QED BY <1>3, <1>4, <1>5, <1>6

LEMMA ReplacedTyped ==
  ASSUME TypesInv, NEW k \in Resources!Kinds, Resources!Turn("apply", k),
         saved' = Resources!Replaced(k)
  PROVE  SavedOK'
<1>1. SavedOK
  BY TypesAre DEF CallsOK
<1>2. CASE k = "secret" /\ Resources!Own(k)
  <2>1. objects["secret"] \in Resources!Auths /\ Resources!Desired("secret") \in Resources!Auths
    BY <1>2, DesiredTyped, ManagedIs DEF TypesInv, ResourceTypes, Resources!Own
  <2>2. saved' = saved \/ saved' = [saved EXCEPT !.secret = objects["secret"],
                                               !.applied = Resources!Desired("secret")]
    BY <1>2 DEF Resources!Replaced
  <2> QED BY <1>1, <2>1, <2>2, Sentinels DEF SavedOK, Snapshots
<1>3. CASE ~(k = "secret" /\ Resources!Own(k))
  BY <1>1, <1>3 DEF Resources!Replaced, SavedOK
<1> QED BY <1>2, <1>3

LEMMA ApplyTypes ==
  ASSUME TypesInv, NEW k \in Undoable, Resources!Apply(k)
  PROVE  Kept
<1>1. /\ ObjectTypes /\ CountTypes /\ CallsOK /\ SavedOK /\ made \subseteq Undoable
      /\ k \in Resources!Kinds /\ k # "tls"
  BY TypesAre DEF CallsOK, Undoable
<1>2. Resources!Turn("apply", k) /\ phase = "apply"
  BY DEF Resources!Apply, Resources!Turn
<1>3. Resources!Desired(k) \in Resources!Managed(k)
  BY <1>1, <1>2, DesiredTyped
<1>4. CASE /\ objects[k] # Foreign
           /\ Resources!Put(k, Resources!Desired(k))
           /\ made' = IF objects[k] = Absent THEN made \cup {k} ELSE made
           /\ saved' = Resources!Replaced(k)
           /\ Resources!NoFault
           /\ Resources!Proceed(k)
  <2>1. made' \subseteq Undoable /\ SavedOK'
    BY <1>1, <1>2, <1>4, ReplacedTyped
  <2>2. CallsOK' /\ before' = before
    BY <1>1, <1>2, <1>4, <2>1, ProceedKeeps
  <2>3. ObjectTypes' /\ SameOwners /\ OwnersKept'
    BY <1>1, <1>3, <1>4, <2>2, PutOwners
  <2>4. CountTypes'
    BY <1>1, <1>4, NoFaultKeeps
  <2> QED BY <2>2, <2>3, <2>4, TypesNext DEF Kept
<1>5. CASE /\ objects[k] # Foreign
           /\ Resources!Put(k, Resources!Desired(k))
           /\ Resources!Fault({"lost"})
           /\ UNCHANGED <<made, saved>>
           /\ Resources!Fail(k)
  <2>1. made' \subseteq Undoable /\ SavedOK'
    BY <1>1, <1>5 DEF SavedOK
  <2>2. CallsOK' /\ before' \in {before, objects}
    BY <1>1, <1>5, <2>1, FailKeeps
  <2>3. before' = before \/ before' = objects
    BY <2>2
  <2>4. ObjectTypes' /\ SameOwners /\ OwnersKept'
    BY <1>1, <1>3, <1>5, <2>3, PutOwners
  <2>5. CountTypes'
    BY <1>1, <1>5, FaultKeeps
  <2> QED BY <2>2, <2>4, <2>5, TypesNext DEF Kept
<1>6. CASE /\ IF objects[k] = Foreign THEN Resources!NoFault ELSE Resources!Fault({})
           /\ UNCHANGED <<objects, made, saved>>
           /\ Resources!Fail(k)
  <2>1. made' \subseteq Undoable /\ SavedOK'
    BY <1>1, <1>6 DEF SavedOK
  <2>2. CallsOK' /\ before' \in {before, objects}
    BY <1>1, <1>6, <2>1, FailKeeps
  <2>3. ObjectTypes' /\ SameOwners /\ OwnersKept'
    BY <1>6, <2>2, SameOwn
  <2>4. CountTypes'
    BY <1>1, <1>6, FaultKeeps, NoFaultKeeps
  <2> QED BY <2>2, <2>3, <2>4, TypesNext DEF Kept
<1> QED BY <1>4, <1>5, <1>6 DEF Resources!Apply

\* A call that fails and has had no effect.
LEMMA FailTypes ==
  ASSUME TypesInv, NEW call, UNCHANGED <<objects, made, saved>>, Resources!Fail(call),
         Resources!NoFault \/ Resources!Fault({})
  PROVE  Kept
<1>1. CountTypes /\ CallsOK /\ made' \subseteq Undoable /\ SavedOK'
  BY TypesAre DEF CallsOK, SavedOK
<1>2. CallsOK' /\ (before' = before \/ before' = objects)
  BY <1>1, FailKeeps
<1>3. ObjectTypes' /\ SameOwners /\ OwnersKept'
  BY <1>2, SameOwn
<1>4. CountTypes'
  BY <1>1, FaultKeeps, NoFaultKeeps
<1> QED BY <1>2, <1>3, <1>4, TypesNext DEF Kept

\* One that is made and leaves everything as it is.
LEMMA SeenTypes ==
  ASSUME TypesInv, phase \in {"apply", "clean"}, NEW call, UNCHANGED <<objects, made, saved>>,
         Resources!Proceed(call), CountTypes'
  PROVE  Kept
<1>1. CallsOK /\ made' \subseteq Undoable /\ SavedOK'
  BY TypesAre DEF CallsOK, SavedOK
<1>2. CallsOK' /\ before' = before
  BY <1>1, ProceedKeeps
<1>3. ObjectTypes' /\ SameOwners /\ OwnersKept'
  BY <1>2, SameOwn
<1> QED BY <1>2, <1>3, TypesNext DEF Kept

LEMMA LookTypes ==
  ASSUME TypesInv, NEW call, NEW good, Resources!Look(call, good)
  PROVE  Kept
<1>1. phase = "apply" /\ UNCHANGED <<objects, made, saved>> /\ CountTypes
  BY TypesAre DEF Resources!Look, Resources!Turn
<1>2. CASE Resources!NoFault /\ Resources!Proceed(call)
  BY <1>1, <1>2, NoFaultKeeps, SeenTypes
<1>3. CASE (Resources!NoFault \/ Resources!Fault({})) /\ Resources!Fail(call)
  BY <1>1, <1>3, FailTypes
<1> QED BY <1>2, <1>3 DEF Resources!Look

\* At most one object is written, which is not another's.
Rewritten ==
  \/ UNCHANGED objects
  \/ \E k \in Resources!Kinds : \E v \in Resources!Managed(k) \cup {Absent} :
       objects[k] # Foreign /\ Resources!Put(k, v) /\ (k # "tls" \/ v = Absent)

LEMMA RewrittenKeeps ==
  ASSUME TypesInv, Rewritten, before' = before \/ before' = objects, CallsOK', CountTypes'
  PROVE  Kept
<1>1. ObjectTypes' /\ SameOwners /\ OwnersKept'
  BY PutOwners, SameOwn DEF Rewritten
<1> QED BY <1>1, TypesNext DEF Kept

\* Sealtun's own object is taken away, if there is one.
LEMMA RemovalRewrites ==
  ASSUME NEW k \in Resources!Kinds,
         IF Resources!Own(k) THEN Resources!Put(k, Absent) ELSE UNCHANGED objects
  PROVE  Rewritten
BY DEF Rewritten, Resources!Own

LEMMA DropTypes ==
  ASSUME TypesInv, Resources!DropStaleService
  PROVE  Kept
<1>1. /\ CountTypes /\ CallsOK /\ phase = "apply" /\ "tcp" \in Resources!Kinds
      /\ made' \subseteq Undoable /\ SavedOK'
  BY TypesAre DEF CallsOK, SavedOK, Resources!DropStaleService, Resources!Turn, Resources!Kinds
<1>2. CASE /\ IF Resources!Own("tcp") THEN Resources!Put("tcp", Absent) ELSE UNCHANGED objects
           /\ Resources!NoFault
           /\ Resources!Proceed("tcp")
  BY <1>1, <1>2, RemovalRewrites, NoFaultKeeps, ProceedKeeps, RewrittenKeeps
<1>3. CASE /\ Resources!Own("tcp") /\ Resources!Put("tcp", Absent)
           /\ Resources!Fault({"lost"})
           /\ Resources!Fail("tcp")
  <2>1. Rewritten
    BY <1>1, <1>3, RemovalRewrites
  <2>2. CountTypes'
    BY <1>1, <1>3, FaultKeeps
  <2>3. CallsOK' /\ (before' = before \/ before' = objects)
    BY <1>1, <1>3, FailKeeps
  <2> QED BY <2>1, <2>2, <2>3, RewrittenKeeps
<1>4. CASE UNCHANGED objects /\ Resources!Fault({}) /\ Resources!Fail("tcp")
  BY <1>4, FailTypes DEF Resources!DropStaleService
<1> QED BY <1>2, <1>3, <1>4 DEF Resources!DropStaleService

LEMMA SnapshotTypes ==
  ASSUME TypesInv, Resources!Snapshot
  PROVE  Kept
<1>1. /\ CountTypes /\ CallsOK /\ phase = "apply" /\ SavedOK
      /\ made' \subseteq Undoable /\ UNCHANGED objects
  BY TypesAre DEF CallsOK, Resources!Snapshot, Resources!Turn
<1>2. CASE /\ Resources!NoFault
           /\ saved' = [saved EXCEPT !.issuer = objects["issuer"],
                                     !.certificate = objects["certificate"]]
           /\ Resources!Proceed("snapshot")
  <2>1. /\ objects["issuer"] \in {"own", Absent, Foreign}
        /\ objects["certificate"] \in Resources!Hosts \cup {Absent, Foreign}
    BY ManagedIs DEF TypesInv, ResourceTypes, Resources!Kinds
  <2>2. SavedOK'
    BY <1>1, <1>2, <2>1, Sentinels DEF SavedOK, Snapshots
  <2>3. CallsOK' /\ before' = before
    BY <1>1, <1>2, <2>2, ProceedKeeps
  <2>4. CountTypes'
    BY <1>1, <1>2, NoFaultKeeps
  <2> QED BY <1>1, <2>3, <2>4, RewrittenKeeps DEF Rewritten
<1>3. CASE Resources!Fault({}) /\ UNCHANGED saved /\ Resources!Fail("snapshot")
  BY <1>1, <1>3, FailTypes DEF Resources!Snapshot
<1> QED BY <1>2, <1>3 DEF Resources!Snapshot

LEMMA ScaleTypes ==
  ASSUME TypesInv, Resources!Scale
  PROVE  Kept /\ op.name \in {"pause", "resume"}
<1>1. /\ CountTypes /\ CallsOK /\ phase = "apply" /\ "scale" \in Resources!Steps(op)
      /\ made' \subseteq Undoable /\ SavedOK' /\ UNCHANGED <<made, saved>>
      /\ op.name \notin {"idle", "cleanup"} /\ op \in Resources!Ensures \cup Resources!Others
  BY TypesAre DEF CallsOK, SavedOK, TodoOK, Resources!Scale, Resources!Turn
<1>2. op.name \in {"pause", "resume"}
  <2>1. op.name \in {"ensure", "configure", "clear", "pause", "resume"}
    BY <1>1 DEF Resources!Ensures, Resources!Others
  <2> QED BY <1>1, <2>1, StepsOf
<1> DEFINE n == IF op.name = "pause" THEN 0 ELSE 1
<1>3. CASE /\ Resources!Own("deployment")
           /\ Resources!Put("deployment", [objects["deployment"] EXCEPT !.replicas = n])
           /\ \/ Resources!NoFault /\ Resources!Proceed("scale")
              \/ Resources!Fault({"lost"}) /\ Resources!Fail("scale")
  <2>1. "deployment" \in Resources!Kinds
    BY DEF Resources!Kinds
  <2>2. objects["deployment"] \in [auth : Resources!Auths, replicas : {0, 1}]
    BY <1>3, <2>1, ManagedIs DEF TypesInv, ResourceTypes, Resources!Own
  <2>3. [objects["deployment"] EXCEPT !.replicas = n] \in Resources!Managed("deployment")
    BY <2>2, ManagedIs
  <2>4. Rewritten
    BY <1>3, <2>1, <2>3 DEF Rewritten, Resources!Own
  <2>5. CountTypes'
    BY <1>1, <1>3, FaultKeeps, NoFaultKeeps
  <2>6. CallsOK' /\ (before' = before \/ before' = objects)
    BY <1>1, <1>3, FailKeeps, ProceedKeeps
  <2> QED BY <1>2, <2>4, <2>5, <2>6, RewrittenKeeps
<1>4. CASE /\ IF Resources!Own("deployment") THEN Resources!Fault({}) ELSE Resources!NoFault
           /\ UNCHANGED objects /\ Resources!Fail("scale")
  BY <1>1, <1>2, <1>4, FailTypes
<1> QED BY <1>3, <1>4 DEF Resources!Scale

LEMMA FinishTypes ==
  ASSUME TypesInv, NEW r \in {"none", "ok", "error"}, Resources!Finish(r), UNCHANGED objects,
         CountTypes'
  PROVE  Kept
<1>1. CallsOK' /\ (before' = before \/ before' = objects)
  BY TypesAre, FinishKeeps
<1> QED BY <1>1, RewrittenKeeps DEF Rewritten

LEMMA AppliedTypes ==
  ASSUME TypesInv, Resources!Applied
  PROVE  Kept
<1>1. UNCHANGED <<objects, mishaps, defects>> /\ CountTypes' /\ CallsOK
  BY TypesAre DEF Resources!Applied, CountTypes
<1>2. CASE /\ op.name = "clear"
           /\ phase' = "clean" /\ todo' = Resources!Cleaning
           /\ UNCHANGED <<op, made, saved, outcome, before>>
  <2>1. TodoOK' /\ SavedOK'
    BY <1>1, <1>2 DEF CallsOK, TodoOK, SavedOK, Resources!Cleaning, Resources!Kinds
  <2>2. CallsOK'
    BY <1>1, <1>2, <2>1 DEF CallsOK
  <2> QED BY <1>1, <1>2, <2>2, RewrittenKeeps DEF Rewritten
<1>3. CASE op.name # "clear" /\ Resources!Finish("ok")
  BY <1>1, <1>3, FinishTypes
<1> QED BY <1>2, <1>3 DEF Resources!Applied

LEMMA ReadTypes ==
  ASSUME TypesInv, Resources!ReadCertificate
  PROVE  Kept
<1>1. /\ CountTypes /\ CallsOK /\ SavedOK /\ phase = "clean"
      /\ UNCHANGED <<objects, made>> /\ made' \subseteq Undoable
      /\ Resources!Proceed("read")
  BY TypesAre DEF CallsOK, Resources!ReadCertificate, Resources!Turn
<1>2. objects["certificate"] \in Resources!Hosts \cup {Absent, Foreign}
  BY ManagedIs DEF TypesInv, ResourceTypes, Resources!Kinds
<1>3. SavedOK' /\ CountTypes'
  BY <1>1, <1>2, Sentinels, FaultKeeps, NoFaultKeeps
     DEF SavedOK, Snapshots, Resources!ReadCertificate
<1>4. CallsOK' /\ before' = before
  BY <1>1, <1>3, ProceedKeeps
<1> QED BY <1>1, <1>3, <1>4, RewrittenKeeps DEF Rewritten

\* What can be removed is Sealtun's own.
LEMMA RemovableOwn ==
  ASSUME NEW k \in Resources!Kinds, Resources!Removable(k)
  PROVE  objects[k] # Foreign /\ objects[k] # Absent
<1>1. "labelled" \in Resources!Managed("tls") /\ "annotated" \in Resources!Managed("tls")
      /\ "tls" \in Resources!Kinds
  BY ManagedIs DEF Resources!Kinds
<1> QED BY <1>1, Sentinels DEF Resources!Removable, Resources!Own, Resources!SecretOwned

LEMMA RemoveTypes ==
  ASSUME TypesInv, NEW k \in Resources!Kinds, Resources!Remove(k)
  PROVE  Kept
<1>1. /\ CountTypes /\ CallsOK /\ phase = "clean" /\ made' \subseteq Undoable /\ SavedOK'
      /\ Resources!Proceed(k)
  BY TypesAre DEF CallsOK, SavedOK, Resources!Remove, Resources!Turn
<1>2. CallsOK' /\ before' = before
  BY <1>1, ProceedKeeps
<1>3. CountTypes'
  BY <1>1, FaultKeeps, NoFaultKeeps DEF Resources!Remove
<1>4. Rewritten
  BY RemovableOwn DEF Resources!Remove, Rewritten
<1> QED BY <1>2, <1>3, <1>4, RewrittenKeeps

LEMMA CleanedTypes ==
  ASSUME TypesInv, Resources!Cleaned
  PROVE  Kept
<1>1. UNCHANGED <<objects, mishaps, defects>> /\ CountTypes'
  BY TypesAre DEF Resources!Cleaned, CountTypes
<1>2. CASE "call" \in defects
  BY <1>1, <1>2, FinishTypes DEF Resources!Cleaned
<1>3. CASE "call" \notin defects
  BY <1>1, <1>3, FinishTypes DEF Resources!Cleaned
<1> QED BY <1>2, <1>3

\* A step of a roll-back.
LEMMA UndoTypes ==
  ASSUME TypesInv, phase = "undo", Rewritten, CountTypes', todo' \subseteq todo,
         UNCHANGED <<op, phase, made, saved, outcome, before>>
  PROVE  Kept
<1>1. TodoOK' /\ SavedOK'
  BY TypesAre DEF CallsOK, TodoOK, SavedOK
<1>2. CallsOK'
  BY <1>1, TypesAre DEF CallsOK
<1> QED BY <1>2, RewrittenKeeps

LEMMA UncreateTypes ==
  ASSUME TypesInv, NEW k \in Resources!Kinds, Resources!Uncreate(k)
  PROVE  Kept
<1>1. /\ phase = "undo" /\ todo' \subseteq todo /\ CountTypes
      /\ UNCHANGED <<op, phase, made, saved, outcome, before>>
  BY TypesAre DEF Resources!Uncreate, Resources!Turn
<1>2. Rewritten
  BY RemovalRewrites DEF Resources!Uncreate, Rewritten
<1>3. CountTypes'
  BY <1>1, FaultKeeps, NoFaultKeeps DEF Resources!Uncreate
<1> QED BY <1>1, <1>2, <1>3, UndoTypes

LEMMA DropIssuerTypes ==
  ASSUME TypesInv, Resources!DropIssuer
  PROVE  Kept
<1>1. /\ phase = "undo" /\ todo' \subseteq todo /\ CountTypes
      /\ UNCHANGED <<op, phase, made, saved, outcome, before>> /\ "issuer" \in Resources!Kinds
  BY TypesAre DEF Resources!DropIssuer, Resources!Turn, Resources!Kinds
<1>2. Rewritten
  BY <1>1, RemovalRewrites DEF Resources!DropIssuer, Rewritten
<1>3. CountTypes'
  BY <1>1, FaultKeeps, NoFaultKeeps DEF Resources!DropIssuer
<1> QED BY <1>1, <1>2, <1>3, UndoTypes

LEMMA RestoreSecretTypes ==
  ASSUME TypesInv, Resources!RestoreSecret
  PROVE  Kept
<1>1. /\ phase = "undo" /\ "secret back" \in todo /\ todo' \subseteq todo
      /\ CountTypes /\ CallsOK
      /\ UNCHANGED <<op, phase, made, saved, outcome, before>> /\ "secret" \in Resources!Kinds
  BY TypesAre DEF Resources!RestoreSecret, Resources!Turn, Resources!Kinds
<1>2. saved.applied # None /\ saved.secret # None /\ saved \in Snapshots
  BY <1>1 DEF CallsOK, TodoOK, SavedOK
<1>3. saved.secret \in Resources!Managed("secret") /\ saved.applied \in Resources!Managed("secret")
  BY <1>2, ManagedIs DEF Snapshots
<1>4. Rewritten
  <2>1. saved.applied # Foreign
    BY <1>1, <1>3, Sentinels
  <2> QED BY <1>1, <1>3, <2>1 DEF Resources!RestoreSecret, Rewritten
<1>5. CountTypes'
  <2>1. CASE mishaps' = mishaps /\ defects' = defects \cup {"undo"}
    BY <1>1, <2>1 DEF CountTypes
  <2>2. CASE Resources!NoFault \/ Resources!Fault({"undo"})
    BY <1>1, <2>2, FaultKeeps, NoFaultKeeps
  <2> QED BY <2>1, <2>2 DEF Resources!RestoreSecret
<1> QED BY <1>1, <1>4, <1>5, UndoTypes

LEMMA RestoreDynamicTypes ==
  ASSUME TypesInv, NEW k \in {"issuer", "certificate"},
         NEW call \in {"issuer back", "certificate back"}, Resources!RestoreDynamic(call, k)
  PROVE  Kept
<1>1. /\ phase = "undo" /\ call \in todo /\ todo' \subseteq todo
      /\ CountTypes /\ CallsOK
      /\ UNCHANGED <<op, phase, made, saved, outcome, before>> /\ k \in Resources!Kinds
  BY TypesAre DEF Resources!RestoreDynamic, Resources!Turn, Resources!Kinds
<1>2. saved.issuer # None /\ saved.certificate # None /\ saved \in Snapshots
  BY <1>1 DEF CallsOK, TodoOK, SavedOK
<1>3. saved[k] \in Resources!Managed(k) \cup {Absent, Foreign}
  BY <1>2, ManagedIs DEF Snapshots
<1>4. Rewritten
  BY <1>1, <1>3 DEF Resources!RestoreDynamic, Rewritten
<1>5. CountTypes'
  BY <1>1, FaultKeeps, NoFaultKeeps DEF Resources!RestoreDynamic
<1> QED BY <1>1, <1>4, <1>5, UndoTypes

LEMMA UndoneTypes ==
  ASSUME TypesInv, Resources!Undone
  PROVE  Kept
<1>1. UNCHANGED <<objects, mishaps, defects>> /\ CountTypes'
  BY TypesAre DEF Resources!Undone, CountTypes
<1> QED BY <1>1, FinishTypes DEF Resources!Undone

LEMMA CrashTypes ==
  ASSUME TypesInv, Resources!Crash
  PROVE  Kept
<1>1. UNCHANGED objects /\ CountTypes'
  BY TypesAre, FaultKeeps DEF Resources!Crash
<1> QED BY <1>1, FinishTypes DEF Resources!Crash

\* A certificate is issued for Sealtun's own Certificate only.
LEMMA IssueTypes ==
  ASSUME TypesInv, Resources!IssueCertificate
  PROVE  Kept
<1>1. /\ UNCHANGED <<op, phase, todo, made, saved, outcome, before, mishaps, defects>>
      /\ objects["tls"] = Absent /\ objects["certificate"] # Foreign /\ "tls" \in Resources!Kinds
  BY DEF Resources!IssueCertificate, Resources!calls, Resources!Own, Resources!Kinds
<1>2. ObjectTypes' /\ SameOwners
  <2>1. PICK v \in Resources!Managed("tls") : Resources!Put("tls", v)
    BY DEF Resources!IssueCertificate
  <2> QED BY <1>1, <2>1, TypesAre, Sentinels, PutKeeps
<1>3. OwnersKept'
  BY <1>1, <1>2, TypesAre, OwnersStay
<1>4. CountTypes' /\ CallsOK'
  BY <1>1, TypesAre DEF CountTypes, CallsOK, SavedOK, TodoOK
<1> QED BY <1>2, <1>3, <1>4, TypesNext DEF Kept

LEMMA RivalTypes ==
  ASSUME TypesInv, Resources!Rival
  PROVE  Kept
<1>1. /\ UNCHANGED <<op, phase, todo, made, saved, outcome, before>>
      /\ Resources!Fault({"rival"}) /\ "secret" \in Resources!Kinds
  BY DEF Resources!Rival, Resources!calls, Resources!Kinds
<1>2. Rewritten
  BY <1>1, ManagedIs DEF Resources!Rival, Resources!Own, Rewritten
<1>3. CountTypes' /\ CallsOK'
  BY <1>1, TypesAre, FaultKeeps DEF CallsOK, SavedOK, TodoOK
<1> QED BY <1>1, <1>2, <1>3, RewrittenKeeps

LEMMA StartTypes ==
  ASSUME TypesInv, NEW o \in Resources!Ensures \cup Resources!Others, o.name # "idle",
         Resources!Start(o)
  PROVE  Kept
<1>1. /\ UNCHANGED <<objects, mishaps>> /\ op' = o /\ todo' = Resources!Steps(o)
      /\ phase' = IF o.name = "cleanup" THEN "clean" ELSE "apply"
      /\ made' = {} /\ saved' = Resources!NoSnapshots /\ outcome' = "none"
      /\ before' = objects /\ defects' = {}
  BY DEF Resources!Start
<1>2. SavedOK'
  BY <1>1 DEF SavedOK, Snapshots, Resources!NoSnapshots
<1>3. TodoOK'
  BY <1>1, <1>2, StepsOf DEF TodoOK, SavedOK, Resources!Kinds
<1>4. CallsOK' /\ CountTypes'
  BY <1>1, <1>2, <1>3, TypesAre DEF CallsOK, CountTypes
<1> QED BY <1>1, <1>4, RewrittenKeeps DEF Rewritten

LEMMA TypesStep ==
  ASSUME TypesInv, Resources!Next
  PROVE  Kept
<1>1. CASE \E o \in Resources!Ensures \cup Resources!Others : o.name # "idle" /\ Resources!Start(o)
  BY <1>1, StartTypes
<1>2. CASE Resources!Applying
  <2>1. {"secret", "deployment", "service", "tcp", "issuer", "certificate", "ingress"}
          \subseteq Undoable
    BY DEF Undoable, Resources!Kinds
  <2>2. (\E k \in Undoable : Resources!Apply(k)) => Kept
    BY ApplyTypes
  <2>3. Resources!CheckSlot \/ Resources!CheckCore \/ Resources!CheckPort => Kept
    BY LookTypes DEF Resources!CheckSlot, Resources!CheckCore, Resources!CheckPort
  <2> QED BY <1>2, <2>1, <2>2, <2>3, DropTypes, SnapshotTypes, ScaleTypes, AppliedTypes
          DEF Resources!Applying, Resources!ApplySecret, Resources!ApplyDeployment,
              Resources!ApplyService, Resources!ApplyTCPService, Resources!ApplyIssuer,
              Resources!ApplyCertificate, Resources!ApplyIngress
<1>3. CASE Resources!Removing
  <2>1. (\E k \in Resources!Kinds : Resources!Remove(k)) => Kept
    BY RemoveTypes
  <2> QED BY <1>3, <2>1, ReadTypes, CleanedTypes
          DEF Resources!Removing, Resources!RemoveCertificate, Resources!RemoveTLSSecret,
              Resources!RemoveIssuer, Resources!RemoveCore, Resources!Kinds
<1>4. CASE Resources!Undo
  BY <1>4, UncreateTypes, DropIssuerTypes, RestoreSecretTypes, RestoreDynamicTypes, UndoneTypes
     DEF Resources!Undo
<1> QED BY <1>1, <1>2, <1>3, <1>4, CrashTypes, IssueTypes, RivalTypes DEF Resources!Next
-----------------------------------------------------------------------------
(* The roll-back.  What went wrong around the operation excuses it, for good. *)

Judging == op.name \in {"ensure", "configure"} /\ defects = {}

LEMMA Excused ==
  ASSUME UNCHANGED op, defects \subseteq defects'
  PROVE  ~Judging => ~Judging'
BY DEF Judging

LEMMA FaultExcuses ==
  ASSUME NEW f, f # {}, Resources!Fault(f)
  PROVE  ~Judging'
BY DEF Judging, Resources!Fault

LEMMA RollbackIs ==
  RollbackInv <=>
    (Judging => /\ phase = "apply" => ApplyOK
                /\ phase = "undo" => UndoOK
                /\ phase = "idle" /\ outcome = "error" => \A k \in Undoable : Good(k))
BY DEF RollbackInv, Judging

LEMMA RollbackNext ==
  (Judging' => /\ phase' = "apply" => ApplyOK'
               /\ phase' = "undo" => UndoOK'
               /\ phase' = "idle" /\ outcome' = "error" => \A k \in Undoable : Good(k)')
    => RollbackInv'
BY DEF RollbackInv, Judging

\* The roll-back of a call that fails without effect has all that is to be undone.
LEMMA FailUndoes ==
  ASSUME TypesInv, ApplyOK, op.name \in {"ensure", "configure"}, NEW call,
         UNCHANGED <<objects, made, saved>>, Resources!Fail(call)
  PROVE  phase' = "undo" /\ UndoOK'
<1>1. /\ phase' = "undo" /\ todo' = Resources!Undoing(call, made, saved)
      /\ UNCHANGED <<op, outcome, before>>
  BY DEF Resources!Fail
<1>2. /\ \A k \in made : k \in todo' \/ (k = "issuer" /\ call = "certificate")
      /\ "drop" \in todo' => "issuer" \in made
      /\ saved.applied # None <=> "secret back" \in todo'
      /\ saved.issuer # None <=> "issuer back" \in todo'
      /\ saved.issuer # None <=> "certificate back" \in todo'
      /\ Undoable \cap todo' \subseteq made
  BY <1>1 DEF Resources!Undoing, Undoable, Resources!Kinds, TypesInv, ResourceTypes
<1>3. "issuer" \in made => saved.issuer # None
  BY DEF ApplyOK
<1>4. \A k \in Undoable :
        \/ Good(k)' \/ k \in todo'
        \/ k = "secret" /\ "secret back" \in todo'
        \/ k = "issuer" /\ "issuer back" \in todo'
        \/ k = "certificate" /\ "certificate back" \in todo'
  BY <1>1, <1>2, <1>3 DEF ApplyOK, Good
<1> QED BY <1>1, <1>2, <1>3, <1>4 DEF UndoOK, ApplyOK

\* The call of kind k is made: what it did is known to the roll-back.
LEMMA ApplyDone ==
  ASSUME TypesInv, ApplyOK, NEW k \in Undoable, Resources!Turn("apply", k),
         objects[k] # Foreign, Resources!Put(k, Resources!Desired(k)),
         made' = IF objects[k] = Absent THEN made \cup {k} ELSE made,
         saved' = Resources!Replaced(k), Resources!Proceed(k)
  PROVE  ApplyOK'
<1>1. /\ k \in todo /\ k \in Resources!Kinds /\ todo' = todo \ {k}
      /\ UNCHANGED before /\ objects[k] = before[k] /\ k \notin made
  BY DEF Resources!Turn, Resources!Proceed, Undoable, ApplyOK
<1>2. /\ objects' = [objects EXCEPT ![k] = Resources!Desired(k)]
      /\ \A j \in Resources!Kinds \ {k} : objects'[j] = objects[j]
      /\ objects'[k] = Resources!Desired(k)
  BY <1>1 DEF Resources!Put, TypesInv, ResourceTypes
<1>3. /\ saved'.issuer = saved.issuer /\ saved'.certificate = saved.certificate
      /\ k # "secret" => saved' = saved
      /\ k = "secret" /\ Resources!Own("secret") /\ objects["secret"] # Resources!Desired("secret") =>
           saved'.applied = Resources!Desired("secret") /\ saved'.secret = objects["secret"]
      /\ k = "secret" /\ ~(Resources!Own("secret") /\ objects["secret"] # Resources!Desired("secret"))
           => saved' = saved
  BY DEF Resources!Replaced, TypesInv, ResourceTypes, Snapshots
<1>4. Resources!Desired("secret") # None \/ k # "secret"
  BY <1>1, DesiredTyped, ManagedIs, Sentinels
<1>5. k \in {"issuer", "certificate"} => saved.issuer # None
  <2>1. k \in {"issuer", "certificate"} => "snapshot" \notin todo
    BY AfterSnapshot
  <2> QED BY <1>1, <2>1 DEF ApplyOK
<1>6. \A j \in Undoable \cap todo' : objects'[j] = before'[j] /\ j \notin made'
  BY <1>1, <1>2 DEF ApplyOK, Undoable
<1>7. \A j \in made' : before'[j] = Absent
  BY <1>1 DEF ApplyOK
<1>8. \A j \in Undoable \ made' :
        \/ Good(j)'
        \/ j = "secret" /\ saved'.applied # None
        \/ j \in {"issuer", "certificate"} /\ saved'.issuer # None
  <2> SUFFICES ASSUME NEW j \in Undoable \ made'
               PROVE  \/ Good(j)'
                      \/ j = "secret" /\ saved'.applied # None
                      \/ j \in {"issuer", "certificate"} /\ saved'.issuer # None
    OBVIOUS
  <2>1. CASE j # k
    <3>1. objects'[j] = objects[j] /\ j \notin made
      BY <1>2, <2>1 DEF Undoable
    <3>2. saved.applied # None => saved'.applied # None
      BY <1>3, <1>4
    <3> QED BY <1>1, <1>3, <3>1, <3>2 DEF ApplyOK, Good
  <2>2. CASE j = k
    <3>1. before'[k] = objects[k] /\ objects[k] # Absent
      BY <1>1, <2>2
    <3>2. CASE k \in {"deployment", "service", "tcp", "ingress"}
      BY <2>2, <3>1, <3>2 DEF Good
    <3>3. CASE k \in {"issuer", "certificate"}
      BY <1>3, <1>5, <2>2, <3>3
    <3>4. CASE k = "secret"
      <4>1. Resources!Own("secret")
        BY <3>1, <3>4 DEF Resources!Own
      <4>2. CASE objects["secret"] = Resources!Desired("secret")
        BY <1>2, <2>2, <3>1, <3>4, <4>2 DEF Good
      <4>3. CASE objects["secret"] # Resources!Desired("secret")
        BY <1>3, <1>4, <2>2, <3>4, <4>1, <4>3
      <4> QED BY <4>2, <4>3
    <3> QED BY <3>2, <3>3, <3>4 DEF Undoable, Resources!Kinds
  <2> QED BY <2>1, <2>2
<1>9. /\ "secret" \in todo' => saved'.applied = None
      /\ saved'.applied # None => saved'.secret = before'["secret"]
  BY <1>1, <1>3 DEF ApplyOK
<1>10. saved'.issuer # None =>
         saved'.issuer = before'["issuer"] /\ saved'.certificate = before'["certificate"]
  BY <1>1, <1>3 DEF ApplyOK
<1>11. "snapshot" \in todo' =>
         \A j \in {"issuer", "certificate"} : objects'[j] = before'[j] /\ j \notin made'
  <2>1. "snapshot" \in todo' => "snapshot" \in todo /\ k \notin {"issuer", "certificate"}
    BY <1>1, AfterSnapshot
  <2>2. {"issuer", "certificate"} \subseteq Resources!Kinds
    BY DEF Resources!Kinds
  <2> QED BY <1>1, <1>2, <2>1, <2>2 DEF ApplyOK
<1>12. {"issuer", "certificate"} \cap (todo' \cup made') # {} =>
         "snapshot" \in todo' \/ saved'.issuer # None
  <2>1. k # "snapshot"
    BY <1>1 DEF Resources!Kinds
  <2> QED BY <1>1, <1>3, <1>5, <2>1 DEF ApplyOK
<1> QED BY <1>6, <1>7, <1>8, <1>9, <1>10, <1>11, <1>12 DEF ApplyOK

\* A call fails in an operation that has nothing to undo, or is excused.
LEMMA FailRolls ==
  ASSUME TypesInv, RollbackInv, phase = "apply", NEW call, Resources!Fail(call),
         made' \subseteq Undoable, SavedOK', defects \subseteq defects',
         Judging' => UNCHANGED <<objects, made, saved>>
  PROVE  RollbackInv'
<1>1. op' = op
  BY TypesAre, FailKeeps
<1>2. CASE Judging'
  <2>1. Judging
    BY <1>1, <1>2, Excused
  <2>2. phase' = "undo" /\ UndoOK'
    BY <1>2, <2>1, RollbackIs, FailUndoes DEF Judging
  <2> QED BY <2>2, RollbackNext
<1>3. CASE ~Judging'
  BY <1>3, RollbackNext
<1> QED BY <1>2, <1>3

\* A call goes through and the next one comes.
LEMMA ProceedRolls ==
  ASSUME phase = "apply", NEW call, Resources!Proceed(call), RollbackInv, defects' = defects,
         ApplyOK => ApplyOK'
  PROVE  RollbackInv'
<1>1. op' = op /\ phase' = "apply"
  BY DEF Resources!Proceed
<1>2. CASE Judging
  BY <1>1, <1>2, RollbackIs, RollbackNext
<1>3. CASE ~Judging
  BY <1>1, <1>3, Excused, RollbackNext
<1> QED BY <1>2, <1>3

LEMMA ApplyRolls ==
  ASSUME TypesInv, RollbackInv, NEW k \in Undoable, Resources!Apply(k)
  PROVE  RollbackInv'
<1>1. Resources!Turn("apply", k) /\ phase = "apply" /\ made \subseteq Undoable /\ SavedOK
  BY TypesAre DEF Resources!Apply, Resources!Turn, CallsOK
<1>2. CASE /\ objects[k] # Foreign
           /\ Resources!Put(k, Resources!Desired(k))
           /\ made' = IF objects[k] = Absent THEN made \cup {k} ELSE made
           /\ saved' = Resources!Replaced(k)
           /\ Resources!NoFault
           /\ Resources!Proceed(k)
  <2>1. ApplyOK => ApplyOK'
    BY <1>1, <1>2, ApplyDone
  <2> QED BY <1>1, <1>2, <2>1, ProceedRolls DEF Resources!NoFault
<1>3. CASE /\ Resources!Fault({"lost"})
           /\ UNCHANGED <<made, saved>>
           /\ Resources!Fail(k)
  <2>1. ~Judging' /\ defects \subseteq defects'
    BY <1>3, FaultExcuses DEF Resources!Fault
  <2>2. made' \subseteq Undoable /\ SavedOK'
    BY <1>1, <1>3 DEF SavedOK
  <2> QED BY <1>1, <1>3, <2>1, <2>2, FailRolls
<1>4. CASE /\ IF objects[k] = Foreign THEN Resources!NoFault ELSE Resources!Fault({})
           /\ UNCHANGED <<objects, made, saved>>
           /\ Resources!Fail(k)
  <2>1. defects \subseteq defects'
    BY <1>4 DEF Resources!Fault, Resources!NoFault
  <2>2. made' \subseteq Undoable /\ SavedOK'
    BY <1>1, <1>4 DEF SavedOK
  <2> QED BY <1>1, <1>4, <2>1, <2>2, FailRolls
<1> QED BY <1>2, <1>3, <1>4 DEF Resources!Apply

\* The checks: slot, core and port.
LEMMA LookRolls ==
  ASSUME TypesInv, RollbackInv, NEW call \in {"slot", "core", "port"}, NEW good,
         Resources!Look(call, good)
  PROVE  RollbackInv'
<1>1. /\ phase = "apply" /\ UNCHANGED <<objects, made, saved>>
      /\ made' \subseteq Undoable /\ SavedOK'
  BY TypesAre DEF Resources!Look, Resources!Turn, CallsOK, SavedOK
<1>2. CASE Resources!NoFault /\ Resources!Proceed(call)
  <2>1. ApplyOK => ApplyOK'
    BY <1>1, <1>2 DEF ApplyOK, Good, Resources!Proceed
  <2> QED BY <1>1, <1>2, <2>1, ProceedRolls DEF Resources!NoFault
<1>3. CASE (Resources!NoFault \/ Resources!Fault({})) /\ Resources!Fail(call)
  <2>1. defects \subseteq defects'
    BY <1>3 DEF Resources!Fault, Resources!NoFault
  <2> QED BY <1>1, <1>3, <2>1, FailRolls
<1> QED BY <1>2, <1>3 DEF Resources!Look

LEMMA DropRolls ==
  ASSUME TypesInv, RollbackInv, Resources!DropStaleService
  PROVE  RollbackInv'
<1>1. /\ phase = "apply" /\ UNCHANGED <<made, saved>> /\ "tcp" \in todo
      /\ made' \subseteq Undoable /\ SavedOK' /\ "tcp" \in Resources!Kinds
  BY TypesAre
     DEF Resources!DropStaleService, Resources!Turn, CallsOK, SavedOK, Resources!Kinds
<1>2. CASE /\ IF Resources!Own("tcp") THEN Resources!Put("tcp", Absent) ELSE UNCHANGED objects
           /\ Resources!NoFault
           /\ Resources!Proceed("tcp")
  <2>1. /\ todo' = todo \ {"tcp"} /\ UNCHANGED before
        /\ \A k \in Resources!Kinds \ {"tcp"} : objects'[k] = objects[k]
        /\ objects["tcp"] = Absent => objects'["tcp"] = Absent
    BY <1>1, <1>2 DEF Resources!Proceed, Resources!Put, TypesInv, ResourceTypes, Resources!Own
  <2>2. ASSUME ApplyOK
        PROVE  ApplyOK'
    <3>1. objects["tcp"] = before["tcp"] /\ "tcp" \notin made
      BY <1>1, <2>2 DEF ApplyOK, Undoable
    <3>2. \A k \in Undoable \ made :
            Good(k)' \/ (k # "tcp" /\ ~Good(k))
      BY <1>1, <2>1, <3>1 DEF Good, Undoable
    <3>3. {"issuer", "certificate"} \subseteq Resources!Kinds
      BY DEF Resources!Kinds
    <3> QED BY <1>1, <2>1, <2>2, <3>1, <3>2, <3>3 DEF ApplyOK, Undoable
  <2> QED BY <1>1, <1>2, <2>2, ProceedRolls DEF Resources!NoFault
<1>3. CASE Resources!Fault({"lost"}) /\ Resources!Fail("tcp")
  <2>1. ~Judging' /\ defects \subseteq defects'
    BY <1>3, FaultExcuses DEF Resources!Fault
  <2> QED BY <1>1, <1>3, <2>1, FailRolls
<1>4. CASE UNCHANGED objects /\ Resources!Fault({}) /\ Resources!Fail("tcp")
  <2>1. defects \subseteq defects'
    BY <1>4 DEF Resources!Fault
  <2> QED BY <1>1, <1>4, <2>1, FailRolls
<1> QED BY <1>2, <1>3, <1>4 DEF Resources!DropStaleService

LEMMA SnapshotRolls ==
  ASSUME TypesInv, RollbackInv, Resources!Snapshot
  PROVE  RollbackInv'
<1>1. /\ phase = "apply" /\ UNCHANGED <<objects, made>> /\ "snapshot" \in todo
      /\ made' \subseteq Undoable /\ SavedOK /\ saved \in Snapshots
  BY TypesAre DEF Resources!Snapshot, Resources!Turn, CallsOK, SavedOK
<1>2. CASE /\ Resources!NoFault
           /\ saved' = [saved EXCEPT !.issuer = objects["issuer"],
                                     !.certificate = objects["certificate"]]
           /\ Resources!Proceed("snapshot")
  <2>1. /\ saved'.issuer = objects["issuer"] /\ saved'.certificate = objects["certificate"]
        /\ saved'.applied = saved.applied /\ saved'.secret = saved.secret
        /\ todo' = todo \ {"snapshot"} /\ UNCHANGED before
    BY <1>1, <1>2 DEF Snapshots, Resources!Proceed
  <2>2. objects["issuer"] # None
    BY ManagedIs, Sentinels DEF TypesInv, ResourceTypes, Resources!Kinds
  <2>3. ASSUME ApplyOK
        PROVE  ApplyOK'
    BY <1>1, <2>1, <2>2, <2>3 DEF ApplyOK, Good
  <2> QED BY <1>1, <1>2, <2>3, ProceedRolls DEF Resources!NoFault
<1>3. CASE Resources!Fault({}) /\ UNCHANGED saved /\ Resources!Fail("snapshot")
  <2>1. defects \subseteq defects' /\ SavedOK'
    BY <1>1, <1>3 DEF Resources!Fault, SavedOK
  <2> QED BY <1>1, <1>3, <2>1, FailRolls
<1> QED BY <1>2, <1>3 DEF Resources!Snapshot

\* Of the other operations nothing is asked.
LEMMA OtherRolls ==
  ASSUME UNCHANGED op, op.name \notin {"ensure", "configure"}
  PROVE  RollbackInv'
BY DEF RollbackInv

LEMMA AppliedRolls ==
  ASSUME Resources!Applied
  PROVE  RollbackInv'
<1>1. CASE op.name = "clear" /\ UNCHANGED op
  BY <1>1, OtherRolls
<1>2. CASE Resources!Finish("ok")
  BY <1>2 DEF Resources!Finish, RollbackInv
<1> QED BY <1>1, <1>2 DEF Resources!Applied

\* A step of the roll-back that keeps the promise keeps the invariant.
LEMMA UndoRolls ==
  ASSUME RollbackInv, phase = "undo", UNCHANGED <<op, phase>>, defects \subseteq defects',
         Judging /\ Judging' /\ UndoOK => UndoOK'
  PROVE  RollbackInv'
<1>1. CASE Judging'
  <2>1. Judging
    BY <1>1, Excused
  <2> QED BY <1>1, <2>1, RollbackIs, RollbackNext
<1>2. CASE ~Judging'
  BY <1>2, RollbackNext
<1> QED BY <1>1, <1>2

LEMMA UncreateRolls ==
  ASSUME TypesInv, RollbackInv, NEW k \in Resources!Kinds, Resources!Uncreate(k)
  PROVE  RollbackInv'
<1>1. /\ phase = "undo" /\ k \in todo /\ UNCHANGED <<op, phase, made, saved, before>>
  BY DEF Resources!Uncreate, Resources!Turn
<1>2. k \in Undoable
  BY <1>1 DEF TypesInv, TodoOK, Undoable, Resources!Kinds
<1>3. CASE Resources!Fault({"undo"})
  BY <1>1, <1>3, FaultExcuses, UndoRolls DEF Resources!Fault
<1>4. CASE /\ IF Resources!Own(k) THEN Resources!Put(k, Absent) ELSE UNCHANGED objects
           /\ todo' = todo \ {k}
           /\ Resources!NoFault
  <2>1. ASSUME UndoOK
        PROVE  UndoOK'
    <3>1. before[k] = Absent /\ objects[k] # Foreign
      BY <1>1, <1>2, <2>1, Sentinels DEF UndoOK, TypesInv, OwnersKept
    <3>2. /\ objects'[k] = Absent
          /\ \A j \in Resources!Kinds \ {k} : objects'[j] = objects[j]
      BY <1>4, <3>1 DEF Resources!Put, Resources!Own, TypesInv, ResourceTypes
    <3>3. Good(k)' /\ \A j \in Undoable \ {k} : Good(j) => Good(j)'
      BY <1>1, <3>1, <3>2 DEF Good, Undoable
    <3>4. k \notin {"secret back", "issuer back", "certificate back", "drop"}
      BY DEF Resources!Kinds
    <3> QED BY <1>1, <1>4, <2>1, <3>3, <3>4 DEF UndoOK
  <2> QED BY <1>1, <1>4, <2>1, UndoRolls DEF Resources!NoFault
<1> QED BY <1>3, <1>4 DEF Resources!Uncreate

\* The Issuer that is dropped early is restored from its snapshot.
LEMMA DropIssuerRolls ==
  ASSUME TypesInv, RollbackInv, Resources!DropIssuer
  PROVE  RollbackInv'
<1>1. /\ phase = "undo" /\ "drop" \in todo /\ todo' = todo \ {"drop"}
      /\ UNCHANGED <<op, phase, made, saved, before>> /\ defects \subseteq defects'
      /\ \A j \in Resources!Kinds \ {"issuer"} : objects'[j] = objects[j]
  BY DEF Resources!DropIssuer, Resources!Turn, Resources!Put, Resources!NoFault,
         Resources!Fault, TypesInv, ResourceTypes
<1>2. ASSUME UndoOK
      PROVE  UndoOK'
  <2>1. \A j \in Undoable \ {"issuer"} : Good(j) => Good(j)'
    BY <1>1 DEF Good, Undoable
  <2>2. "drop" \notin Resources!Kinds
    BY DEF Resources!Kinds
  <2> QED BY <1>1, <1>2, <2>1, <2>2 DEF UndoOK, Undoable
<1> QED BY <1>1, <1>2, UndoRolls

LEMMA RestoreSecretRolls ==
  ASSUME TypesInv, RollbackInv, Resources!RestoreSecret
  PROVE  RollbackInv'
<1>1. /\ phase = "undo" /\ "secret back" \in todo /\ todo' = todo \ {"secret back"}
      /\ UNCHANGED <<op, phase, made, saved, before>> /\ "secret" \in Resources!Kinds
  BY DEF Resources!RestoreSecret, Resources!Turn, Resources!Kinds
<1>2. CASE Resources!Put("secret", saved.secret) /\ Resources!NoFault
  <2>1. ASSUME UndoOK
        PROVE  UndoOK'
    <3>1. /\ objects'["secret"] = before["secret"]
          /\ \A j \in Resources!Kinds \ {"secret"} : objects'[j] = objects[j]
      BY <1>1, <1>2, <2>1 DEF UndoOK, Resources!Put, TypesInv, ResourceTypes
    <3>2. Good("secret")' /\ \A j \in Undoable \ {"secret"} : Good(j) => Good(j)'
      BY <1>1, <3>1 DEF Good, Undoable
    <3>3. "secret back" \notin Resources!Kinds
      BY DEF Resources!Kinds
    <3> QED BY <1>1, <2>1, <3>2, <3>3 DEF UndoOK, Undoable
  <2> QED BY <1>1, <1>2, <2>1, UndoRolls DEF Resources!NoFault
<1>3. CASE defects' = defects \cup {"undo"} \/ Resources!Fault({"undo"})
  BY <1>1, <1>3, FaultExcuses, UndoRolls DEF Resources!Fault, Judging
<1> QED BY <1>2, <1>3 DEF Resources!RestoreSecret

LEMMA RestoreDynamicRolls ==
  ASSUME TypesInv, RollbackInv, NEW k \in {"issuer", "certificate"}, NEW call,
         call = "issuer back" <=> k = "issuer",
         call \in {"issuer back", "certificate back"}, Resources!RestoreDynamic(call, k)
  PROVE  RollbackInv'
<1>1. /\ phase = "undo" /\ call \in todo /\ todo' = todo \ {call}
      /\ UNCHANGED <<op, phase, made, saved, before>> /\ k \in Undoable
      /\ call = "issuer back" => "drop" \notin todo
  BY AfterDrop DEF Resources!RestoreDynamic, Resources!Turn, Undoable, Resources!Kinds
<1>2. CASE /\ IF objects[k] # Foreign /\ saved[k] # Foreign
                THEN Resources!Put(k, saved[k]) ELSE UNCHANGED objects
           /\ Resources!NoFault
  <2>1. ASSUME UndoOK
        PROVE  UndoOK'
    <3>1. saved[k] = before[k]
      BY <1>1, <2>1 DEF UndoOK
    <3>2. /\ objects'[k] = before[k]
          /\ \A j \in Resources!Kinds \ {k} : objects'[j] = objects[j]
      <4>1. CASE objects[k] # Foreign /\ saved[k] # Foreign
        BY <1>1, <1>2, <3>1, <4>1 DEF Resources!Put, TypesInv, ResourceTypes, Undoable
      <4>2. CASE objects[k] = Foreign \/ saved[k] = Foreign
        BY <1>1, <1>2, <3>1, <4>2 DEF TypesInv, OwnersKept, Undoable
      <4> QED BY <4>1, <4>2
    <3>3. Good(k)' /\ \A j \in Undoable \ {k} : Good(j) => Good(j)'
      BY <1>1, <3>2 DEF Good, Undoable
    <3>4. call \notin Resources!Kinds \cup {"drop", "secret back"}
      BY DEF Resources!Kinds
    <3>5. /\ \A j \in Undoable :
               \/ Good(j)' \/ j \in todo'
               \/ j = "secret" /\ "secret back" \in todo'
               \/ j = "issuer" /\ "issuer back" \in todo'
               \/ j = "certificate" /\ "certificate back" \in todo'
      BY <1>1, <2>1, <3>3, <3>4 DEF UndoOK, Undoable
    <3>6. "drop" \in todo' => "issuer back" \in todo'
      BY <1>1, <2>1 DEF UndoOK
    <3>7. \A j \in Undoable \cap todo' : before'[j] = Absent
      BY <1>1, <2>1 DEF UndoOK
    <3> QED BY <1>1, <2>1, <3>5, <3>6, <3>7 DEF UndoOK
  <2> QED BY <1>1, <1>2, <2>1, UndoRolls DEF Resources!NoFault
<1>3. CASE Resources!Fault({"undo"})
  BY <1>1, <1>3, FaultExcuses, UndoRolls DEF Resources!Fault
<1> QED BY <1>2, <1>3 DEF Resources!RestoreDynamic

LEMMA UndoneRolls ==
  ASSUME TypesInv, RollbackInv, Resources!Undone
  PROVE  RollbackInv'
<1>1. /\ phase = "undo" /\ todo = {} /\ Resources!Finish("error")
      /\ UNCHANGED <<objects, mishaps, defects>>
      /\ op.name \in {"ensure", "configure"}
  BY DEF Resources!Undone, TypesInv, TodoOK
<1>2. phase' = "idle" /\ UNCHANGED <<op, before>>
  BY <1>1 DEF Resources!Finish, Resources!Judged
<1>3. Judging => \A k \in Undoable : Good(k)
  BY <1>1, RollbackIs DEF UndoOK
<1>4. Judging' => \A k \in Undoable : Good(k)'
  BY <1>1, <1>2, <1>3 DEF Judging, Good
<1> QED BY <1>2, <1>4, RollbackNext

LEMMA CrashRolls ==
  ASSUME Resources!Crash
  PROVE  RollbackInv'
BY DEF Resources!Crash, Resources!Finish, RollbackInv

LEMMA IssueRolls ==
  ASSUME TypesInv, RollbackInv, Resources!IssueCertificate
  PROVE  RollbackInv'
<1>1. /\ UNCHANGED <<op, phase, todo, made, saved, outcome, before, mishaps, defects>>
      /\ \A k \in Undoable : objects'[k] = objects[k]
      /\ {"issuer", "certificate"} \subseteq Undoable
  BY DEF Resources!IssueCertificate, Resources!calls, Resources!Put, Undoable,
         Resources!Kinds, TypesInv, ResourceTypes
<1>2. \A k \in Undoable : Good(k) => Good(k)'
  BY <1>1 DEF Good
<1>3. ApplyOK => ApplyOK'
  BY <1>1, <1>2 DEF ApplyOK
<1>4. UndoOK => UndoOK'
  BY <1>1, <1>2 DEF UndoOK
<1> QED BY <1>1, <1>2, <1>3, <1>4, RollbackIs, RollbackNext DEF Judging

LEMMA RivalRolls ==
  ASSUME Resources!Rival
  PROVE  RollbackInv'
BY FaultExcuses, RollbackNext DEF Resources!Rival

\* Nothing is done yet, and a snapshot is taken before Issuer and Certificate are touched.
LEMMA StartRolls ==
  ASSUME NEW o \in Resources!Ensures \cup Resources!Others, Resources!Start(o)
  PROVE  RollbackInv'
<1>1. /\ UNCHANGED objects /\ op' = o /\ todo' = Resources!Steps(o)
      /\ phase' = IF o.name = "cleanup" THEN "clean" ELSE "apply"
      /\ made' = {} /\ saved' = Resources!NoSnapshots /\ before' = objects
  BY DEF Resources!Start
<1>2. CASE o.name \in {"ensure", "configure"}
  <2>1. {"issuer", "certificate"} \cap todo' # {} => "snapshot" \in todo'
    BY <1>1, <1>2, StepsOf
  <2>2. ApplyOK'
    BY <1>1, <2>1 DEF ApplyOK, Good, Resources!NoSnapshots
  <2> QED BY <1>1, <1>2, <2>2, RollbackNext
<1>3. CASE o.name \notin {"ensure", "configure"}
  BY <1>1, <1>3 DEF RollbackInv
<1> QED BY <1>2, <1>3

LEMMA RollbackStep ==
  ASSUME TypesInv, RollbackInv, Resources!Next
  PROVE  RollbackInv'
<1>1. CASE \E o \in Resources!Ensures \cup Resources!Others : o.name # "idle" /\ Resources!Start(o)
  BY <1>1, StartRolls
<1>2. CASE Resources!Applying
  <2>1. {"secret", "deployment", "service", "tcp", "issuer", "certificate", "ingress"}
          \subseteq Undoable
    BY DEF Undoable, Resources!Kinds
  <2>2. (\E k \in Undoable : Resources!Apply(k)) => RollbackInv'
    BY ApplyRolls
  <2>3. Resources!CheckSlot \/ Resources!CheckCore \/ Resources!CheckPort => RollbackInv'
    BY LookRolls DEF Resources!CheckSlot, Resources!CheckCore, Resources!CheckPort
  <2>4. Resources!Scale => RollbackInv'
    <3>1. Resources!Scale => UNCHANGED op
      BY DEF Resources!Scale, Resources!Proceed, Resources!Fail, Resources!Finish
    <3> QED BY <3>1, ScaleTypes, OtherRolls
  <2> QED BY <1>2, <2>1, <2>2, <2>3, <2>4, DropRolls, SnapshotRolls, AppliedRolls
          DEF Resources!Applying, Resources!ApplySecret, Resources!ApplyDeployment,
              Resources!ApplyService, Resources!ApplyTCPService, Resources!ApplyIssuer,
              Resources!ApplyCertificate, Resources!ApplyIngress
<1>3. CASE Resources!Removing
  <2>1. phase = "clean" /\ UNCHANGED op
    BY <1>3 DEF Resources!Removing, Resources!RemoveCertificate, Resources!RemoveTLSSecret,
                Resources!RemoveIssuer, Resources!RemoveCore, Resources!Remove,
                Resources!ReadCertificate, Resources!Cleaned, Resources!Turn,
                Resources!Proceed, Resources!Finish
  <2> QED BY <2>1, OtherRolls DEF TypesInv, TodoOK
<1>4. CASE Resources!Undo
  BY <1>4, UncreateRolls, DropIssuerRolls, RestoreSecretRolls, RestoreDynamicRolls, UndoneRolls
     DEF Resources!Undo
<1> QED BY <1>1, <1>2, <1>3, <1>4, CrashRolls, IssueRolls, RivalRolls DEF Resources!Next
-----------------------------------------------------------------------------
(* A clean-up. *)

LEMMA OtherCleans ==
  ASSUME UNCHANGED op, op.name # "cleanup"
  PROVE  CleanupInv'
BY DEF CleanupInv

LEMMA ReadCleans ==
  ASSUME TypesInv, CleanupInv, Resources!ReadCertificate
  PROVE  CleanupInv'
<1>1. /\ phase = "clean" /\ "read" \in todo /\ todo' = todo \ {"read"}
      /\ UNCHANGED <<objects, op, phase, outcome, before>>
      /\ "read" \notin Resources!Kinds /\ saved \in Snapshots
  BY DEF Resources!ReadCertificate, Resources!Turn, Resources!Proceed, Resources!Kinds,
         TypesInv, ResourceTypes
<1>2. CASE saved' = [saved EXCEPT !.certificate = objects["certificate"]] /\ Resources!NoFault
  <2>1. ASSUME CleanOK
        PROVE  CleanOK'
    <3>1. objects["certificate"] = before["certificate"]
      BY <1>1, <2>1 DEF CleanOK
    <3>2. objects["certificate"] # None
      BY ManagedIs, Sentinels DEF TypesInv, ResourceTypes, Resources!Kinds
    <3>3. saved'.certificate = objects["certificate"]
      BY <1>1, <1>2 DEF Snapshots
    <3>4. \A k \in Resources!Kinds \ todo' : Gone(k)'
      BY <1>1, <2>1 DEF CleanOK, Gone, Resources!Own
    <3> QED BY <1>1, <2>1, <3>1, <3>2, <3>3, <3>4 DEF CleanOK
  <2> QED BY <1>1, <1>2, <2>1 DEF CleanupInv, Resources!NoFault
<1>3. CASE Resources!Fault({"call"})
  BY <1>1, <1>3 DEF CleanupInv, Resources!Fault
<1> QED BY <1>2, <1>3 DEF Resources!ReadCertificate

\* A TLS Secret that is left has no label, and its Certificate was gone before.
LEMMA LeftTLS ==
  ASSUME TypesInv, saved.certificate = before["certificate"], saved.certificate # None,
         ~Resources!Removable("tls"), Resources!Own("tls")
  PROVE  Gone("tls")
<1>1. /\ "tls" \in Resources!Kinds /\ "certificate" \in Resources!Kinds
      /\ saved.certificate \in Resources!Hosts \cup {Absent, Foreign, None}
  BY DEF Resources!Kinds, TypesInv, ResourceTypes, Snapshots
<1>2. objects["tls"] \in {"labelled", "annotated"}
  BY <1>1, ManagedIs DEF TypesInv, ResourceTypes, Resources!Own
<1>3. objects["tls"] = "annotated" /\ saved.certificate \notin Resources!Hosts
  BY <1>2 DEF Resources!Removable, Resources!SecretOwned
<1>4. before["certificate"] # Foreign
  BY <1>1 DEF TypesInv, OwnersKept, Resources!Own
<1> QED BY <1>1, <1>3, <1>4 DEF Gone

LEMMA RemoveCleans ==
  ASSUME TypesInv, CleanupInv, NEW k \in Resources!Kinds, Resources!Remove(k)
  PROVE  CleanupInv'
<1>1. /\ phase = "clean" /\ k \in todo /\ todo' = todo \ {k} /\ UNCHANGED saved
      /\ UNCHANGED <<op, phase, outcome, before>> /\ Resources!Turn("clean", k)
  BY DEF Resources!Remove, Resources!Turn, Resources!Proceed
<1>2. CASE /\ IF Resources!Removable(k) THEN Resources!Put(k, Absent) ELSE UNCHANGED objects
           /\ Resources!NoFault
  <2>1. ASSUME CleanOK
        PROVE  CleanOK'
    <3>1. /\ k = "certificate" => "read" \notin todo
          /\ k = "tls" => "read" \notin todo /\ "certificate" \notin todo
          /\ "read" \notin Resources!Kinds
      BY <1>1, CleanTurns DEF Resources!Kinds
    <3>2. \A j \in Resources!Kinds \ {k} : objects'[j] = objects[j]
      BY <1>2 DEF Resources!Put, TypesInv, ResourceTypes
    <3>3. \A j \in Resources!Kinds \ {k} : Gone(j) => Gone(j)'
      BY <1>1, <3>2 DEF Gone, Resources!Own
    <3>4. Gone(k)'
      <4>1. CASE Resources!Removable(k)
        <5>1. objects'[k] = Absent
          BY <1>2, <4>1 DEF Resources!Put, TypesInv, ResourceTypes
        <5> QED BY <5>1 DEF Gone, Resources!Own
      <4>2. CASE ~Resources!Removable(k) /\ k # "tls"
        <5>1. ~Resources!Own(k) /\ UNCHANGED objects
          BY <1>2, <4>2 DEF Resources!Removable
        <5> QED BY <5>1 DEF Gone, Resources!Own
      <4>3. CASE ~Resources!Removable(k) /\ k = "tls"
        <5>1. saved.certificate = before["certificate"] /\ saved.certificate # None
          BY <2>1, <3>1, <4>3 DEF CleanOK
        <5>2. Gone("tls") /\ UNCHANGED objects
          BY <1>2, <4>3, <5>1, LeftTLS DEF Gone
        <5> QED BY <1>1, <4>3, <5>2 DEF Gone, Resources!Own
      <4> QED BY <4>1, <4>2, <4>3
    <3>5. \A j \in Resources!Kinds \ todo' : Gone(j)'
      BY <1>1, <2>1, <3>3, <3>4 DEF CleanOK
    <3>6. "certificate" \in todo' => objects'["certificate"] = before'["certificate"]
      BY <1>1, <2>1, <3>2 DEF CleanOK, Resources!Kinds
    <3>7. /\ "read" \in todo' => "certificate" \in todo'
          /\ "read" \notin todo' =>
               saved'.certificate = before'["certificate"] /\ saved'.certificate # None
      BY <1>1, <2>1, <3>1 DEF CleanOK
    <3>8. "tls" \notin todo' => "certificate" \notin todo'
      BY <1>1, <2>1, <3>1 DEF CleanOK
    <3> QED BY <3>5, <3>6, <3>7, <3>8 DEF CleanOK
  <2> QED BY <1>1, <1>2, <2>1 DEF CleanupInv, Resources!NoFault
<1>3. CASE Resources!Fault({"call"}) \/ Resources!Fault({"call", "lost"})
  BY <1>1, <1>3 DEF CleanupInv, Resources!Fault
<1> QED BY <1>2, <1>3 DEF Resources!Remove

LEMMA CleanedCleans ==
  ASSUME TypesInv, CleanupInv, Resources!Cleaned
  PROVE  CleanupInv'
<1>1. /\ phase = "clean" /\ todo = {} /\ UNCHANGED <<objects, op, mishaps, defects>>
      /\ phase' = "idle" /\ outcome' = IF "call" \in defects THEN "error" ELSE "ok"
      /\ op.name = "cleanup" /\ outcome' = "ok" => UNCHANGED before
  BY DEF Resources!Cleaned, Resources!Finish, Resources!Judged
<1>2. CASE op.name = "cleanup" /\ outcome' = "ok"
  <2>1. \A k \in Resources!Kinds : Gone(k)
    BY <1>1, <1>2 DEF CleanupInv, CleanOK
  <2> QED BY <1>1, <1>2, <2>1 DEF CleanupInv, Gone, Resources!Own
<1>3. CASE ~(op.name = "cleanup" /\ outcome' = "ok")
  BY <1>1, <1>3 DEF CleanupInv
<1> QED BY <1>2, <1>3

\* The controllers act for an own Certificate, which a clean-up takes before the Secret.
LEMMA IssueCleans ==
  ASSUME TypesInv, CleanupInv, Resources!IssueCertificate
  PROVE  CleanupInv'
<1>1. /\ UNCHANGED <<op, phase, todo, saved, outcome, before, defects>>
      /\ Resources!Own("certificate")
      /\ \A k \in Resources!Kinds \ {"tls"} : objects'[k] = objects[k]
      /\ {"certificate", "tls"} \subseteq Resources!Kinds
  BY DEF Resources!IssueCertificate, Resources!calls, Resources!Put, Resources!Kinds,
         TypesInv, ResourceTypes
<1>2. ~Gone("certificate")
  BY <1>1 DEF Gone
<1>3. \A k \in Resources!Kinds \ {"tls"} : Gone(k) => Gone(k)'
  BY <1>1 DEF Gone, Resources!Own
<1>4. ASSUME CleanOK
      PROVE  CleanOK'
  <2>1. "tls" \in todo
    BY <1>1, <1>2, <1>4 DEF CleanOK
  <2> QED BY <1>1, <1>3, <1>4, <2>1 DEF CleanOK
<1> QED BY <1>1, <1>2, <1>4 DEF CleanupInv

\* Another machine writes to a Secret that is there, and so not to one that is gone.
LEMMA RivalCleans ==
  ASSUME TypesInv, CleanupInv, Resources!Rival
  PROVE  CleanupInv'
<1>1. /\ UNCHANGED <<op, phase, todo, saved, outcome, before>> /\ defects \subseteq defects'
      /\ Resources!Own("secret")
      /\ \A k \in Resources!Kinds \ {"secret"} : objects'[k] = objects[k]
      /\ {"certificate", "secret"} \subseteq Resources!Kinds
  BY DEF Resources!Rival, Resources!calls, Resources!Put, Resources!Kinds, Resources!Fault,
         TypesInv, ResourceTypes
<1>2. ~Gone("secret")
  BY <1>1 DEF Gone
<1>3. \A k \in Resources!Kinds \ {"secret"} : Gone(k) => Gone(k)'
  BY <1>1 DEF Gone, Resources!Own
<1>4. ASSUME CleanOK
      PROVE  CleanOK'
  <2>1. "secret" \in todo
    BY <1>1, <1>2, <1>4 DEF CleanOK
  <2> QED BY <1>1, <1>3, <1>4, <2>1 DEF CleanOK
<1> QED BY <1>1, <1>2, <1>4 DEF CleanupInv

LEMMA StartCleans ==
  ASSUME NEW o \in Resources!Ensures \cup Resources!Others, Resources!Start(o)
  PROVE  CleanupInv'
<1>1. /\ UNCHANGED objects /\ op' = o /\ todo' = Resources!Steps(o)
      /\ phase' = IF o.name = "cleanup" THEN "clean" ELSE "apply"
      /\ saved' = Resources!NoSnapshots /\ before' = objects
  BY DEF Resources!Start
<1>2. CASE o.name = "cleanup"
  <2>1. Resources!Kinds \cup {"read"} \subseteq todo'
    BY <1>1, <1>2, StepsOf DEF Resources!Kinds
  <2>2. CleanOK'
    BY <1>1, <2>1 DEF CleanOK, Resources!Kinds
  <2> QED BY <1>1, <1>2, <2>2 DEF CleanupInv
<1>3. CASE o.name # "cleanup"
  BY <1>1, <1>3 DEF CleanupInv
<1> QED BY <1>2, <1>3

\* What applies or undoes belongs to another operation.
LEMMA ElsewhereCleans ==
  ASSUME TypesInv, Resources!Applying \/ Resources!Undo
  PROVE  CleanupInv'
<1>1. phase \in {"apply", "undo"} /\ UNCHANGED op
  BY DEF Resources!Applying, Resources!Undo, Resources!ApplySecret, Resources!ApplyDeployment,
         Resources!ApplyService, Resources!ApplyTCPService, Resources!ApplyIssuer,
         Resources!ApplyCertificate, Resources!ApplyIngress, Resources!Apply,
         Resources!DropStaleService, Resources!Snapshot, Resources!CheckSlot,
         Resources!CheckCore, Resources!CheckPort, Resources!Look, Resources!Scale,
         Resources!Applied, Resources!Uncreate, Resources!DropIssuer,
         Resources!RestoreSecret, Resources!RestoreDynamic, Resources!Undone,
         Resources!Turn, Resources!Proceed, Resources!Fail, Resources!Finish
<1> QED BY <1>1, OtherCleans DEF TypesInv, TodoOK

LEMMA CleanupStep ==
  ASSUME TypesInv, CleanupInv, Resources!Next
  PROVE  CleanupInv'
<1>1. CASE \E o \in Resources!Ensures \cup Resources!Others : o.name # "idle" /\ Resources!Start(o)
  BY <1>1, StartCleans
<1>2. CASE Resources!Removing
  <2>1. (\E k \in Resources!Kinds : Resources!Remove(k)) => CleanupInv'
    BY RemoveCleans
  <2> QED BY <1>2, <2>1, ReadCleans, CleanedCleans
          DEF Resources!Removing, Resources!RemoveCertificate, Resources!RemoveTLSSecret,
              Resources!RemoveIssuer, Resources!RemoveCore, Resources!Kinds
<1>3. CASE Resources!Crash
  BY <1>3 DEF Resources!Crash, Resources!Finish, CleanupInv
<1> QED BY <1>1, <1>2, <1>3, ElsewhereCleans, IssueCleans, RivalCleans DEF Resources!Next
-----------------------------------------------------------------------------
(* What an ensure or a configure does to the core and the Ingress of a tunnel, *)
(* for TunnelChange, where it is one step.                                     *)

Core == {"secret", "deployment", "service", "ingress"}

\* What the operation found of a Deployment and an Ingress.
WasTyped ==
  /\ before["ingress"] \in Resources!Hosts \cup {NoDomain, Absent, Foreign}
  /\ before["deployment"] \in Resources!Managed("deployment") \cup {Absent, Foreign}

\* While the calls are made: those that were are as asked, and the Ingress comes last.
MadeOK ==
  /\ WasTyped
  /\ op.name = "ensure" => \A k \in Core \ todo : objects[k] = Resources!Desired(k)
  /\ op.name = "configure" => \A k \in {"deployment", "service"} : objects[k] = before[k]
  /\ "ingress" \notin todo => todo \subseteq {"port", "scale"}

\* When they are undone: what was there may be rewritten, the Ingress not without the
\* Deployment and neither of them by a configure.
HalfOK ==
  /\ WasTyped
  /\ before["service"] # Absent => objects["service"] # Absent
  /\ before["deployment"] # Absent =>
       \/ objects["deployment"] = before["deployment"]
       \/ op.name = "ensure" /\ objects["deployment"] = Resources!Desired("deployment")
  /\ before["ingress"] # Absent =>
       \/ objects["ingress"] = before["ingress"]
       \/ /\ op.name = "ensure" /\ objects["ingress"] = Resources!Desired("ingress")
          /\ before["deployment"] # Absent =>
               objects["deployment"] = Resources!Desired("deployment")

CallsInv ==
  Judging =>
    /\ phase = "apply" => MadeOK
    /\ phase = "undo" => HalfOK
    /\ phase = "idle" /\ outcome = "error" => HalfOK
    /\ phase = "idle" /\ outcome = "ok" /\ op.name = "ensure" =>
         \A k \in Core : objects[k] = Resources!Desired(k)

LEMMA CallsNext ==
  (Judging' => /\ phase' = "apply" => MadeOK'
               /\ phase' = "undo" => HalfOK'
               /\ phase' = "idle" /\ outcome' = "error" => HalfOK'
               /\ phase' = "idle" /\ outcome' = "ok" /\ op'.name = "ensure" =>
                    \A k \in Core : objects'[k] = Resources!Desired(k)')
    => CallsInv'
BY DEF CallsInv

\* What Desired says is said by the operation.
LEMMA DesiredStays ==
  ASSUME UNCHANGED op, NEW k
  PROVE  Resources!Desired(k)' = Resources!Desired(k)
BY DEF Resources!Desired

\* Records with the same fields are the same.
LEMMA SameRecord ==
  ASSUME NEW A, NEW G, NEW U, NEW D, NEW r \in [auth : A, digest : G, up : U, domain : D],
         NEW s \in [auth : A, digest : G, up : U, domain : D],
         r.auth = s.auth, r.digest = s.digest, r.up = s.up, r.domain = s.domain
  PROVE  r = s
OBVIOUS

\* What the roll-back leaves, field by field, is one of the halfway states.
LEMMA OneOfHalfway ==
  ASSUME NEW a, NEW g, NEW u, NEW c, NEW f, NEW v, NEW h, NEW asked,
         [auth |-> a, digest |-> g, up |-> u, domain |-> c] # None,
         \/ f = g /\ v = u /\ h = c
         \/ f = asked.digest /\ v = TRUE /\ h \in {c, asked.domain}
  PROVE  [auth |-> a, digest |-> f, up |-> v, domain |-> h]
           \in Halfway([auth |-> a, digest |-> g, up |-> u, domain |-> c], asked)
<1>1. PICK m : m = [auth |-> a, digest |-> g, up |-> u, domain |-> c]
  OBVIOUS
<1>2. PICK n : n = [auth |-> a, digest |-> f, up |-> v, domain |-> h]
  OBVIOUS
<1>3. CASE f = g /\ v = u /\ h = c
  BY <1>1, <1>2, <1>3, Zenon DEF Halfway
<1>4. CASE f = asked.digest /\ v = TRUE /\ h \in {c, asked.domain}
  <2>1. [m EXCEPT !.up = v, !.digest = f, !.domain = h] = n
    <3> DEFINE Both == [auth : {a}, digest : {g, f}, up : {u, v}, domain : {c, h}]
    <3>1. m \in Both /\ m.auth = a
      BY <1>1
    <3>2. PICK r : r = [m EXCEPT !.up = v, !.digest = f, !.domain = h]
      OBVIOUS
    <3>3. r \in Both /\ r.auth = a /\ r.digest = f /\ r.up = v /\ r.domain = h
      BY <3>1, <3>2
    <3>4. n \in Both /\ n.auth = a /\ n.digest = f /\ n.up = v /\ n.domain = h
      BY <1>2
    <3>5. r = n
      BY <3>3, <3>4, SameRecord
    <3> QED BY <3>2, <3>5, Zenon
  <2>2. [m EXCEPT !.up = TRUE, !.digest = asked.digest, !.domain = h] = n
    BY <1>4, <2>1, Zenon
  <2>3. m.domain = c
    BY <1>1
  <2>4. n \in {[m EXCEPT !.up = TRUE, !.digest = asked.digest, !.domain = e] :
                 e \in {m.domain, asked.domain}}
    BY <1>4, <2>2, <2>3, Zenon
  <2> QED BY <1>1, <1>2, <2>4, Zenon DEF Halfway
<1> QED BY <1>3, <1>4

LEMMA CoreKinds == Core \subseteq Undoable /\ Core \subseteq Resources!Kinds
BY DEF Core, Undoable, Resources!Kinds

LEMMA IngressTurn ==
  ASSUME Resources!Turn("apply", "ingress"), todo \subseteq Resources!Steps(op),
         op.name \in {"ensure", "configure"}
  PROVE  todo \ {"ingress"} \subseteq {"port"}
<1> DEFINE order == <<"core", "secret", "deployment", "service", "tcp", "snapshot", "slot",
                      "issuer", "certificate", "ingress", "port", "scale">>
<1>1. Resources!Order["apply"] = order
  BY DEF Resources!Order
<1>2. todo \subseteq {"core", "secret", "deployment", "service", "tcp", "snapshot", "slot",
                      "issuer", "certificate", "ingress", "port"}
  BY DEF Resources!Steps, Resources!ForDomain
<1>3. PICK i \in DOMAIN order : order[i] = "ingress" /\ \A j \in 1..(i - 1) : order[j] \notin todo
  BY <1>1 DEF Resources!Turn
<1>4. i = 10
  BY <1>3, SMTT(30)
<1>5. \A j \in 1..9 : order[j] \notin todo
  BY <1>3, <1>4, SMTT(30)
<1>6. /\ order[1] = "core" /\ order[2] = "secret" /\ order[3] = "deployment"
      /\ order[4] = "service" /\ order[5] = "tcp" /\ order[6] = "snapshot"
      /\ order[7] = "slot" /\ order[8] = "issuer" /\ order[9] = "certificate"
  BY SMTT(30)
<1> HIDE DEF order
<1>7. {"core", "secret", "deployment", "service", "tcp", "snapshot", "slot",
       "issuer", "certificate"} \cap todo = {}
  BY <1>5, <1>6, SMTT(30)
<1> QED BY <1>2, <1>7

\* A call that fails without effect: the Ingress is as it was, if the Deployment is.
LEMMA FailHalves ==
  ASSUME TypesInv, ApplyOK, MadeOK, op.name \in {"ensure", "configure"}, phase = "apply",
         NEW call, call \in todo, UNCHANGED objects, Resources!Fail(call)
  PROVE  phase' = "undo" /\ HalfOK'
<1>1. phase' = "undo" /\ UNCHANGED <<op, before>> /\ WasTyped'
  BY DEF Resources!Fail, MadeOK, WasTyped
<1>2. \A k \in {"deployment", "service", "ingress"} : k \in todo => objects[k] = before[k]
  BY CoreKinds DEF ApplyOK, Core
<1>3. CASE op.name = "ensure"
  <2>1. \A k \in {"deployment", "service", "ingress"} \ todo : objects[k] = Resources!Desired(k)
    BY <1>3 DEF MadeOK, Core
  <2>3. Resources!Desired("service") # Absent
    BY ManagedIs, Sentinels DEF Resources!Desired, Resources!Kinds
  <2>2. "ingress" \notin todo => "deployment" \notin todo
    BY DEF MadeOK
  <2> QED BY <1>1, <1>2, <1>3, <2>1, <2>2, <2>3, DesiredStays DEF HalfOK
<1>4. CASE op.name = "configure"
  <2>1. todo \cap {"port", "scale"} = {}
    BY <1>4 DEF TypesInv, TodoOK, Resources!Steps, Resources!ForDomain
  <2>2. "ingress" \in todo
    BY <2>1 DEF MadeOK
  <2> QED BY <1>1, <1>2, <1>4, <2>2 DEF HalfOK, MadeOK
<1> QED BY <1>3, <1>4

LEMMA FailCalls ==
  ASSUME TypesInv, RollbackInv, CallsInv, phase = "apply", NEW call, call \in todo,
         Resources!Fail(call), made' \subseteq Undoable, SavedOK', defects \subseteq defects',
         Judging' => UNCHANGED objects
  PROVE  CallsInv'
<1>1. op' = op
  BY TypesAre, FailKeeps
<1>2. CASE Judging'
  <2>1. Judging
    BY <1>1, <1>2, Excused
  <2>2. phase' = "undo" /\ HalfOK'
    BY <1>2, <2>1, RollbackIs, FailHalves DEF Judging, CallsInv
  <2> QED BY <2>2, CallsNext
<1>3. CASE ~Judging'
  BY <1>3, CallsNext
<1> QED BY <1>2, <1>3

\* A call that goes through.
LEMMA ProceedCalls ==
  ASSUME CallsInv, phase = "apply", NEW call, Resources!Proceed(call), defects' = defects,
         Judging /\ MadeOK => MadeOK'
  PROVE  CallsInv'
<1>1. op' = op /\ phase' = "apply"
  BY DEF Resources!Proceed
<1>2. CASE Judging
  BY <1>1, <1>2, CallsNext DEF CallsInv
<1>3. CASE ~Judging
  BY <1>1, <1>3, Excused, CallsNext
<1> QED BY <1>2, <1>3

LEMMA ApplyCalls ==
  ASSUME TypesInv, RollbackInv, CallsInv, NEW k \in Undoable, Resources!Apply(k)
  PROVE  CallsInv'
<1>1. /\ Resources!Turn("apply", k) /\ phase = "apply" /\ k \in todo
      /\ made \subseteq Undoable /\ SavedOK
  BY TypesAre DEF Resources!Apply, Resources!Turn, CallsOK
<1>2. CASE /\ Resources!Put(k, Resources!Desired(k))
           /\ Resources!NoFault
           /\ Resources!Proceed(k)
  <2>1. /\ todo' = todo \ {k} /\ UNCHANGED <<op, before>> /\ k \in Resources!Kinds
        /\ objects'[k] = Resources!Desired(k)
        /\ \A j \in Resources!Kinds \ {k} : objects'[j] = objects[j]
    BY <1>2 DEF Resources!Proceed, Resources!Put, TypesInv, ResourceTypes, Undoable
  <2>2. ASSUME Judging, MadeOK
        PROVE  MadeOK'
    <3>1. op'.name = "ensure" => \A j \in Core \ todo' : objects'[j] = Resources!Desired(j)'
      <4> SUFFICES ASSUME op.name = "ensure", NEW j \in Core \ todo'
                   PROVE  objects'[j] = Resources!Desired(j)
        BY <2>1, DesiredStays
      <4> QED BY <2>1, <2>2, CoreKinds DEF MadeOK
    <3>2. op'.name = "configure" => \A j \in {"deployment", "service"} : objects'[j] = before'[j]
      <4>1. op.name = "configure" => k \notin {"deployment", "service"}
        BY <1>1 DEF TypesInv, TodoOK, Resources!Steps, Resources!ForDomain
      <4> QED BY <2>1, <2>2, <4>1, CoreKinds DEF MadeOK, Core
    <3>3. "ingress" \notin todo' => todo' \subseteq {"port", "scale"}
      <4>1. CASE k = "ingress"
        BY <1>1, <2>1, <2>2, <4>1, IngressTurn DEF TypesInv, TodoOK, Judging
      <4>2. CASE k # "ingress"
        BY <2>1, <2>2, <4>2 DEF MadeOK
      <4> QED BY <4>1, <4>2
    <3> QED BY <2>1, <2>2, <3>1, <3>2, <3>3 DEF MadeOK, WasTyped
  <2> QED BY <1>1, <1>2, <2>2, ProceedCalls DEF Resources!NoFault
<1>3. CASE Resources!Fault({"lost"}) /\ UNCHANGED <<made, saved>> /\ Resources!Fail(k)
  <2>1. ~Judging' /\ defects \subseteq defects'
    BY <1>3, FaultExcuses DEF Resources!Fault
  <2>2. made' \subseteq Undoable /\ SavedOK'
    BY <1>1, <1>3 DEF SavedOK
  <2> QED BY <1>1, <1>3, <2>1, <2>2, FailCalls
<1>4. CASE /\ IF objects[k] = Foreign THEN Resources!NoFault ELSE Resources!Fault({})
           /\ UNCHANGED <<objects, made, saved>>
           /\ Resources!Fail(k)
  <2>1. defects \subseteq defects'
    BY <1>4 DEF Resources!Fault, Resources!NoFault
  <2>2. made' \subseteq Undoable /\ SavedOK'
    BY <1>1, <1>4 DEF SavedOK
  <2> QED BY <1>1, <1>4, <2>1, <2>2, FailCalls
<1> QED BY <1>2, <1>3, <1>4 DEF Resources!Apply

\* Calls that do not write the core or the Ingress.
LEMMA AsideMade ==
  ASSUME MadeOK, NEW call, call \notin Core, todo' = todo \ {call}, UNCHANGED <<op, before>>,
         \A k \in Core : objects'[k] = objects[k]
  PROVE  MadeOK'
<1>1. op'.name = "ensure" => \A k \in Core \ todo' : objects'[k] = Resources!Desired(k)'
  <2> SUFFICES ASSUME op.name = "ensure", NEW k \in Core \ todo'
               PROVE  objects'[k] = Resources!Desired(k)
    BY DesiredStays
  <2> QED BY DEF MadeOK
<1>2. op'.name = "configure" => \A k \in {"deployment", "service"} : objects'[k] = before'[k]
  BY DEF MadeOK, Core
<1>3. "ingress" \notin todo' => todo' \subseteq {"port", "scale"}
  BY DEF MadeOK, Core
<1> QED BY <1>1, <1>2, <1>3 DEF MadeOK, WasTyped

LEMMA LookCalls ==
  ASSUME TypesInv, RollbackInv, CallsInv, NEW call \in {"slot", "core", "port"}, NEW good,
         Resources!Look(call, good)
  PROVE  CallsInv'
<1>1. /\ phase = "apply" /\ call \in todo /\ UNCHANGED <<objects, made, saved>>
      /\ made' \subseteq Undoable /\ SavedOK'
  BY TypesAre DEF Resources!Look, Resources!Turn, CallsOK, SavedOK
<1>2. CASE Resources!NoFault /\ Resources!Proceed(call)
  <2>1. MadeOK => MadeOK'
    BY <1>1, <1>2, AsideMade DEF Resources!Proceed, Core
  <2> QED BY <1>1, <1>2, <2>1, ProceedCalls DEF Resources!NoFault
<1>3. CASE (Resources!NoFault \/ Resources!Fault({})) /\ Resources!Fail(call)
  <2>1. defects \subseteq defects'
    BY <1>3 DEF Resources!Fault, Resources!NoFault
  <2> QED BY <1>1, <1>3, <2>1, FailCalls
<1> QED BY <1>2, <1>3 DEF Resources!Look

LEMMA DropCalls ==
  ASSUME TypesInv, RollbackInv, CallsInv, Resources!DropStaleService
  PROVE  CallsInv'
<1>1. /\ phase = "apply" /\ UNCHANGED <<made, saved>> /\ "tcp" \in todo
      /\ made' \subseteq Undoable /\ SavedOK'
  BY TypesAre DEF Resources!DropStaleService, Resources!Turn, CallsOK, SavedOK
<1>2. CASE /\ IF Resources!Own("tcp") THEN Resources!Put("tcp", Absent) ELSE UNCHANGED objects
           /\ Resources!NoFault
           /\ Resources!Proceed("tcp")
  <2>1. /\ todo' = todo \ {"tcp"} /\ UNCHANGED <<op, before>>
        /\ \A k \in Core : objects'[k] = objects[k]
    BY <1>2, CoreKinds DEF Resources!Proceed, Resources!Put, TypesInv, ResourceTypes, Core
  <2>2. MadeOK => MadeOK'
    BY <2>1, AsideMade DEF Core
  <2> QED BY <1>1, <1>2, <2>2, ProceedCalls DEF Resources!NoFault
<1>3. CASE Resources!Fault({"lost"}) /\ Resources!Fail("tcp")
  <2>1. ~Judging' /\ defects \subseteq defects'
    BY <1>3, FaultExcuses DEF Resources!Fault
  <2> QED BY <1>1, <1>3, <2>1, FailCalls
<1>4. CASE UNCHANGED objects /\ Resources!Fault({}) /\ Resources!Fail("tcp")
  <2>1. defects \subseteq defects'
    BY <1>4 DEF Resources!Fault
  <2> QED BY <1>1, <1>4, <2>1, FailCalls
<1> QED BY <1>2, <1>3, <1>4 DEF Resources!DropStaleService

LEMMA SnapshotCalls ==
  ASSUME TypesInv, RollbackInv, CallsInv, Resources!Snapshot
  PROVE  CallsInv'
<1>1. /\ phase = "apply" /\ UNCHANGED <<objects, made>> /\ "snapshot" \in todo
      /\ made' \subseteq Undoable /\ SavedOK
  BY TypesAre DEF Resources!Snapshot, Resources!Turn, CallsOK
<1>2. CASE Resources!NoFault /\ Resources!Proceed("snapshot")
  <2>1. MadeOK => MadeOK'
    BY <1>1, <1>2, AsideMade DEF Resources!Proceed, Core
  <2> QED BY <1>1, <1>2, <2>1, ProceedCalls DEF Resources!NoFault
<1>3. CASE Resources!Fault({}) /\ UNCHANGED saved /\ Resources!Fail("snapshot")
  <2>1. defects \subseteq defects' /\ SavedOK'
    BY <1>1, <1>3 DEF Resources!Fault, SavedOK
  <2> QED BY <1>1, <1>3, <2>1, FailCalls
<1> QED BY <1>2, <1>3 DEF Resources!Snapshot

LEMMA OtherCalls ==
  ASSUME UNCHANGED op, op.name \notin {"ensure", "configure"}
  PROVE  CallsInv'
BY DEF CallsInv, Judging

\* All of them are made.
LEMMA AppliedCalls ==
  ASSUME CallsInv, Resources!Applied
  PROVE  CallsInv'
<1>1. CASE op.name = "clear" /\ UNCHANGED op
  BY <1>1, OtherCalls
<1>2. CASE /\ Resources!Finish("ok") /\ phase = "apply" /\ todo = {}
           /\ UNCHANGED <<objects, mishaps, defects>>
  <2>1. phase' = "idle" /\ outcome' = "ok" /\ UNCHANGED <<op, objects, defects>>
    BY <1>2 DEF Resources!Finish
  <2>2. Judging /\ op.name = "ensure" => \A k \in Core : objects[k] = Resources!Desired(k)
    BY <1>2 DEF CallsInv, MadeOK
  <2> QED BY <2>1, <2>2, CallsNext, DesiredStays DEF Judging
<1> QED BY <1>1, <1>2 DEF Resources!Applied

\* The roll-back takes away what was not there and rewrites neither of the two.
LEMMA UndoCallsKeep ==
  ASSUME CallsInv, phase = "undo", UNCHANGED <<op, phase, before>>, defects \subseteq defects',
         Judging /\ Judging' => \A k \in {"deployment", "service", "ingress"} :
                                  objects'[k] = objects[k] \/ before[k] = Absent
  PROVE  CallsInv'
<1>1. CASE Judging'
  <2>1. Judging /\ HalfOK
    BY <1>1, Excused DEF CallsInv
  <2>2. HalfOK'
    BY <1>1, <2>1, DesiredStays DEF HalfOK, WasTyped
  <2> QED BY <2>2, CallsNext
<1>2. CASE ~Judging'
  BY <1>2, CallsNext
<1> QED BY <1>1, <1>2

LEMMA UncreateCalls ==
  ASSUME TypesInv, RollbackInv, CallsInv, NEW k \in Resources!Kinds, Resources!Uncreate(k)
  PROVE  CallsInv'
<1>1. /\ phase = "undo" /\ k \in todo /\ UNCHANGED <<op, phase, before>>
      /\ defects \subseteq defects'
      /\ \A j \in Resources!Kinds \ {k} : objects'[j] = objects[j]
  BY DEF Resources!Uncreate, Resources!Turn, Resources!NoFault, Resources!Fault,
         Resources!Put, TypesInv, ResourceTypes
<1>2. k \in Undoable
  BY <1>1 DEF TypesInv, TodoOK, Undoable, Resources!Kinds
<1>3. Judging => before[k] = Absent
  BY <1>1, <1>2, RollbackIs DEF UndoOK
<1> QED BY <1>1, <1>3, UndoCallsKeep, CoreKinds DEF Core

LEMMA RestoreCalls ==
  ASSUME TypesInv, CallsInv,
         \/ Resources!DropIssuer \/ Resources!RestoreSecret
         \/ Resources!RestoreDynamic("issuer back", "issuer")
         \/ Resources!RestoreDynamic("certificate back", "certificate")
  PROVE  CallsInv'
<1> DEFINE aside ==
      /\ phase = "undo" /\ UNCHANGED <<op, phase, before>> /\ defects \subseteq defects'
      /\ \A j \in {"deployment", "service", "ingress"} : objects'[j] = objects[j]
<1>0. DOMAIN objects = Resources!Kinds
  BY DEF TypesInv, ResourceTypes
<1>1. ASSUME NEW k \in {"secret", "issuer", "certificate"}, NEW v,
             Resources!Put(k, v) \/ UNCHANGED objects
      PROVE  \A j \in {"deployment", "service", "ingress"} : objects'[j] = objects[j]
  BY <1>0, <1>1 DEF Resources!Put, Resources!Kinds
<1>2. Resources!DropIssuer => aside
  BY <1>1 DEF Resources!DropIssuer, Resources!Turn, Resources!NoFault, Resources!Fault
<1>3. Resources!RestoreSecret => aside
  BY <1>1 DEF Resources!RestoreSecret, Resources!Turn, Resources!NoFault, Resources!Fault
<1>4. ASSUME NEW call, NEW k \in {"issuer", "certificate"}, Resources!RestoreDynamic(call, k)
      PROVE  aside
  BY <1>1, <1>4
     DEF Resources!RestoreDynamic, Resources!Turn, Resources!NoFault, Resources!Fault
<1>5. aside
  BY <1>2, <1>3, <1>4
<1> QED BY <1>5, UndoCallsKeep

LEMMA UndoneCalls ==
  ASSUME TypesInv, CallsInv, Resources!Undone
  PROVE  CallsInv'
<1>1. /\ phase = "undo" /\ Resources!Finish("error")
      /\ UNCHANGED <<objects, defects>> /\ op.name \in {"ensure", "configure"}
  BY DEF Resources!Undone, TypesInv, TodoOK
<1>2. phase' = "idle" /\ outcome' = "error" /\ UNCHANGED <<op, before>>
  BY <1>1 DEF Resources!Finish, Resources!Judged
<1>3. Judging => HalfOK'
  BY <1>1, <1>2, DesiredStays DEF CallsInv, HalfOK, WasTyped
<1> QED BY <1>1, <1>2, <1>3, CallsNext DEF Judging

LEMMA IssueCalls ==
  ASSUME TypesInv, CallsInv, Resources!IssueCertificate
  PROVE  CallsInv'
<1>1. /\ UNCHANGED <<op, phase, todo, outcome, before, defects>>
      /\ \A k \in Core : objects'[k] = objects[k]
  BY CoreKinds DEF Resources!IssueCertificate, Resources!calls, Resources!Put, Core,
                   TypesInv, ResourceTypes
<1>2. MadeOK => MadeOK'
  BY <1>1, DesiredStays DEF MadeOK, WasTyped, Core
<1>3. HalfOK => HalfOK'
  BY <1>1, DesiredStays DEF HalfOK, WasTyped, Core
<1> QED BY <1>1, <1>2, <1>3, CallsNext, DesiredStays DEF CallsInv, Judging

LEMMA StartCalls ==
  ASSUME TypesInv, NEW o \in Resources!Ensures \cup Resources!Others, Resources!Start(o)
  PROVE  CallsInv'
<1>1. /\ UNCHANGED objects /\ op' = o /\ todo' = Resources!Steps(o)
      /\ before' = objects /\ phase' = IF o.name = "cleanup" THEN "clean" ELSE "apply"
  BY DEF Resources!Start
<1>2. CASE o.name \in {"ensure", "configure"}
  <2>1. "ingress" \in todo' /\ (o.name = "ensure" => Core \subseteq todo')
    BY <1>1, <1>2 DEF Resources!Steps, Core
  <2>2. MadeOK'
    <3>1. objects["deployment"] \in Resources!Managed("deployment") \cup {Absent, Foreign}
      BY DEF TypesInv, ResourceTypes, Resources!Kinds
    <3>2. WasTyped'
      BY <1>1, <3>1, ManagedIs
         DEF WasTyped, TypesInv, ResourceTypes, Resources!Kinds, Resources!Managed
    <3> QED BY <1>1, <2>1, <3>2 DEF MadeOK
  <2> QED BY <1>1, <1>2, <2>2, CallsNext
<1>3. CASE o.name \notin {"ensure", "configure"}
  BY <1>1, <1>3, CallsNext DEF Judging
<1> QED BY <1>2, <1>3

LEMMA CallsStep ==
  ASSUME TypesInv, RollbackInv, CallsInv, Resources!Next
  PROVE  CallsInv'
<1>1. CASE \E o \in Resources!Ensures \cup Resources!Others : o.name # "idle" /\ Resources!Start(o)
  BY <1>1, StartCalls
<1>2. CASE Resources!Applying
  <2>1. {"secret", "deployment", "service", "tcp", "issuer", "certificate", "ingress"}
          \subseteq Undoable
    BY DEF Undoable, Resources!Kinds
  <2>2. (\E k \in Undoable : Resources!Apply(k)) => CallsInv'
    BY ApplyCalls
  <2>3. Resources!CheckSlot \/ Resources!CheckCore \/ Resources!CheckPort => CallsInv'
    BY LookCalls DEF Resources!CheckSlot, Resources!CheckCore, Resources!CheckPort
  <2>4. Resources!Scale => CallsInv'
    <3>1. Resources!Scale => UNCHANGED op
      BY DEF Resources!Scale, Resources!Proceed, Resources!Fail, Resources!Finish
    <3> QED BY <3>1, ScaleTypes, OtherCalls
  <2> QED BY <1>2, <2>1, <2>2, <2>3, <2>4, DropCalls, SnapshotCalls, AppliedCalls
          DEF Resources!Applying, Resources!ApplySecret, Resources!ApplyDeployment,
              Resources!ApplyService, Resources!ApplyTCPService, Resources!ApplyIssuer,
              Resources!ApplyCertificate, Resources!ApplyIngress
<1>3. CASE Resources!Removing
  <2>1. phase = "clean" /\ UNCHANGED op
    BY <1>3 DEF Resources!Removing, Resources!RemoveCertificate, Resources!RemoveTLSSecret,
                Resources!RemoveIssuer, Resources!RemoveCore, Resources!Remove,
                Resources!ReadCertificate, Resources!Cleaned, Resources!Turn,
                Resources!Proceed, Resources!Finish
  <2> QED BY <2>1, OtherCalls DEF TypesInv, TodoOK
<1>4. CASE Resources!Undo
  BY <1>4, UncreateCalls, RestoreCalls, UndoneCalls DEF Resources!Undo
<1>5. CASE Resources!Crash
  BY <1>5, CallsNext DEF Resources!Crash, Resources!Finish
<1>6. CASE Resources!Rival
  BY <1>6, FaultExcuses, CallsNext DEF Resources!Rival
<1> QED BY <1>1, <1>2, <1>3, <1>4, <1>5, <1>6, IssueCalls DEF Resources!Next
-----------------------------------------------------------------------------
(* The invariant, and what it says of the specification. *)

LEMMA ResourcesInit ==
  ASSUME PartsInit
  PROVE  ResourcesInv
<1>1. /\ op = [name |-> "idle", config |-> None] /\ phase = "idle" /\ todo = {}
      /\ made = {} /\ saved = Resources!NoSnapshots
      /\ outcome = "none" /\ before = objects
      /\ mishaps = 0 /\ defects = {}
  BY DEF PartsInit, Resources!Init
<1>2. PICK s : objects = [k \in Resources!Kinds |-> IF k \in s THEN Foreign ELSE Absent]
  BY DEF PartsInit, Resources!Init
<1>3. ResourceTypes
  BY <1>1, <1>2, Sentinels
     DEF ResourceTypes, Resources!Others, Snapshots, Resources!NoSnapshots
<1>4. TodoOK
  BY <1>1 DEF TodoOK, Resources!NoSnapshots
<1>5. OwnersKept
  BY <1>1, <1>2 DEF OwnersKept, Resources!Kinds
<1>6. RollbackInv /\ CleanupInv
  BY <1>1 DEF RollbackInv, CleanupInv
<1> QED BY <1>3, <1>4, <1>5, <1>6 DEF ResourcesInv, TypesInv

LEMMA ResourcesSame ==
  ASSUME ResourcesInv, UNCHANGED resourceVars
  PROVE  ResourcesInv'
<1>1. UNCHANGED <<objects, op, phase, todo, made, saved, outcome, before, mishaps, defects>>
  BY DEF resourceVars
<1>2. TypesInv'
  BY <1>1 DEF ResourcesInv, TypesInv, ResourceTypes, TodoOK, OwnersKept
<1>3. (ApplyOK => ApplyOK') /\ (UndoOK => UndoOK')
      /\ \A k \in Undoable : Good(k) => Good(k)'
  BY <1>1 DEF ApplyOK, UndoOK, Good
<1>4. RollbackInv'
  BY <1>1, <1>3 DEF ResourcesInv, RollbackInv
<1>5. \A k \in Resources!Kinds : Gone(k) => Gone(k)'
  BY <1>1 DEF Gone, Resources!Own
<1>6. CleanupInv'
  BY <1>1, <1>5 DEF ResourcesInv, CleanupInv, CleanOK
<1> QED BY <1>2, <1>4, <1>6 DEF ResourcesInv

LEMMA ResourcesStep ==
  ASSUME ResourcesInv, [PartsNext]_<<part, vars, resourceVars>>
  PROVE  ResourcesInv'
<1>1. CASE Resources!Next
  BY <1>1, TypesStep, RollbackStep, CleanupStep DEF ResourcesInv, Kept
<1>2. CASE UNCHANGED resourceVars
  BY <1>2, ResourcesSame
<1> QED BY <1>1, <1>2 DEF PartsNext

\* The state of an operation on a tunnel's objects is always one of those the code can be
\* in: what its phase has left to do, what it has made and snapshot, whose the objects are
\* (pkg/k8s/client.go:120-270, 1430-1500, 1850-1960).
THEOREM ResourcesInvariance == PartsSpec => []ResourcesInv
<1>1. PartsInit => ResourcesInv
  BY ResourcesInit
<1>2. ResourcesInv /\ [PartsNext]_<<part, vars, resourceVars>> => ResourcesInv'
  BY ResourcesStep
<1> QED BY <1>1, <1>2, PTL DEF PartsSpec

\* An ensure or a configure that failed, with nothing gone wrong around it, has left no
\* object that it made and has the Secret, the Issuer and the Certificate as they were
\* (client.go:228-255, 1485-1494), whichever of its calls failed.
THEOREM FailuresUndone == PartsSpec => []Resources!FailureUndone
<1>1. ResourcesInv => Resources!FailureUndone
  BY DEF ResourcesInv, RollbackInv, Resources!FailureUndone, Good, Undoable
<1> QED BY <1>1, ResourcesInvariance, PTL

\* A clean-up that reports success has left nothing of the tunnel (client.go:1882-1960),
\* in whatever state operations that failed or died had left it.
THEOREM CleanupsComplete == PartsSpec => []CleanupComplete
<1>1. ResourcesInv => CleanupComplete
  BY DEF ResourcesInv, CleanupInv, CleanupComplete, Resources!CleanupComplete, Gone
<1> QED BY <1>1, ResourcesInvariance, PTL

\* No operation, no roll-back and no clean-up writes or deletes an object that does not
\* carry Sealtun's label (the checks before each Update and Delete, client.go:417-1779).
THEOREM OthersLeftAlone == PartsSpec => OthersUntouched
<1>1. ResourcesInv /\ [PartsNext]_<<part, vars, resourceVars>>
        => [Resources!OthersUntouchedBy]_resourceVars
  <2> SUFFICES ASSUME ResourcesInv, Resources!Next
               PROVE  Resources!OthersUntouchedBy
    BY DEF PartsNext
  <2> QED BY TypesStep DEF ResourcesInv, Kept, SameOwners, Resources!OthersUntouchedBy
<1> QED BY <1>1, ResourcesInvariance, PTL DEF PartsSpec, OthersUntouched

\* While an ensure makes its calls, those made are as asked and the Ingress comes after the
\* rest; when it fails, what the roll-back leaves is rewritten in that order
\* (pkg/k8s/client.go:256-333).
THEOREM CallsInvariance == PartsSpec => []CallsInv
<1>1. PartsInit => CallsInv
  BY DEF PartsInit, Resources!Init, CallsInv, Judging
<1>2. ResourcesInv /\ CallsInv /\ [PartsNext]_<<part, vars, resourceVars>> => CallsInv'
  <2> SUFFICES ASSUME ResourcesInv, CallsInv, [PartsNext]_<<part, vars, resourceVars>>
               PROVE  CallsInv'
    OBVIOUS
  <2>1. CASE Resources!Next
    BY <2>1, CallsStep DEF ResourcesInv
  <2>2. CASE UNCHANGED resourceVars
    <3>1. UNCHANGED <<objects, op, phase, todo, outcome, before, defects>>
      BY <2>2 DEF resourceVars
    <3>2. (MadeOK => MadeOK') /\ (HalfOK => HalfOK')
      BY <3>1, DesiredStays DEF MadeOK, HalfOK, WasTyped
    <3> QED BY <3>1, <3>2, CallsNext, DesiredStays DEF CallsInv, Judging
  <2> QED BY <2>1, <2>2 DEF PartsNext
<1> QED BY <1>1, <1>2, ResourcesInvariance, PTL DEF PartsSpec

LEMMA CallsAddUp ==
  ASSUME ResourcesInv, CallsInv
  PROVE  CallsAreOneStep
<1> SUFFICES ASSUME phase = "idle", defects = {}, op.name \in {"ensure", "configure"}
             PROVE  /\ op.name = "ensure" /\ outcome = "ok" => Seen(objects) = Wanted
                    /\ op.name = "ensure" /\ outcome = "error" =>
                         Seen(objects) \in Halfway(Seen(before), Wanted)
                    /\ op.name = "configure" /\ outcome = "error" =>
                         Seen(objects) = Seen(before)
  <2>1. Resources!FailureUndone
    BY DEF ResourcesInv, RollbackInv, Resources!FailureUndone, Good, Undoable
  <2> QED BY <2>1 DEF CallsAreOneStep
<1>1. /\ op \in Resources!Ensures \cup Resources!Others
      /\ {"secret", "deployment", "service", "ingress"} \subseteq Resources!Kinds
  BY DEF ResourcesInv, TypesInv, ResourceTypes, Resources!Kinds
<1>2. Judging
  BY DEF Judging
<1> DEFINE there(o) == \A k \in {"secret", "deployment", "service"} : o[k] \notin {Absent, Foreign}
<1> DEFINE host(o) == IF o["ingress"] \in {Absent, Foreign} THEN NoDomain ELSE o["ingress"]
<1>3. CASE op.name = "ensure" /\ outcome = "ok"
  <2>1. \A k \in Core : objects[k] = Resources!Desired(k)
    BY <1>2, <1>3 DEF CallsInv
  <2>2. /\ objects["secret"] = op.config.auth
        /\ objects["deployment"] = [auth |-> op.config.auth, replicas |-> 1]
        /\ objects["service"] = "own" /\ objects["ingress"] = op.config.domain
    BY <1>3, <2>1 DEF Core, Resources!Desired
  <2>3. \A k \in Core : objects[k] \notin {Absent, Foreign}
    <3>1. \A k \in Core : Resources!Desired(k) \in Resources!Managed(k)
      BY <1>1, <1>3, ConfigsAre, ManagedIs DEF Core, Resources!Desired
    <3> QED BY <2>1, <3>1, CoreKinds, Sentinels
  <2>4. /\ there(objects) /\ host(objects) = op.config.domain
        /\ objects["deployment"].replicas = 1 /\ objects["deployment"].auth = op.config.auth
    BY <2>2, <2>3 DEF Core
  <2> QED BY <1>3, <2>2, <2>4 DEF Seen, Wanted
<1>4. CASE outcome = "error"
  <2>1. HalfOK /\ \A k \in Undoable : Good(k)
    BY <1>2, <1>4, RollbackIs DEF CallsInv, ResourcesInv
  <2>2. \A k \in Core : (objects[k] = Foreign) <=> (before[k] = Foreign)
    BY CoreKinds DEF ResourcesInv, TypesInv, OwnersKept
  <2>3. \A k \in Core : before[k] = Absent => objects[k] = Absent
    BY <2>1, CoreKinds DEF Good
  <2>4. CASE ~there(before)
    <3>1. ~there(objects)
      BY <2>2, <2>3, <2>4 DEF Core
    <3>2. Seen(objects) = None /\ Seen(before) = None
      BY <2>4, <3>1 DEF Seen
    <3> QED BY <1>4, <3>2 DEF Halfway
  <2>5. CASE there(before)
    <3>1. objects["secret"] = before["secret"]
      BY <2>1 DEF Good, Undoable, Resources!Kinds
    <3>2. /\ op.name = "ensure" => Resources!Desired("deployment") =
                                     [auth |-> op.config.auth, replicas |-> 1]
          /\ op.name = "ensure" => Resources!Desired("ingress") = op.config.domain
      BY DEF Resources!Desired
    <3>3. op.name = "ensure" => /\ Resources!Desired("deployment") \notin {Absent, Foreign}
                                /\ Resources!Desired("ingress") \notin {Absent, Foreign}
      BY <1>1, <3>2, ConfigsAre, ManagedIs, Sentinels
    <3>4. \/ objects["deployment"] = before["deployment"]
          \/ op.name = "ensure" /\ objects["deployment"] = Resources!Desired("deployment")
      BY <2>1, <2>5 DEF HalfOK
    <3>5. there(objects)
      BY <2>1, <2>2, <2>5, <3>1, <3>3, <3>4 DEF HalfOK, Core
    <3>6. \/ host(objects) = host(before)
          \/ /\ op.name = "ensure" /\ host(objects) = op.config.domain
             /\ objects["deployment"] = Resources!Desired("deployment")
      <4>1. CASE before["ingress"] \in {Absent, Foreign}
        BY <2>2, <2>3, <4>1 DEF Core
      <4>2. CASE before["ingress"] \notin {Absent, Foreign}
        BY <2>1, <2>5, <3>2, <3>3, <4>2 DEF HalfOK
      <4> QED BY <4>1, <4>2
    <3> DEFINE key(o) == o["deployment"].auth
    <3>7. PICK u \in BOOLEAN, v \in BOOLEAN :
            /\ u <=> before["deployment"].replicas = 1
            /\ v <=> objects["deployment"].replicas = 1
            /\ Seen(before) = [auth |-> before["secret"], digest |-> key(before), up |-> u,
                               domain |-> host(before)]
            /\ Seen(objects) = [auth |-> before["secret"], digest |-> key(objects), up |-> v,
                                domain |-> host(objects)]
      <4> DEFINE up(o) == o["deployment"].replicas = 1
      <4>1. /\ Seen(before) = [auth |-> before["secret"], digest |-> key(before),
                               up |-> up(before), domain |-> host(before)]
            /\ Seen(objects) = [auth |-> before["secret"], digest |-> key(objects),
                                up |-> up(objects), domain |-> host(objects)]
        BY <2>5, <3>1, <3>5 DEF Seen
      <4>2. up(before) \in BOOLEAN /\ up(objects) \in BOOLEAN
        OBVIOUS
      <4> HIDE DEF host, key
      <4> QED BY <4>1, <4>2, Zenon
    <3>8. \/ key(objects) = key(before) /\ v = u /\ host(objects) = host(before)
          \/ /\ op.name = "ensure" /\ key(objects) = op.config.auth /\ v = TRUE
             /\ host(objects) \in {host(before), op.config.domain}
      <4>1. objects["deployment"] = [auth |-> op.config.auth, replicas |-> 1]
              => v = TRUE /\ key(objects) = op.config.auth
        BY <3>7
      <4>2. objects["deployment"] = before["deployment"]
              => v = u /\ key(objects) = key(before)
        BY <3>7
      <4> HIDE DEF host, key
      <4> QED BY <3>2, <3>4, <3>6, <4>1, <4>2
    <3>9. Seen(before) # None
      <4>1. before["secret"] \in Resources!Auths
        BY <1>1, <2>5, <3>1, ManagedIs
           DEF ResourcesInv, TypesInv, ResourceTypes, Resources!Kinds
      <4>2. host(before) \in Resources!Hosts \cup {NoDomain}
        BY <2>1 DEF HalfOK, WasTyped
      <4>3. key(before) \in Resources!Auths
        <5>1. before["deployment"] \in [auth : Resources!Auths, replicas : {0, 1}]
          BY <2>1, <2>5, ManagedIs DEF HalfOK, WasTyped
        <5> QED BY <5>1
      <4> HIDE DEF host, key
      <4> QED BY <3>7, <4>1, <4>2, <4>3, SeenAssumption
    <3> HIDE DEF host, key
    <3>10. CASE op.name = "ensure"
      <4>1. Wanted.domain = op.config.domain /\ Wanted.digest = op.config.auth
        BY DEF Wanted
      <4>2. \/ key(objects) = key(before) /\ v = u /\ host(objects) = host(before)
            \/ /\ key(objects) = Wanted.digest /\ v = TRUE
               /\ host(objects) \in {host(before), Wanted.domain}
        BY <3>8, <4>1, Zenon
      <4>3. [auth |-> before["secret"], digest |-> key(objects), up |-> v,
             domain |-> host(objects)] \in
              Halfway([auth |-> before["secret"], digest |-> key(before), up |-> u,
                       domain |-> host(before)], Wanted)
        BY <3>7, <3>9, <4>2, OneOfHalfway, Zenon
      <4> QED BY <1>4, <3>7, <3>10, <4>3, Zenon
    <3>11. CASE op.name # "ensure"
      BY <1>4, <3>7, <3>8, <3>11, Zenon
    <3> QED BY <3>10, <3>11
  <2> QED BY <2>4, <2>5
<1> QED BY <1>3, <1>4

\* The calls of an ensure add up to one step of TunnelChange: to what was asked when it
\* succeeds, to one of TunnelChange's halfway states when it fails, whichever call failed,
\* for any configurations, objects of others and number of mishaps; a configure that fails
\* changes nothing of what the commands see (client.go:120-333, 1430-1500).
THEOREM OneStep == PartsSpec => []CallsAreOneStep
<1>1. ResourcesInv /\ CallsInv => CallsAreOneStep
  BY CallsAddUp
<1> QED BY <1>1, ResourcesInvariance, CallsInvariance, PTL
=============================================================================
