------------------------- MODULE TunnelServer_proofs -------------------------
(***************************************************************************)
(* Theorems of TunnelServer for any number of clients, requests, raw       *)
(* connections and slots.                                                  *)
(***************************************************************************)
EXTENDS TunnelServer, FiniteSetTheorems, TLAPS

LEMMA InitInv == Init => IInv
<1> SUFFICES ASSUME Init PROVE IInv OBVIOUS
<1> USE DEF Init
<1>1. TypeOK
  BY ServerAssumption DEF TypeOK
<1>2. Openers = {} /\ Slotted = {} /\ Counted = {}
  BY DEF Openers, Slotted, Counted
<1>3. SlotsInv
  BY <1>2, FS_EmptySet DEF SlotsInv
<1>4. SessionInv
  BY ServerAssumption DEF SessionInv
<1>5. NewestStays /\ NoOrphanStream
  BY ServerAssumption DEF NewestStays, NoOrphanStream, Callers
<1> QED BY <1>1, <1>3, <1>4, <1>5 DEF IInv

\* What a slot more or less does to the count of those that have one.
LEMMA OneMore ==
  ASSUME NEW S, IsFiniteSet(S), NEW x, x \notin S
  PROVE  Cardinality(S \cup {x}) = Cardinality(S) + 1
BY FS_AddElement

LEMMA OneLess ==
  ASSUME NEW S, IsFiniteSet(S), NEW x, x \in S
  PROVE  /\ Cardinality(S \ {x}) = Cardinality(S) - 1
         /\ Cardinality(S) \in Nat /\ Cardinality(S) > 0
<1>1. Cardinality(S \ {x}) = Cardinality(S) - 1 /\ Cardinality(S) \in Nat
  BY FS_RemoveElement, FS_CardinalityType
<1>2. Cardinality(S) # 0
  BY FS_EmptySet
<1> QED BY <1>1, <1>2

LEMMA Finite == IsFiniteSet(Openers) /\ IsFiniteSet(Slotted) /\ IsFiniteSet(Counted)
<1>1. Openers \in SUBSET Dials /\ Slotted \in SUBSET Raws /\ Counted \in SUBSET Raws
  BY DEF Openers, Slotted, Counted
<1> QED BY <1>1, ServerAssumption, FS_Subset
-----------------------------------------------------------------------------
(* The sets of those that have slots, after each step that changes one. *)

LEMMA TakeSlotSlots ==
  ASSUME TypeOK, SlotsInv, NEW d \in Dials, TakeSlot(d)
  PROVE  SlotsInv' /\ opening' \in 0..StreamSlots
<1> USE DEF TakeSlot, TypeOK, SlotsInv, rawVars
<1>1. Openers' = Openers \cup {d} /\ d \notin Openers
  BY DEF Openers
<1>2. Slotted' = Slotted /\ Counted' = Counted
  BY DEF Slotted, Counted
<1>3. opening' = Cardinality(Openers')
  BY <1>1, Finite, OneMore
<1>4. slotted' = Cardinality(Slotted') /\ active' = Cardinality(Counted')
  BY <1>2
<1>5. opening' \in 0..StreamSlots
  BY ServerAssumption
<1>6. \A e \in Dials : dpc'[e] = "slot" => opc'[e] = "none"
  OBVIOUS
<1> QED BY <1>3, <1>4, <1>5, <1>6

LEMMA LeaveSlotSlots ==
  ASSUME TypeOK, SlotsInv, NEW d \in Dials, LeaveSlot(d)
  PROVE  SlotsInv' /\ opening' \in 0..StreamSlots
<1> USE DEF LeaveSlot, TypeOK, SlotsInv, rawVars
<1>1. Openers' = Openers \ {d} /\ d \in Openers
  BY DEF Openers
<1>2. Slotted' = Slotted /\ Counted' = Counted
  BY DEF Slotted, Counted
<1>3. opening' = Cardinality(Openers') /\ opening > 0
  BY <1>1, Finite, OneLess
<1>4. slotted' = Cardinality(Slotted') /\ active' = Cardinality(Counted')
  BY <1>2
<1>5. opening' \in 0..StreamSlots
  BY <1>3, ServerAssumption
<1>6. \A e \in Dials : dpc'[e] = "slot" => opc'[e] = "none"
  OBVIOUS
<1> QED BY <1>3, <1>4, <1>5, <1>6

\* The other steps of a dial and its goroutine pass the slot on.
LEMMA DialSlots ==
  ASSUME TypeOK, SlotsInv, NEW d \in Dials,
         \/ Request(d) \/ Cancel(d) \/ Respond(d) \/ GiveUp(d)
         \/ OpenStream(d) \/ HandOver(d) \/ Discard(d)
  PROVE  SlotsInv' /\ opening' \in 0..StreamSlots
<1> USE DEF TypeOK, rawVars, Request, Cancel, Respond, GiveUp, OpenStream,
            HandOver, Discard
<1>1. UNCHANGED <<opening, slotted, active, rpc>>
  OBVIOUS
<1>2. \A e \in Dials : opc'[e] = "none" <=> opc[e] = "none"
  OBVIOUS
<1>3. Openers' = Openers
  BY <1>2 DEF Openers
<1>4. Slotted' = Slotted /\ Counted' = Counted
  BY <1>1 DEF Slotted, Counted
<1>5. \A e \in Dials : dpc'[e] = "slot" => opc'[e] = "none"
  <2>1. \A e \in Dials \ {d} : dpc'[e] = dpc[e] /\ opc'[e] = opc[e]
    OBVIOUS
  <2>2. dpc'[d] = "slot" => opc'[d] = "none"
    BY DEF SlotsInv
  <2> QED BY <2>1, <2>2 DEF SlotsInv
<1> QED BY <1>1, <1>3, <1>4, <1>5 DEF SlotsInv

LEMMA RawSlotsInv ==
  ASSUME TypeOK, SlotsInv, NEW r \in Raws, Accept(r) \/ Raw(r)
  PROVE  SlotsInv' /\ slotted' \in 0..RawSlots /\ active' \in Nat
<1> USE DEF TypeOK, dialVars, Go
<1>1. CASE Accept(r)
  <2> USE <1>1 DEF Accept
  <2>1. Slotted' = Slotted \cup {r} /\ r \notin Slotted
    BY DEF Slotted
  <2>2. Counted' = Counted /\ Openers' = Openers
    BY DEF Counted, Slotted, Openers
  <2>3. slotted' = Cardinality(Slotted')
    BY <2>1, Finite, OneMore DEF SlotsInv
  <2> QED BY <2>2, <2>3, ServerAssumption DEF SlotsInv
<1>2. CASE Count(r)
  <2> USE <1>2 DEF Count
  <2>1. Counted' = Counted \cup {r} /\ r \notin Counted
    BY DEF Counted, Slotted
  <2>2. Slotted' = Slotted /\ Openers' = Openers
    BY DEF Slotted, Openers
  <2>3. active' = Cardinality(Counted')
    BY <2>1, Finite, OneMore DEF SlotsInv
  <2> QED BY <2>2, <2>3 DEF SlotsInv
<1>3. CASE OpenStreamRaw(r) \/ RelayEnds(r)
  <2> USE <1>3 DEF OpenStreamRaw, RelayEnds
  <2>1. Slotted' = Slotted /\ Counted' = Counted /\ Openers' = Openers
    BY DEF Counted, Slotted, Openers
  <2> QED BY <2>1 DEF SlotsInv
<1>4. CASE Uncount(r)
  <2> USE <1>4 DEF Uncount
  <2>1. Counted' = Counted \ {r} /\ r \in Counted
    BY DEF Counted, Slotted
  <2>2. Slotted' = Slotted /\ Openers' = Openers
    BY DEF Slotted, Openers
  <2>3. active' = Cardinality(Counted') /\ active > 0
    BY <2>1, Finite, OneLess DEF SlotsInv
  <2> QED BY <2>2, <2>3 DEF SlotsInv
<1>5. CASE Unslot(r)
  <2> USE <1>5 DEF Unslot
  <2>1. Slotted' = Slotted \ {r} /\ r \in Slotted
    BY DEF Slotted
  <2>2. Counted' = Counted /\ Openers' = Openers
    BY DEF Counted, Slotted, Openers
  <2>3. slotted' = Cardinality(Slotted') /\ slotted > 0
    BY <2>1, Finite, OneLess DEF SlotsInv
  <2> QED BY <2>2, <2>3, ServerAssumption DEF SlotsInv
<1> QED BY <1>1, <1>2, <1>3, <1>4, <1>5 DEF Raw
-----------------------------------------------------------------------------
(* One lemma for the steps of each kind of actor. *)

LEMMA TunnelKeeps ==
  ASSUME IInv, NEW c \in Tunnels,
         Connect(c) \/ Swap(c) \/ HandlerEnds(c) \/ GraceOver(c) \/ Lose(c)
  PROVE  IInv'
<1> USE DEF TypeOK, dialVars, rawVars, Gone
<1> USE DEF IInv
<1>1. UNCHANGED <<dialVars, rawVars, held, stream>>
  BY DEF Connect, Swap, HandlerEnds, GraceOver, Lose
<1>2. SlotsInv'
  BY <1>1 DEF SlotsInv, Openers, Slotted, Counted
<1>3. NoOrphanStream'
  BY <1>1 DEF NoOrphanStream
<1>4. CASE Connect(c)
  <2> USE <1>1, <1>4 DEF Connect
  <2>1. TypeOK'
    OBVIOUS
  <2>2. SessionInv'
    BY DEF SessionInv, Referenced
  <2>3. NewestStays'
    BY DEF NewestStays, Referenced
  <2> QED BY <1>2, <1>3, <2>1, <2>2, <2>3
<1>5. CASE Swap(c)
  <2> USE <1>1, <1>5 DEF Swap
  <2>1. TypeOK'
    OBVIOUS
  <2>2. SessionInv'
    <3> SUFFICES ASSUME NEW b \in Tunnels
                 PROVE  /\ hpc'[b] = "swap" => ~Referenced(b)' /\ sess'[b] # "closed"
                        /\ b \in drains' => b # activeSession'
                        /\ hpc'[b] = "wait" /\ sess'[b] = "open"
                             => b = activeSession' \/ b \in drains'
      BY DEF SessionInv
    <3>1. CASE b = c
      BY <3>1 DEF SessionInv, Referenced
    <3>2. CASE b # c
      <4>1. hpc'[b] = hpc[b] /\ sess'[b] = sess[b]
        BY <3>2
      <4>2. hpc[b] = "swap" => ~Referenced(b)'
        BY <3>2 DEF SessionInv, Referenced
      <4>3. hpc[b] = "wait" /\ sess[b] = "open" => b \in drains'
        BY DEF SessionInv
      <4> QED BY <3>2, <4>1, <4>2, <4>3 DEF SessionInv
    <3> QED BY <3>1, <3>2
  <2>3. NewestStays'
    BY DEF NewestStays, SessionInv
  <2> QED BY <1>2, <1>3, <2>1, <2>2, <2>3
<1>6. CASE HandlerEnds(c)
  <2> USE <1>1, <1>6 DEF HandlerEnds
  <2>1. TypeOK'
    OBVIOUS
  <2>2. SessionInv' /\ NewestStays'
    BY DEF SessionInv, Referenced, NewestStays
  <2> QED BY <1>2, <1>3, <2>1, <2>2
<1>7. CASE GraceOver(c)
  <2> USE <1>1, <1>7 DEF GraceOver
  <2>1. TypeOK'
    OBVIOUS
  <2>2. SessionInv'
    BY DEF SessionInv, Referenced
  <2>3. NewestStays'
    BY DEF SessionInv, NewestStays
  <2> QED BY <1>2, <1>3, <2>1, <2>2, <2>3
<1>8. CASE Lose(c)
  <2> USE <1>1, <1>8 DEF Lose
  <2>1. TypeOK'
    OBVIOUS
  <2>2. SessionInv' /\ NewestStays'
    BY DEF SessionInv, Referenced, NewestStays
  <2> QED BY <1>2, <1>3, <2>1, <2>2
<1> QED BY <1>4, <1>5, <1>6, <1>7, <1>8

\* A caller refers to no session but the active one.
LEMMA CallerSession ==
  ASSUME IInv, UNCHANGED sessionVars, NEW x \in Callers,
         NEW h \in Tunnels \cup {None}, held' = [held EXCEPT ![x] = h],
         h = None \/ h = activeSession \/ h = held[x]
  PROVE  SessionInv' /\ NewestStays' /\ held' \in [Callers -> Tunnels \cup {None}]
<1> USE DEF sessionVars, IInv, TypeOK
<1>1. held' \in [Callers -> Tunnels \cup {None}]
  OBVIOUS
<1>2. ASSUME NEW c \in Tunnels, ~Referenced(c) PROVE ~Referenced(c)'
  BY <1>2, ServerAssumption DEF Referenced
<1>3. SessionInv'
  BY <1>2 DEF SessionInv
<1> QED BY <1>1, <1>3 DEF NewestStays

LEMMA DialKeeps ==
  ASSUME IInv, NEW d \in Dials,
         \/ Request(d) \/ Cancel(d) \/ TakeSlot(d) \/ Respond(d)
         \/ GiveUp(d) \/ Opener(d)
  PROVE  IInv'
<1> USE DEF IInv
<1>1. SlotsInv' /\ opening' \in 0..StreamSlots
  BY TakeSlotSlots, LeaveSlotSlots, DialSlots DEF Opener
<1>2. d \in Callers /\ \A r \in Raws : r \in Callers /\ r # d
  BY ServerAssumption DEF Callers
<1>3. UNCHANGED <<sessionVars, rawVars>>
  BY DEF Request, Cancel, TakeSlot, Respond, GiveUp, Opener, OpenStream,
         HandOver, Discard, LeaveSlot
<1>4. \E h \in Tunnels \cup {None} :
        /\ held' = [held EXCEPT ![d] = h]
        /\ h = None \/ h = activeSession \/ h = held[d]
  <2>1. CASE Request(d)
    BY <2>1 DEF Request, TypeOK
  <2>2. CASE held' = [held EXCEPT ![d] = None]
    BY <2>2
  <2>3. CASE UNCHANGED held
    BY <1>2, <2>3 DEF TypeOK
  <2> QED
    BY <2>1, <2>2, <2>3 DEF Cancel, TakeSlot, Respond, GiveUp, Opener,
       OpenStream, HandOver, Discard, LeaveSlot
<1>5. SessionInv' /\ NewestStays' /\ held' \in [Callers -> Tunnels \cup {None}]
  BY <1>2, <1>3, <1>4, CallerSession
<1>6. TypeOK'
  <2> USE <1>1, <1>2, <1>3, <1>5 DEF TypeOK, sessionVars, rawVars
  <2>1. dpc' \in [Dials -> {"idle", "slot", "await", "using"}]
    BY DEF Request, Cancel, TakeSlot, Respond, GiveUp, Opener, OpenStream,
           HandOver, Discard, LeaveSlot
  <2>2. opc' \in [Dials -> {"none", "open", "hand", "leave"}]
    BY DEF Request, Cancel, TakeSlot, Respond, GiveUp, Opener, OpenStream,
           HandOver, Discard, LeaveSlot
  <2>3. done' \in [Dials -> BOOLEAN]
    <3>1. UNCHANGED done \/ \E b \in BOOLEAN : done' = [done EXCEPT ![d] = b]
      BY DEF Request, Cancel, TakeSlot, Respond, GiveUp, Opener, OpenStream,
             HandOver, Discard, LeaveSlot
    <3> QED BY <3>1
  <2>4. stream' \in [Callers -> {"none", "open"}]
    BY DEF Request, Cancel, TakeSlot, Respond, GiveUp, Opener, OpenStream,
           HandOver, Discard, LeaveSlot
  <2> QED BY <2>1, <2>2, <2>3, <2>4
<1>7. NoOrphanStream'
  <2> USE <1>2, <1>3 DEF TypeOK, rawVars, NoOrphanStream
  <2>1. ASSUME NEW e \in Dials, e # d, stream'[e] = "open"
        PROVE  dpc'[e] = "using" \/ opc'[e] = "hand"
    <3>1. e \in Callers
      BY DEF Callers
    <3>2. stream[e] = "open" /\ dpc'[e] = dpc[e] /\ opc'[e] = opc[e]
      BY <2>1, <3>1 DEF Request, Cancel, TakeSlot, Respond, GiveUp, Opener,
         OpenStream, HandOver, Discard, LeaveSlot
    <3> QED BY <3>2
  <2>2. ASSUME stream'[d] = "open"
        PROVE  dpc'[d] = "using" \/ opc'[d] = "hand"
    BY <2>2 DEF SlotsInv, Request, Cancel, TakeSlot, Respond, GiveUp, Opener,
       OpenStream, HandOver, Discard, LeaveSlot
  <2>3. \A r \in Raws : stream'[r] = stream[r]
    BY DEF Request, Cancel, TakeSlot, Respond, GiveUp, Opener, OpenStream,
           HandOver, Discard, LeaveSlot
  <2> QED BY <2>1, <2>2, <2>3
<1> QED BY <1>1, <1>5, <1>6, <1>7

LEMMA RawKeeps ==
  ASSUME IInv, NEW r \in Raws, Accept(r) \/ Raw(r)
  PROVE  IInv'
<1> USE DEF IInv
<1>1. SlotsInv' /\ slotted' \in 0..RawSlots /\ active' \in Nat
  BY RawSlotsInv
<1>2. r \in Callers /\ \A d \in Dials : d \in Callers /\ d # r
  BY ServerAssumption DEF Callers
<1>3. UNCHANGED <<sessionVars, dialVars>>
  BY DEF Accept, Raw, Count, OpenStreamRaw, RelayEnds, Uncount, Unslot
<1>4. \E h \in Tunnels \cup {None} :
        /\ held' = [held EXCEPT ![r] = h]
        /\ h = None \/ h = activeSession \/ h = held[r]
  <2>1. CASE held' = [held EXCEPT ![r] = activeSession]
    BY <2>1 DEF TypeOK
  <2>2. CASE held' = [held EXCEPT ![r] = None]
    BY <2>2
  <2>3. CASE UNCHANGED held
    BY <1>2, <2>3 DEF TypeOK
  <2> QED
    BY <2>1, <2>2, <2>3 DEF Accept, Raw, Count, OpenStreamRaw, RelayEnds,
       Uncount, Unslot
<1>5. SessionInv' /\ NewestStays' /\ held' \in [Callers -> Tunnels \cup {None}]
  BY <1>2, <1>3, <1>4, CallerSession
<1>6. TypeOK'
  <2> USE <1>1, <1>2, <1>3, <1>5 DEF TypeOK, sessionVars, dialVars
  <2>1. rpc' \in [Raws -> {"idle", "count", "open", "relay", "uncount", "unslot"}]
    BY DEF Accept, Raw, Count, OpenStreamRaw, RelayEnds, Uncount, Unslot, Go
  <2>2. stream' \in [Callers -> {"none", "open"}]
    BY DEF Accept, Raw, Count, OpenStreamRaw, RelayEnds, Uncount, Unslot
  <2> QED BY <2>1, <2>2
<1>7. NoOrphanStream'
  <2> USE <1>2, <1>3 DEF TypeOK, dialVars, NoOrphanStream, Go
  <2>1. ASSUME NEW q \in Raws, stream'[q] = "open" PROVE rpc'[q] = "relay"
    <3>1. q \in Callers
      BY DEF Callers
    <3> QED
      BY <2>1, <3>1 DEF Accept, Raw, Count, OpenStreamRaw, RelayEnds, Uncount,
         Unslot
  <2>2. \A d \in Dials : stream'[d] = stream[d]
    BY DEF Accept, Raw, Count, OpenStreamRaw, RelayEnds, Uncount, Unslot
  <2> QED BY <2>1, <2>2
<1> QED BY <1>1, <1>5, <1>6, <1>7
-----------------------------------------------------------------------------
\* The inductive invariant: slots and counters are what the places of the
\* goroutines say, an open session that was replaced will be closed, the active
\* one will not be, and an open stream has somebody to close it.
THEOREM Invariance == Spec => []IInv
<1>1. IInv /\ [Next]_vars => IInv'
  <2> SUFFICES ASSUME IInv, [Next]_vars PROVE IInv'
    OBVIOUS
  <2>1. ASSUME NEW c \in Tunnels,
               Connect(c) \/ Tunnel(c) \/ GraceOver(c) \/ Lose(c)
        PROVE  IInv'
    BY <2>1, TunnelKeeps DEF Tunnel
  <2>2. ASSUME NEW d \in Dials,
               \/ Request(d) \/ Cancel(d) \/ TakeSlot(d) \/ Respond(d)
               \/ GiveUp(d) \/ Opener(d)
        PROVE  IInv'
    BY <2>2, DialKeeps
  <2>3. ASSUME NEW r \in Raws, Accept(r) \/ Raw(r)
        PROVE  IInv'
    BY <2>3, RawKeeps
  <2>4. CASE UNCHANGED vars
    BY <2>4 DEF vars, sessionVars, dialVars, rawVars, IInv, TypeOK, SlotsInv,
       Openers, Slotted, Counted, SessionInv, Referenced, NewestStays,
       NoOrphanStream
  <2> QED BY <2>1, <2>2, <2>3, <2>4 DEF Next
<1> QED BY <1>1, InitInv, PTL DEF Spec

\* Every variable of the server keeps its type; no semaphore is overdrawn.
THEOREM TypeCorrect == Spec => []TypeOK
<1>1. IInv => TypeOK
  BY DEF IInv
<1> QED BY <1>1, Invariance, PTL

\* The server never closes the session of the newest client.
THEOREM NewestHolds == Spec => []NewestStays
<1>1. IInv => NewestStays
  BY DEF IInv
<1> QED BY <1>1, Invariance, PTL

\* No stream is left open with nobody to close it.
THEOREM NoOrphanHolds == Spec => []NoOrphanStream
<1>1. IInv => NoOrphanStream
  BY DEF IInv
<1> QED BY <1>1, Invariance, PTL

\* The number of raw connections that the server reports is within the limit.
THEOREM RawBoundedHolds == Spec => []RawBounded
<1>1. IInv => RawBounded
  <2> SUFFICES ASSUME IInv PROVE RawBounded
    OBVIOUS
  <2>1. Cardinality(Counted) <= Cardinality(Slotted)
    BY Finite, FS_Subset DEF Counted
  <2> QED BY <2>1, ServerAssumption DEF IInv, TypeOK, SlotsInv, RawBounded
<1> QED BY <1>1, Invariance, PTL
=============================================================================
