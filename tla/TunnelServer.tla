----------------------------- MODULE TunnelServer -----------------------------
(***************************************************************************)
(* The server in the pod, pkg/tunnel/server.go.  Clients of the tunnel     *)
(* connect (handleTunnelConnection) and the newest one's yamux session is  *)
(* the one that public traffic is sent over: HTTP requests dial a stream   *)
(* through the reverse proxy (proxyDialContext), raw TCP connections open  *)
(* one themselves and relay.  The goroutines share the active session,     *)
(* under a mutex, two channels used as semaphores, and atomic counters.    *)
(*                                                                         *)
(* yamux is external: OpenStream ends, with a stream or an error, because  *)
(* it closes a session whose peer does not acknowledge a stream in time.   *)
(* Identities are used again when nothing refers to them any more.         *)
(*                                                                         *)
(* What a goroutine does between two accesses to shared state is part of   *)
(* one of their steps; so is the look at IsClosed that follows a read of   *)
(* activeSession, since a session found closed a moment later refuses the  *)
(* stream as well.                                                         *)
(***************************************************************************)
EXTENDS Naturals, FiniteSets

CONSTANTS Tunnels,      \* connections of the local client, and their sessions
          Dials,        \* requests of the reverse proxy for a stream
          Raws,         \* raw TCP connections
          StreamSlots,  \* maxConcurrentStreamOpens
          RawSlots,     \* maxConcurrentRawTCPConns
          None          \* nil

Callers == Dials \cup Raws

ASSUME ServerAssumption ==
  /\ StreamSlots \in Nat \ {0} /\ RawSlots \in Nat \ {0}
  /\ IsFiniteSet(Dials) /\ IsFiniteSet(Raws)
  /\ Dials \cap Raws = {}
  /\ None \notin Tunnels

VARIABLES
  activeSession,  \* the newest session, or None
  sess,           \* of a session: "down" (not connected, or lost), "open" or
                  \* "closed" (by this server)
  hpc,            \* the handler of a tunnel: "idle", "swap" or "wait"
  drains,         \* goroutines that sleep sessionDrainGrace before they close
  held,           \* the session that a caller is to open a stream on
  stream,         \* the stream opened for a caller: "none" or "open"
  dpc,            \* a dial: "idle" (or returned without a stream), "slot",
                  \* "await", "using"
  done,           \* its context is done
  opc,            \* its opening goroutine: "none", "open", "hand", "leave"
  opening,        \* the length of streamOpenSlots
  rpc,            \* a raw connection: "idle", "count", "open",
                  \* "relay", "uncount", "unslot"
  slotted,        \* the length of rawTCPSlots
  active          \* activeTCPConnections

sessionVars == <<activeSession, sess, hpc, drains>>
dialVars    == <<dpc, done, opc, opening>>
rawVars     == <<rpc, slotted, active>>
vars == <<sessionVars, dialVars, rawVars, held, stream>>

TypeOK ==
  /\ activeSession \in Tunnels \cup {None}
  /\ sess \in [Tunnels -> {"down", "open", "closed"}]
  /\ hpc \in [Tunnels -> {"idle", "swap", "wait"}]
  /\ drains \subseteq Tunnels
  /\ held \in [Callers -> Tunnels \cup {None}]
  /\ stream \in [Callers -> {"none", "open"}]
  /\ dpc \in [Dials -> {"idle", "slot", "await", "using"}]
  /\ done \in [Dials -> BOOLEAN]
  /\ opc \in [Dials -> {"none", "open", "hand", "leave"}]
  /\ opening \in 0..StreamSlots
  /\ rpc \in [Raws -> {"idle", "count", "open", "relay",
                        "uncount", "unslot"}]
  /\ slotted \in 0..RawSlots
  /\ active \in Nat

Init ==
  /\ activeSession = None
  /\ sess = [c \in Tunnels |-> "down"]
  /\ hpc = [c \in Tunnels |-> "idle"]
  /\ drains = {}
  /\ held = [x \in Callers |-> None]
  /\ stream = [x \in Callers |-> "none"]
  /\ dpc = [d \in Dials |-> "idle"]
  /\ done = [d \in Dials |-> FALSE]
  /\ opc = [d \in Dials |-> "none"]
  /\ opening = 0
  /\ rpc = [r \in Raws |-> "idle"]
  /\ slotted = 0
  /\ active = 0

\* session == nil || session.IsClosed()
Gone(c) == c \notin {t \in Tunnels : sess[t] = "open"}
-----------------------------------------------------------------------------
(* Connections of the local client: handleTunnelConnection. *)

\* Some goroutine, or the server, still has the session in its hands.
Referenced(c) ==
  \/ activeSession = c \/ c \in drains
  \/ \E x \in Callers : held[x] = c

\* The request is authorized and upgraded, the yamux session is set up.
Connect(c) ==
  /\ hpc[c] = "idle" /\ sess[c] # "open" /\ ~Referenced(c)
  /\ sess' = [sess EXCEPT ![c] = "open"]
  /\ hpc' = [hpc EXCEPT ![c] = "swap"]
  /\ UNCHANGED <<activeSession, drains, dialVars, rawVars, held, stream>>

\* A fault: what is closed after the grace is the session active by then.
SwapDrainsActive(c) ==
  /\ hpc[c] = "swap"
  /\ activeSession' = c
  /\ drains' = IF Gone(activeSession) THEN drains ELSE drains \cup {c}
  /\ hpc' = [hpc EXCEPT ![c] = "wait"]
  /\ UNCHANGED <<sess, dialVars, rawVars, held, stream>>

\* A fault: the session that is replaced is forgotten.
SwapForgets(c) ==
  /\ hpc[c] = "swap"
  /\ activeSession' = c
  /\ hpc' = [hpc EXCEPT ![c] = "wait"]
  /\ UNCHANGED <<sess, drains, dialVars, rawVars, held, stream>>

\* Under the mutex; a goroutine is left to close the session found there.
Swap(c) ==
  /\ hpc[c] = "swap"
  /\ activeSession' = c
  /\ drains' = IF Gone(activeSession) THEN drains
                                     ELSE drains \cup {activeSession}
  /\ hpc' = [hpc EXCEPT ![c] = "wait"]
  /\ UNCHANGED <<sess, dialVars, rawVars, held, stream>>

\* Close of a session that was lost in the meantime does nothing.
GraceOver(c) ==
  /\ c \in drains
  /\ drains' = drains \ {c}
  /\ sess' = IF Gone(c) THEN sess ELSE [sess EXCEPT ![c] = "closed"]
  /\ UNCHANGED <<activeSession, hpc, dialVars, rawVars, held, stream>>

\* <-session.CloseChan()
HandlerEnds(c) ==
  /\ hpc[c] = "wait" /\ Gone(c)
  /\ hpc' = [hpc EXCEPT ![c] = "idle"]
  /\ UNCHANGED <<activeSession, sess, drains, dialVars, rawVars, held,
                 stream>>

\* The client leaves, the network fails, a ping or a yamux keepalive fails.
Lose(c) ==
  /\ sess[c] = "open"
  /\ sess' = [sess EXCEPT ![c] = "down"]
  /\ UNCHANGED <<activeSession, hpc, drains, dialVars, rawVars, held,
                 stream>>
-----------------------------------------------------------------------------
(* Requests of the reverse proxy: proxyDialContext and its goroutine. *)

\* Without a session that is open, or with a context that is done already, the
\* dial fails at once: no step of the model.
Request(d) ==
  /\ dpc[d] = "idle" /\ opc[d] = "none" /\ ~Gone(activeSession)
  /\ held' = [held EXCEPT ![d] = activeSession]
  /\ dpc' = [dpc EXCEPT ![d] = "slot"]
  /\ UNCHANGED <<sessionVars, done, opc, opening, rawVars, stream>>

\* The visitor leaves.
Cancel(d) ==
  /\ dpc[d] \in {"slot", "await"} /\ ~done[d]
  /\ done' = [done EXCEPT ![d] = TRUE]
  /\ UNCHANGED <<sessionVars, dpc, opc, opening, rawVars, held, stream>>

TakeSlot(d) ==
  /\ dpc[d] = "slot" /\ opening < StreamSlots
  /\ opening' = opening + 1
  /\ opc' = [opc EXCEPT ![d] = "open"]
  /\ dpc' = [dpc EXCEPT ![d] = "await"]
  /\ UNCHANGED <<sessionVars, done, rawVars, held, stream>>

\* A fault: nothing watches the context while the stream is being opened.
GiveUpEarly(d) ==
  /\ dpc[d] = "slot" /\ done[d]
  /\ dpc' = [dpc EXCEPT ![d] = "idle"]
  /\ done' = [done EXCEPT ![d] = FALSE]
  /\ held' = [held EXCEPT ![d] = None]
  /\ UNCHANGED <<sessionVars, opc, opening, rawVars, stream>>

\* The context is done in one of the two selects.  In the second, the goroutine
\* goes on, with the session, the slot and the context.
GiveUp(d) ==
  /\ dpc[d] \in {"slot", "await"} /\ done[d]
  /\ dpc' = [dpc EXCEPT ![d] = "idle"]
  /\ IF opc[d] = "none"
     THEN /\ done' = [done EXCEPT ![d] = FALSE]
          /\ held' = [held EXCEPT ![d] = None]
     ELSE UNCHANGED <<done, held>>
  /\ UNCHANGED <<sessionVars, opc, opening, rawVars, stream>>

\* A session that is still open may refuse a stream too.
OpenStream(d) ==
  /\ opc[d] = "open"
  /\ opc' = [opc EXCEPT ![d] = "hand"]
  /\ \/ UNCHANGED stream
     \/ ~Gone(held[d]) /\ stream' = [stream EXCEPT ![d] = "open"]
  /\ held' = [held EXCEPT ![d] = None]
  /\ UNCHANGED <<sessionVars, dpc, done, opening, rawVars>>

\* A fault: a channel with a buffer takes the result with nobody waiting.
HandOverBuffered(d) ==
  /\ opc[d] = "hand"
  /\ opc' = [opc EXCEPT ![d] = "leave"]
  /\ dpc' = [dpc EXCEPT ![d] =
              CASE dpc[d] # "await" -> dpc[d]
                [] stream[d] = "open" -> "using"
                [] OTHER -> "idle"]
  /\ UNCHANGED <<sessionVars, done, opening, rawVars, held, stream>>

\* The channel has no buffer: both sides are there.
HandOver(d) ==
  /\ opc[d] = "hand" /\ dpc[d] = "await"
  /\ opc' = [opc EXCEPT ![d] = "leave"]
  /\ dpc' = [dpc EXCEPT ![d] =
              IF stream[d] = "open" THEN "using" ELSE "idle"]
  /\ UNCHANGED <<sessionVars, done, opening, rawVars, held, stream>>

Discard(d) ==
  /\ opc[d] = "hand" /\ done[d]
  /\ opc' = [opc EXCEPT ![d] = "leave"]
  /\ stream' = [stream EXCEPT ![d] = "none"]
  /\ UNCHANGED <<sessionVars, dpc, done, opening, rawVars, held>>

\* The deferred receive from streamOpenSlots.
LeaveSlot(d) ==
  /\ opc[d] = "leave"
  /\ opc' = [opc EXCEPT ![d] = "none"]
  /\ opening' = opening - 1
  /\ done' = [done EXCEPT ![d] = @ /\ dpc[d] = "await"]
  /\ UNCHANGED <<sessionVars, dpc, rawVars, held, stream>>

\* The proxy's transport closes the stream that it was given.
Respond(d) ==
  /\ dpc[d] = "using"
  /\ dpc' = [dpc EXCEPT ![d] = "idle"]
  /\ stream' = [stream EXCEPT ![d] = "none"]
  /\ UNCHANGED <<sessionVars, done, opc, opening, rawVars, held>>
-----------------------------------------------------------------------------
(* Raw TCP connections: handleRawTCPConnection. *)

Go(r, l) == rpc' = [rpc EXCEPT ![r] = l]

\* A connection that finds no free slot is closed: no step of the model.
Accept(r) ==
  /\ rpc[r] = "idle" /\ slotted < RawSlots
  /\ slotted' = slotted + 1
  /\ Go(r, "count")
  /\ UNCHANGED <<sessionVars, dialVars, active, held, stream>>

\* The connection is counted; it goes on if NetworkAllowedForIP (the model does
\* not tell addresses apart) and an open session let it.
Count(r) ==
  /\ rpc[r] = "count"
  /\ active' = active + 1
  /\ \/ /\ ~Gone(activeSession)
        /\ Go(r, "open")
        /\ held' = [held EXCEPT ![r] = activeSession]
     \/ Go(r, "uncount") /\ UNCHANGED held
  /\ UNCHANGED <<sessionVars, dialVars, slotted, stream>>

OpenStreamRaw(r) ==
  /\ rpc[r] = "open"
  /\ \/ Go(r, "uncount") /\ UNCHANGED stream
     \/ /\ ~Gone(held[r])
        /\ Go(r, "relay")
        /\ stream' = [stream EXCEPT ![r] = "open"]
  /\ held' = [held EXCEPT ![r] = None]
  /\ UNCHANGED <<sessionVars, dialVars, slotted, active>>

\* One of the two ends is closed or lost, or the deadline of the connection is
\* there.
RelayEnds(r) ==
  /\ rpc[r] = "relay"
  /\ stream' = [stream EXCEPT ![r] = "none"]
  /\ Go(r, "uncount")
  /\ UNCHANGED <<sessionVars, dialVars, slotted, active, held>>

\* Deferred functions run in the reverse order of the defer statements.
Uncount(r) ==
  /\ rpc[r] = "uncount"
  /\ active' = active - 1
  /\ Go(r, "unslot")
  /\ UNCHANGED <<sessionVars, dialVars, slotted, held, stream>>

Unslot(r) ==
  /\ rpc[r] = "unslot"
  /\ slotted' = slotted - 1
  /\ Go(r, "idle")
  /\ UNCHANGED <<sessionVars, dialVars, active, held, stream>>
-----------------------------------------------------------------------------
Tunnel(c) == Swap(c) \/ HandlerEnds(c)

\* The goroutine that opens the stream of a dial.
Opener(d) == OpenStream(d) \/ HandOver(d) \/ Discard(d) \/ LeaveSlot(d)

Raw(r) ==
  Count(r) \/ OpenStreamRaw(r) \/ RelayEnds(r) \/ Uncount(r) \/ Unslot(r)

Next ==
  \/ \E c \in Tunnels : Connect(c) \/ Tunnel(c) \/ GraceOver(c) \/ Lose(c)
  \/ \E d \in Dials : \/ Request(d) \/ Cancel(d) \/ TakeSlot(d) \/ Respond(d)
                      \/ GiveUp(d) \/ Opener(d)
  \/ \E r \in Raws : Accept(r) \/ Raw(r)

Spec == Init /\ [][Next]_vars

\* Goroutines run and the grace period ends.  A channel serves its senders in turn: who waits for a slot while slots are
\* given back again and again gets one.  Visitors need not leave, streams and
\* sessions need not end.
Fairness ==
  /\ \A c \in Tunnels : WF_vars(Tunnel(c)) /\ WF_vars(GraceOver(c))
  /\ \A d \in Dials :
       WF_vars(GiveUp(d)) /\ WF_vars(Opener(d)) /\ SF_vars(TakeSlot(d))

FairSpec == Spec /\ Fairness
-----------------------------------------------------------------------------
(* Properties. *)

\* The dials whose goroutine has a slot, the raw connections that have one, and
\* those of them that are counted.
Openers == {d \in Dials : opc[d] # "none"}
Slotted == {r \in Raws : rpc[r] # "idle"}
Counted == {r \in Slotted : rpc[r] \notin {"count", "unslot"}}

\* Every goroutine that opens a stream, also one whose request is gone, and
\* every raw connection, however its handler ends, is paid for by a slot.
SlotsInv ==
  /\ opening = Cardinality(Openers)
  /\ slotted = Cardinality(Slotted)
  /\ active = Cardinality(Counted)
  /\ \A d \in Dials : dpc[d] = "slot" => opc[d] = "none"

\* A session that was replaced and is open is on its way to be closed; one that
\* is active, or about to be, is not.
SessionInv ==
  \A c \in Tunnels :
    /\ hpc[c] = "swap" => ~Referenced(c) /\ sess[c] # "closed"
    /\ c \in drains => c # activeSession
    /\ hpc[c] = "wait" /\ sess[c] = "open" => c = activeSession \/ c \in drains

\* A session is closed by this server only after another one has replaced it:
\* of any number of clients that connect at once, the newest stays connected.
NewestStays == activeSession # None => sess[activeSession] # "closed"

\* A stream that is open is in somebody's hands who will close it, even if the
\* visitor left while it was being opened.
NoOrphanStream ==
  /\ \A d \in Dials : stream[d] = "open" => dpc[d] = "using" \/ opc[d] = "hand"
  /\ \A r \in Raws : stream[r] = "open" => rpc[r] = "relay"

\* The inductive invariant of the proofs.
IInv == TypeOK /\ SlotsInv /\ SessionInv /\ NewestStays /\ NoOrphanStream

\* /_sealtun/metrics never reports more TCP connections than the limit.
RawBounded == active <= RawSlots

\* A session that was replaced is closed and its handler returns, whatever
\* order any number of clients connect in.
SupersededEnds ==
  \A c \in Tunnels :
    hpc[c] = "wait" /\ activeSession # c ~> hpc[c] = "idle"

\* A dial returns, while visitors leave and others hold the slots; and so does
\* the dial of a visitor that left, without its stream having been opened.
DialReturns ==
  \A d \in Dials : dpc[d] \in {"slot", "await"} ~> dpc[d] \in {"using", "idle"}

=============================================================================
