--------------------------- MODULE ForegroundTunnel ---------------------------
(***************************************************************************)
(* The connection of a foreground expose: dialForegroundTunnelWithRetry of *)
(* cmd/expose.go around dialServerAndServe of pkg/tunnel/client.go.  The   *)
(* process dials until it is connected, serves until the connection is     *)
(* gone, and returns, upon which it removes the tunnel it owns (the exit   *)
(* of TunnelLifecycle).  One context, dialCtx, bounds all of it: it is     *)
(* done when a signal arrives or when Timeout has passed since it was made.*)
(***************************************************************************)
EXTENDS Naturals

CONSTANTS Timeout,   \* foregroundConnectTimeout (60 s)
          Interval,  \* foregroundConnectRetryInterval (2 s)
          MaxTime    \* bound: when the clock of the model stops

TimesAssumption ==
  /\ Timeout \in Nat \ {0} /\ Interval \in Nat \ {0}
  /\ MaxTime \in Nat /\ MaxTime >= Timeout + Interval

VARIABLES now,     \* time since dialCtx was made
          signal,  \* the user interrupted the process
          pc,      \* "dial", "wait" (for the retry timer), "serve", "returned"
          timer,   \* when the retry timer fires
          link,    \* the connection: "none", "up", "lost" (by the network or
                   \* the server) or "closed" (by this process)
          result   \* what the function returned: "none", "nil" or "error"

vars == <<now, signal, pc, timer, link, result>>

TypeOK ==
  /\ now \in 0..MaxTime /\ timer \in 0..(MaxTime + Interval)
  /\ signal \in BOOLEAN
  /\ pc \in {"dial", "wait", "serve", "returned"}
  /\ link \in {"none", "up", "lost", "closed"}
  /\ result \in {"none", "nil", "error"}
  /\ pc \in {"dial", "wait"} => link = "none"
  /\ result # "none" <=> pc = "returned"

Init ==
  /\ now = 0 /\ timer = 0
  /\ signal = FALSE
  /\ pc = "dial"
  /\ link = "none"
  /\ result = "none"

Done == signal \/ now >= Timeout

Return(r) ==
  /\ pc' = "returned"
  /\ result' = r
-----------------------------------------------------------------------------
(* The environment. *)

Tick ==
  /\ now < MaxTime
  /\ now' = now + 1
  /\ UNCHANGED <<signal, pc, timer, link, result>>

Interrupt ==
  /\ pc # "returned" /\ ~signal
  /\ signal' = TRUE
  /\ UNCHANGED <<now, pc, timer, link, result>>

Lose ==
  /\ link = "up"
  /\ link' = "lost"
  /\ UNCHANGED <<now, signal, pc, timer, result>>
-----------------------------------------------------------------------------
(* The process. *)

Connect ==
  /\ pc = "dial" /\ ~Done
  /\ pc' = "serve"
  /\ link' = "up"
  /\ UNCHANGED <<now, signal, timer, result>>

DialFails ==
  /\ pc = "dial"
  /\ pc' = "wait"
  /\ timer' = now + Interval
  /\ UNCHANGED <<now, signal, link, result>>

Retry ==
  /\ pc = "wait" /\ now >= timer
  /\ pc' = "dial"
  /\ UNCHANGED <<now, signal, timer, link, result>>

GiveUp ==
  /\ pc = "wait" /\ Done
  /\ Return("error")
  /\ UNCHANGED <<now, signal, timer, link>>

\* A fault: only a connection that the peer closes ends the accept loop.
WatchNothing == FALSE

\* The goroutine beside the accept loop.
Watch ==
  /\ pc = "serve" /\ link = "up" /\ Done
  /\ link' = "closed"
  /\ UNCHANGED <<now, signal, pc, timer, result>>

\* AcceptStream fails: io.EOF and a closed connection return nil, as does any
\* error once dialCtx is done; what else the network reports is an error.
ServeEnds ==
  /\ pc = "serve" /\ link \in {"lost", "closed"}
  /\ \/ Return("nil")
     \/ link = "lost" /\ ~Done /\ Return("error")
  /\ UNCHANGED <<now, signal, timer, link>>
-----------------------------------------------------------------------------
Process == Connect \/ DialFails \/ Retry \/ GiveUp \/ Watch \/ ServeEnds

Next == Tick \/ Interrupt \/ Lose \/ Process

Spec == Init /\ [][Next]_vars

\* Time passes, and the goroutines of the process run.
FairSpec == Spec /\ WF_vars(Tick) /\ WF_vars(Process)
-----------------------------------------------------------------------------
(* Properties. *)

\* A server that is not ready yet is waited for: without a connection, only a
\* signal or the deadline ends the command, and it ends with an error.
KeepsTrying ==
  pc = "returned" /\ link = "none" => Done /\ result = "error"

\* A signal ends the command, in whatever it finds it.
SignalEnds == signal ~> pc = "returned"

\* "Use `--foreground` when the current terminal should own the tunnel
\* lifecycle" (skills/sealtun/references/cli.md:50): a connection that is not
\* lost is given up, and the tunnel removed, only when the user says so.
TerminalOwnsTunnel == link = "closed" => signal
=============================================================================
