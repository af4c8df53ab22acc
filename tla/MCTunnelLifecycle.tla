------------------------- MODULE MCTunnelLifecycle -------------------------
(***************************************************************************)
(* The three parts whose liveness is checked together: the commands on one *)
(* tunnel (TunnelLifecycle), the connection of a foreground expose         *)
(* (ForegroundTunnel) and one relay (StreamRelay).  They share no state;   *)
(* a behaviour is one of whichever of them `part` names, while the others  *)
(* stay where they are.                                                    *)
(***************************************************************************)
EXTENDS TunnelLifecycle, Naturals, Sequences

CONSTANTS Grace,       \* what a relay waits for the other direction
          IdleTimeout, \* the deadline of a raw connection
          MaxSent      \* bound: the units of data a peer sends

VARIABLES part,
  now, signal, dial, timer, link, result,
  raw, age, idle, left, peer, stalled, sent, inside, due, flow, failed, errc, relay, firstErr

terminalVars == <<now, signal, dial, timer, link, result>>
relayVars == <<raw, age, idle, left, peer, stalled, sent, inside, due, flow, failed, errc,
               relay, firstErr>>
all == <<part, vars, terminalVars, relayVars>>

Terminal == INSTANCE ForegroundTunnel WITH Timeout <- 7, Interval <- 2, MaxTime <- 12,
                                           pc <- dial
Relay == INSTANCE StreamRelay WITH copy <- flow

ASSUME TerminalAssumption == Terminal!TimesAssumption
ASSUME RelayAssumption == Relay!TimesAssumption

CommandsRun(A) == part = "commands" /\ A /\ UNCHANGED <<part, terminalVars, relayVars>>
TerminalRuns(A) == part = "terminal" /\ A /\ UNCHANGED <<part, vars, relayVars>>
RelayRuns(A) == part = "relay" /\ A /\ UNCHANGED <<part, vars, terminalVars>>

TunnelInit ==
  /\ part \in {"commands", "terminal", "relay"}
  /\ Init /\ Terminal!Init /\ Relay!Init
  /\ part # "commands" => record = None
  /\ part # "relay" => ~raw

TunnelNext ==
  CommandsRun(Next) \/ TerminalRuns(Terminal!Next) \/ RelayRuns(Relay!Next)

\* The fairness of each (their FairSpec).
TunnelFairness ==
  /\ \A p \in Procs : WF_all(CommandsRun(Step(p)))
  /\ WF_all(TerminalRuns(Terminal!Tick)) /\ WF_all(TerminalRuns(Terminal!Process))
  /\ WF_all(RelayRuns(Relay!Tick)) /\ WF_all(RelayRuns(Relay!Caller))
  /\ \A c \in {"a", "b"} : WF_all(RelayRuns(Relay!Goroutine(c)))

TunnelSpec == TunnelInit /\ [][TunnelNext]_all /\ TunnelFairness
-----------------------------------------------------------------------------
\* The dial of a foreground expose is given up only by a signal or its deadline, and a
\* signal ends whatever it is doing (expose.go:471-505).
ForegroundEnds == []Terminal!KeepsTrying /\ Terminal!SignalEnds

\* A relay without an error has passed on everything both ways, and after one direction
\* failed, what the other held by then is still delivered (relay.go:13-49).
RelayNothingDropped ==
  part = "relay" => Relay!CompleteWithoutError /\ Relay!TailDelivered

\* A direction of a relay that fails ends the relay and both of its goroutines, even
\* beside a peer that neither reads nor closes (relay.go:37-47).
RelayFailureEnds == Relay!FailureEndsRelay
=============================================================================
