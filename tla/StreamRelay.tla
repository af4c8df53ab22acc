----------------------------- MODULE StreamRelay -----------------------------
(***************************************************************************)
(* relayBidirectional of pkg/tunnel: two goroutines copy between the       *)
(* connections "a" and "b" of one forwarded stream, each from its source   *)
(* to the other end, and the caller waits for both, or for what is left of *)
(* the second after the first has failed.  On the server "a" may be a raw  *)
(* TCP connection, which gets a deadline when it is accepted.  A direction *)
(* bears the name of its source.  Copying takes no time unless the         *)
(* receiver does not read.                                                 *)
(***************************************************************************)
EXTENDS Naturals, Sequences

CONSTANTS Grace,       \* relayDrainGrace
          IdleTimeout, \* rawTCPIdleTimeout
          MaxSent      \* bound: the units of data a peer sends

TimesAssumption == Grace \in Nat \ {0} /\ IdleTimeout \in Nat /\ MaxSent \in Nat

VARIABLES raw,     \* "a" is a raw connection with a deadline
          age,     \* then, the time since it was accepted, as far as the deadline
          idle,    \* and the time since data was last moved, as far as that
          left,    \* what the grace has left
          peer,    \* each end: "open", "done" (sends no more) or "gone" (reset)
          stalled, \* the ends that do not read
          sent,    \* units each peer has sent, in all
          inside,  \* units that are read no further than the kernel, by direction
          due,     \* those of them that were there when the first direction failed
          copy,    \* each goroutine: "copy", "end" (of io.Copy) or "told" (errc)
          failed,  \* whether its error is one that counts
          errc,    \* the channel
          relay,   \* the caller: "first", "second", "grace" or "returned"
          firstErr \* whether it returns an error

vars == <<raw, age, idle, left, peer, stalled, sent, inside, due, copy, failed, errc,
          relay, firstErr>>
clocks == <<age, idle, left>>
peers == <<peer, stalled, sent>>
caller == <<due, errc, relay, firstErr>>

Ends == {"a", "b"}
Other(c) == IF c = "a" THEN "b" ELSE "a"
Lesser(m, n) == IF m < n THEN m ELSE n

TypeOK ==
  /\ raw \in BOOLEAN
  /\ age \in 0..IdleTimeout /\ idle \in 0..IdleTimeout /\ left \in 0..Grace
  /\ peer \in [Ends -> {"open", "done", "gone"}] /\ stalled \in SUBSET Ends
  /\ sent \in [Ends -> 0..MaxSent] /\ inside \in [Ends -> 0..MaxSent]
  /\ due \in [Ends -> 0..MaxSent] /\ \A c \in Ends : due[c] <= inside[c]
  /\ copy \in [Ends -> {"copy", "end", "told"}] /\ failed \in [Ends -> BOOLEAN]
  /\ errc \in Seq(BOOLEAN) /\ Len(errc) <= 2
  /\ relay \in {"first", "second", "grace", "returned"} /\ firstErr \in BOOLEAN

Init ==
  /\ raw \in BOOLEAN
  /\ age = 0 /\ idle = 0 /\ left = 0
  /\ peer = [c \in Ends |-> "open"] /\ stalled = {}
  /\ sent = [c \in Ends |-> 0]
  /\ inside = [c \in Ends |-> 0] /\ due = [c \in Ends |-> 0]
  /\ copy = [c \in Ends |-> "copy"] /\ failed = [c \in Ends |-> FALSE]
  /\ errc = <<>>
  /\ relay = "first" /\ firstErr = FALSE

\* The caller's deferred calls close both connections when it returns.
Closed == relay = "returned"
Expired == raw /\ age = IdleTimeout
-----------------------------------------------------------------------------
(* The peers. *)

Send(c) ==
  /\ peer[c] = "open" /\ sent[c] < MaxSent /\ ~Closed
  /\ sent' = [sent EXCEPT ![c] = @ + 1]
  /\ inside' = [inside EXCEPT ![c] = @ + 1]
  /\ UNCHANGED <<raw, clocks, peer, stalled, copy, failed, caller>>

\* It half-closes the connection, or resets it: what it sent can still be read.
Leave(c) ==
  /\ peer[c] # "gone" /\ ~Closed
  /\ \E s \in {"done", "gone"} \ {peer[c]} : peer' = [peer EXCEPT ![c] = s]
  /\ UNCHANGED <<raw, clocks, stalled, sent, inside, copy, failed, caller>>

Stall(c) ==
  /\ stalled = {} /\ ~Closed
  /\ stalled' = {c}
  /\ UNCHANGED <<raw, clocks, peer, sent, inside, copy, failed, caller>>
-----------------------------------------------------------------------------
(* copyAndCloseWrite of the direction from c. *)

CanCopy(c) ==
  /\ copy[c] = "copy" /\ inside[c] > 0
  /\ ~Closed /\ ~Expired /\ peer[Other(c)] # "gone" /\ Other(c) \notin stalled

Copy(c) ==
  /\ CanCopy(c)
  /\ inside' = [inside EXCEPT ![c] = @ - 1]
  /\ due' = [due EXCEPT ![c] = IF @ > 0 THEN @ - 1 ELSE 0]
  /\ idle' = 0
  /\ UNCHANGED <<raw, age, left, peers, copy, failed, errc, relay, firstErr>>

\* Reading or writing "a" past the deadline fails at once.
TimesOut(c) == Expired /\ (c = "a" \/ inside[c] > 0)

Broken(c) ==
  \/ inside[c] > 0 /\ peer[Other(c)] = "gone"
  \/ inside[c] = 0 /\ peer[c] = "gone"

AtEOF(c) == inside[c] = 0 /\ peer[c] = "done"

\* The errors of connections that this side has closed do not count.
CopyEnds(c) ==
  /\ copy[c] = "copy"
  /\ Closed \/ TimesOut(c) \/ Broken(c) \/ AtEOF(c)
  /\ copy' = [copy EXCEPT ![c] = "end"]
  /\ failed' = [failed EXCEPT ![c] = ~Closed /\ (TimesOut(c) \/ Broken(c))]
  /\ UNCHANGED <<raw, clocks, peers, inside, caller>>

\* closeWrite of the other end, and the result.
Tell(c) ==
  /\ copy[c] = "end"
  /\ copy' = [copy EXCEPT ![c] = "told"]
  /\ failed' = [failed EXCEPT ![c] = @ \/ (~Closed /\ peer[Other(c)] = "gone")]
  /\ errc' = Append(errc, failed'[c])
  /\ UNCHANGED <<raw, clocks, peers, inside, due, relay, firstErr>>
-----------------------------------------------------------------------------
(* The caller. *)

\* Fault: what is left of the other direction is not waited for.
ReceiveNoGrace ==
  /\ relay = "first" /\ errc # <<>>
  /\ errc' = Tail(errc)
  /\ firstErr' = Head(errc)
  /\ relay' = IF Head(errc) THEN "returned" ELSE "second"
  /\ due' = inside
  /\ UNCHANGED <<raw, clocks, peers, inside, copy, failed>>

ReceiveFirst ==
  /\ relay = "first" /\ errc # <<>>
  /\ errc' = Tail(errc)
  /\ firstErr' = Head(errc)
  /\ relay' = IF Head(errc) THEN "grace" ELSE "second"
  /\ left' = IF Head(errc) THEN Grace ELSE left
  /\ due' = IF Head(errc) THEN inside ELSE due
  /\ UNCHANGED <<raw, age, idle, peers, inside, copy, failed>>

ReceiveSecond ==
  /\ relay = "second" /\ errc # <<>>
  /\ errc' = Tail(errc)
  /\ firstErr' = Head(errc)
  /\ relay' = "returned"
  /\ UNCHANGED <<raw, clocks, peers, inside, due, copy, failed>>

\* Fault: the other direction is waited for, as long as it takes.
GraceEndsByItself == relay = "grace" /\ errc # <<>>

GraceEnds == relay = "grace" /\ (errc # <<>> \/ left = 0)

EndGrace ==
  /\ GraceEnds
  /\ errc' = IF errc = <<>> THEN errc ELSE Tail(errc)
  /\ relay' = "returned"
  /\ UNCHANGED <<raw, clocks, peers, inside, due, copy, failed, firstErr>>
-----------------------------------------------------------------------------
Goroutine(c) == Copy(c) \/ CopyEnds(c) \/ Tell(c)
Caller == ReceiveFirst \/ ReceiveSecond \/ EndGrace

Tick ==
  /\ \A c \in Ends : ~CanCopy(c)
  /\ IF raw THEN /\ age' = Lesser(age + 1, IdleTimeout)
                 /\ idle' = Lesser(idle + 1, IdleTimeout)
     ELSE UNCHANGED <<age, idle>>
  /\ left' = IF left > 0 THEN left - 1 ELSE 0
  /\ clocks' # clocks
  /\ UNCHANGED <<raw, peers, inside, copy, failed, caller>>

Next ==
  \/ Tick \/ Caller
  \/ \E c \in Ends : Send(c) \/ Leave(c) \/ Stall(c) \/ Goroutine(c)

Spec == Init /\ [][Next]_vars

\* Time passes, and the three goroutines run.
FairSpec ==
  Spec /\ WF_vars(Tick) /\ WF_vars(Caller) /\ \A c \in Ends : WF_vars(Goroutine(c))
-----------------------------------------------------------------------------
(* Properties. *)

\* A relay that reports no error has passed on everything that was sent, both ways,
\* and the end of it: one direction that ends does not take the other with it
\* (relay.go:30-35).
CompleteWithoutError ==
  relay = "returned" /\ ~firstErr
    => \A c \in Ends : copy[c] = "told" /\ inside[c] = 0

\* What one direction held when the other failed is delivered before the connections
\* are closed, unless its receiver does not read, is gone, or the deadline is over
\* ("silently drops the tail of the other side's data", relay.go:13-17).
TailDelivered ==
  relay = "returned" /\ firstErr
    => \A c \in Ends :
         due[c] = 0 \/ Other(c) \in stalled \/ peer[Other(c)] = "gone" \/ Expired

\* A direction that fails ends the relay, and both goroutines, though the other end
\* neither reads nor closes (relay.go:37-47).
FailureEndsRelay ==
  (\E c \in Ends : failed[c]) ~> (relay = "returned" /\ \A c \in Ends : copy[c] = "told")

\* "Cap concurrency and expire idle connections" (server.go:948): a raw connection
\* whose peers are there is cut only when nothing has moved for the timeout.
OnlyIdleExpires ==
  relay = "returned" /\ firstErr /\ (\A c \in Ends : peer[c] # "gone")
    => idle = IdleTimeout
=============================================================================
