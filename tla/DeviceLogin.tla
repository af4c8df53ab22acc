----------------------------- MODULE DeviceLogin -----------------------------
(***************************************************************************)
(* The login with a device code.  On the command line (cmd/login.go) one   *)
(* goroutine asks the region again and again whether the user has granted  *)
(* the code (auth.PollForToken).  In the web console (cmd/ui_api.go) the   *)
(* page asks: every request is a goroutine of its own, and the requests    *)
(* share one pending login, read and replaced under deviceMu.              *)
(*                                                                         *)
(* The region is external.  A code is granted at most one token; the       *)
(* answer with the token may be lost, and the code is spent all the same.  *)
(* Time is counted in the five seconds of a slow_down.  The goroutine of   *)
(* the command line sleeps exactly; its requests take no time, those of    *)
(* the console any.                                                        *)
(***************************************************************************)
EXTENDS Naturals

CONSTANTS Codes,     \* device codes, each issued at most once
          Profiles,  \* the profiles a login may be for
          Handlers,  \* goroutines that serve requests of the console
          None,      \* no login, no result
          Lifetime,  \* expires_in
          Interval,  \* the region's polling interval
          MaxWait,   \* the ten minutes after which the command line gives up
          MaxSlow,   \* bound: answers that ask to slow down
          MaxTime    \* bound of the clock

VARIABLES now,     \* the clock
          codes,   \* the region's state of every code
          cli,     \* the login of the command line
          session, \* deviceSession
          handler, \* what every request of the console is doing
          saved,   \* the logins that performLoginExchange has saved
          slow     \* how often the region asked to slow down

vars == <<now, codes, cli, session, handler, saved, slow>>

Times == 0..MaxTime
Logins == [code : Codes, profile : Profiles]
Pending == [code : Codes, profile : Profiles, until : 0..(MaxTime + Lifetime)]
Results == {None, "saved", "denied", "expired", "timeout", "failed"}

\* For: the profile the login was started for.  granted: when.
TypeOK ==
  /\ now \in Times /\ slow \in 0..MaxSlow
  /\ codes \in [Codes -> [state : {"unused", "pending", "granted", "denied", "spent"},
                          until : 0..(MaxTime + Lifetime), granted : Times,
                          for : Profiles \cup {None}]]
  /\ cli \in [pc : {"idle", "check", "sleep", "ask", "exchange"},
              code : Codes \cup {None}, profile : Profiles \cup {None},
              deadline : 0..(MaxTime + Lifetime), every : Nat, wake : Nat,
              lost : BOOLEAN, result : Results]
  /\ session \in Pending \cup {None}
  /\ handler \in [Handlers -> [pc : {"idle", "set", "expired", "ask", "exchange", "done"},
                               pending : Pending \cup {None}]]
  /\ saved \subseteq Logins

Rest == [pc |-> "idle", pending |-> None]

Init ==
  /\ now = 0 /\ slow = 0
  /\ codes = [c \in Codes |-> [state |-> "unused", until |-> 0, granted |-> 0, for |-> None]]
  /\ cli = [pc |-> "idle", code |-> None, profile |-> None, deadline |-> 0, every |-> 0,
            wake |-> 0, lost |-> FALSE, result |-> None]
  /\ session = None
  /\ handler = [h \in Handlers |-> Rest]
  /\ saved = {}
-----------------------------------------------------------------------------
(* The region and the user. *)

Unused == {c \in Codes : codes[c].state = "unused"}
NewCode == CHOOSE c \in Unused : TRUE

\* RequestDeviceAuthorization, with an answer that passes validateDeviceAuthorization.
Issue(c, profile) ==
  /\ Unused # {}
  /\ codes' = [codes EXCEPT ![c] = [state |-> "pending", until |-> now + Lifetime,
                                    granted |-> 0, for |-> profile]]

Expired(c) == now >= codes[c].until

User(c) ==
  /\ codes[c].state = "pending" /\ ~Expired(c)
  /\ \E s \in {"granted", "denied"} :
       codes' = [codes EXCEPT ![c].state = s, ![c].granted = now]
  /\ UNCHANGED <<now, cli, session, handler, saved, slow>>

\* What the token endpoint answers; "token" spends the code.
Answers(c) ==
  CASE codes[c].state = "spent" -> {"refused"}
    [] codes[c].state = "denied" -> {"denied"}
    [] codes[c].state \in {"pending", "granted"} /\ Expired(c) -> {"expired"}
    [] codes[c].state = "granted" /\ ~Expired(c) -> {"token"}
    [] OTHER -> {"pending", "slow_down"}

Give(c, answer) ==
  codes' = IF answer = "token"
             THEN [codes EXCEPT ![c].state = "spent", ![c].until = 0, ![c].granted = 0]
             ELSE codes
-----------------------------------------------------------------------------
(* The command line. *)

CliGo(place) == cli' = [cli EXCEPT !.pc = place]
CliEnd(r) == cli' = [cli EXCEPT !.pc = "idle", !.result = r]

\* runLoginFlowWithProfile, and the deadline of PollForToken.
CliStart(profile) ==
  /\ cli.code = None /\ Issue(NewCode, profile)
  /\ cli' = [pc |-> "check", code |-> NewCode, profile |-> profile,
             deadline |-> now + (IF Lifetime > MaxWait THEN MaxWait ELSE Lifetime),
             every |-> Interval, wake |-> 0, lost |-> FALSE, result |-> None]
  /\ UNCHANGED <<now, session, handler, saved, slow>>

CliCheck ==
  /\ cli.pc = "check"
  /\ IF now < cli.deadline
       THEN cli' = [cli EXCEPT !.pc = "sleep", !.wake = now + cli.every]
       ELSE CliEnd("timeout")
  /\ UNCHANGED <<now, codes, session, handler, saved, slow>>

CliWake ==
  /\ cli.pc = "sleep" /\ now >= cli.wake /\ CliGo("ask")
  /\ UNCHANGED <<now, codes, session, handler, saved, slow>>

\* A network error keeps it trying, though it may have cost the token; a 200 whose body
\* cannot be read ends it.
CliAsk ==
  /\ cli.pc = "ask"
  /\ UNCHANGED <<now, session, handler, saved>>
  /\ \E a \in Answers(cli.code) :
       /\ Give(cli.code, a)
       /\ slow' = IF a = "slow_down" THEN slow + 1 ELSE slow
       /\ slow' <= MaxSlow
       /\ \/ CASE a = "pending" -> CliGo("check")
               [] a = "slow_down" -> cli' = [cli EXCEPT !.pc = "check", !.every = @ + 1]
               [] a = "token" -> CliGo("exchange")
               [] a = "refused" -> CliEnd("failed")
               [] OTHER -> CliEnd(a)
          \/ a = "token" /\ CliEnd("failed")
          \/ ~cli.lost /\ cli' = [cli EXCEPT !.pc = "check", !.lost = TRUE]

\* performLoginExchange.
CliExchange ==
  /\ cli.pc = "exchange"
  /\ \/ /\ saved' = saved \cup {[code |-> cli.code, profile |-> cli.profile]}
        /\ CliEnd("saved")
     \/ UNCHANGED saved /\ CliEnd("failed")
  /\ UNCHANGED <<now, codes, session, handler, slow>>
-----------------------------------------------------------------------------
(* The console. *)

Set(h, r) == handler' = [handler EXCEPT ![h] = r]
Go(h, place) == Set(h, [handler[h] EXCEPT !.pc = place])
At(h, place) == handler[h].pc = place
Is(h) == handler[h].pending

\* DeviceStart: the code, and then the session.
DeviceStart(h, profile) ==
  /\ At(h, "idle") /\ Issue(NewCode, profile)
  /\ Set(h, [pc |-> "set", pending |-> [code |-> NewCode, profile |-> profile, until |-> 0]])
  /\ UNCHANGED <<now, cli, session, saved, slow>>

SetSession(h) ==
  /\ At(h, "set")
  /\ session' = [Is(h) EXCEPT !.until = now + Lifetime]
  /\ Set(h, Rest)
  /\ UNCHANGED <<now, codes, cli, saved, slow>>

\* DevicePoll: everything after this goes by the copy of the pointer.
DevicePoll(h) ==
  /\ At(h, "idle") /\ session # None
  /\ Set(h, [pc |-> IF now > session.until THEN "expired" ELSE "ask", pending |-> session])
  /\ UNCHANGED <<now, codes, cli, session, saved, slow>>

\* PollDeviceTokenOnce.
PollOnce(h) ==
  /\ At(h, "ask")
  /\ UNCHANGED <<now, cli, session, saved, slow>>
  /\ \E a \in Answers(Is(h).code) :
       /\ Give(Is(h).code, a)
       /\ \/ a = "token" /\ Go(h, "exchange")
          \/ Set(h, Rest)

\* Fault: the login that is pending now, not the one that was polled.
PolledNow(h) == IF session = None THEN Is(h) ELSE session

\* The login that this request has polled.
Polled(h) == Is(h)

\* performLoginExchange, into the profile of the login.
Exchange(h) ==
  /\ At(h, "exchange")
  /\ \/ /\ saved' = saved \cup {[code |-> Is(h).code, profile |-> Polled(h).profile]}
        /\ Go(h, "done")
     \/ UNCHANGED saved /\ Set(h, Rest)
  /\ UNCHANGED <<now, codes, cli, session, slow>>

\* Whatever the session is by then.
ClearSession(h) ==
  /\ At(h, "expired") \/ At(h, "done")
  /\ session' = None /\ Set(h, Rest)
  /\ UNCHANGED <<now, codes, cli, saved, slow>>
-----------------------------------------------------------------------------
\* Time does not pass while the command line has something to do.
Tick ==
  /\ now < MaxTime /\ now' = now + 1
  /\ cli.pc = "idle" \/ (cli.pc = "sleep" /\ now < cli.wake)
  /\ UNCHANGED <<codes, cli, session, handler, saved, slow>>

\* The two ways to log in share nothing but the region, which keeps their codes apart.
CliNext ==
  \/ \E c \in Codes : User(c)
  \/ \E profile \in Profiles : CliStart(profile)
  \/ CliCheck \/ CliWake \/ CliAsk \/ CliExchange
  \/ Tick

ConsoleNext ==
  \/ \E c \in Codes : User(c)
  \/ \E h \in Handlers :
       \/ \E profile \in Profiles : DeviceStart(h, profile)
       \/ SetSession(h) \/ DevicePoll(h) \/ PollOnce(h) \/ Exchange(h) \/ ClearSession(h)
  \/ Tick

Next == CliNext \/ ConsoleNext

Spec == Init /\ [][Next]_vars
-----------------------------------------------------------------------------
(* Properties. *)

\* A login is saved as the profile it was started for, once, and only if its code
\* was granted: requests of the console that overlap a newer login do not mix them up
\* (ui_api.go:464-496).
LandsWhereStarted ==
  /\ \A s \in saved : codes[s.code].state = "spent" /\ codes[s.code].for = s.profile
  /\ \A s, t \in saved : s.code = t.code => s = t

\* When no request is at work, a login that was saved is not pending any more
\* (ui_api.go:490-495).
SavedIsFinished ==
  (\A h \in Handlers : At(h, "idle")) /\ session # None
    => \A s \in saved : s.code # session.code

\* A login that is given up as expired or timed out was not granted in time to be seen:
\* no later than one polling interval before the end, unless an answer was lost
\* ("PollForToken repeatedly polls the token endpoint until the user authenticates or it
\* expires", auth.go:218).
GrantSeen ==
  cli.result \in {"timeout", "expired"} /\ codes[cli.code].state = "granted" /\ ~cli.lost
    => LET end == IF codes[cli.code].until < cli.deadline THEN codes[cli.code].until
                  ELSE cli.deadline
       IN  codes[cli.code].granted + cli.every >= end

\* It polls at most once after its deadline.
PollingEnds == cli.pc \in {"check", "sleep", "ask"} => now <= cli.deadline + cli.every

LoginSound == LandsWhereStarted /\ SavedIsFinished /\ GrantSeen /\ PollingEnds
=============================================================================
