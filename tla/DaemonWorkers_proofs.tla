------------------------ MODULE DaemonWorkers_proofs ------------------------
(***************************************************************************)
(* Theorems of DaemonWorkers for any number of tunnels, goroutines,        *)
(* configuration changes and crashes.                                      *)
(***************************************************************************)
EXTENDS DaemonWorkers, TLAPS

LEMMA InitInv == Init => IInv
<1> SUFFICES ASSUME Init PROVE IInv OBVIOUS
<1>1. {0, 1} \subseteq Configs
  BY DaemonAssumption DEF Configs
<1>2. TypeOK
  BY <1>1 DEF Init, TypeOK, Nothing, Records, States, WPCs
<1>3. LiveRegistered /\ TableInv
  BY DaemonAssumption DEF Init, LiveRegistered, TableInv, Live, Done, Nothing
<1> QED BY <1>2, <1>3 DEF IInv

\* What a step of one worker leaves alone.
LEMMA WorkerFrame ==
  ASSUME TypeOK, NEW w \in Workers, WorkerStep(w)
  PROVE  /\ UNCHANGED <<last, loop>>
         /\ \E l \in WPCs : wpc' = [wpc EXCEPT ![w] = l]
         /\ wpc[w] # "gone"
         /\ wpc'[w] # wpc[w]
         /\ wpc[w] # "unlist" =>
              /\ UNCHANGED <<managed, wtunnel, wprint, wcancel>>
              /\ wpc'[w] # "gone"
         /\ wpc[w] = "unlist" => wpc'[w] = "gone"
<1> USE DEF TypeOK, Move, Goto, WPCs
<1>1. CASE Get(w) \/ GetEnds(w) \/ Drop(w) \/ MarkConnecting(w) \/ MarkFails(w)
  BY <1>1 DEF Get, GetEnds, Drop, MarkConnecting, MarkFails
<1>2. CASE DialStart(w) \/ DialOK(w) \/ DialFails(w) \/ OnConnected(w)
             \/ Disconnect(w)
  BY <1>2 DEF DialStart, DialOK, DialFails, OnConnected, Disconnect
<1>3. CASE Check(w) \/ MarkError(w) \/ Wake(w) \/ Cancelled(w) \/ CloseDone(w)
  BY <1>3 DEF Check, MarkError, Wake, Cancelled, CloseDone
<1>4. CASE Unlist(w)
  BY <1>4 DEF Unlist
<1> QED BY <1>1, <1>2, <1>3, <1>4 DEF WorkerStep

\* What SetState writes.
LEMMA SetStateType ==
  ASSUME TypeOK, NEW w \in Workers, wtunnel[w] \in Tunnels,
         NEW s \in States, SetState(w, s)
  PROVE  /\ file' \in [Tunnels -> Records \cup {None}]
         /\ \A t \in Tunnels : file'[t] # file[t] =>
              /\ t = wtunnel[w] /\ file[t] # None /\ file'[t] # None
              /\ file[t].state # "stopped"
<1>1. CASE Record(w) = None \/ Record(w).state = "stopped"
  BY <1>1 DEF SetState, TypeOK
<1>2. CASE ~(Record(w) = None \/ Record(w).state = "stopped")
  <2>1. file[wtunnel[w]] \in Records
    BY <1>2 DEF Record, TypeOK
  <2>2. [file[wtunnel[w]] EXCEPT !.state = s] \in Records
    BY <2>1 DEF Records
  <2>3. file' = [file EXCEPT ![wtunnel[w]] =
                               [file[wtunnel[w]] EXCEPT !.state = s]]
    BY <1>2 DEF SetState
  <2> QED BY <1>2, <2>2, <2>3, NoneAssumption DEF TypeOK, Record
<1> QED BY <1>1, <1>2

\* A worker writes only its own tunnel's record, and never over "stopped"
\* anything but "stopped".
LEMMA WorkerWrites ==
  ASSUME IInv, NEW w \in Workers, WorkerStep(w)
  PROVE  /\ file' \in [Tunnels -> Records \cup {None}]
         /\ wcopy' \in [Workers -> Records \cup {None}]
         /\ \A t \in Tunnels : file'[t] # file[t] =>
              /\ Live(w) /\ t = wtunnel[w] /\ file'[t] # None
              /\ file[t] # None /\ file[t].state = "stopped" =>
                   file'[t].state = "stopped"
         /\ wpc'[w] = "drop" =>
              wcopy'[w] \in Records /\ wcopy'[w].state = "stopped"
         /\ \A v \in Workers \ {w} : wcopy'[v] = wcopy[v]
<1>t. TypeOK /\ TableInv /\ wpc[w] # "gone" /\ wtunnel[w] \in Tunnels
  BY WorkerFrame DEF IInv, TableInv
<1> USE DEF Move, Goto
<1>1. CASE Get(w)
  <2>1. Record(w) \in Records
    BY <1>1, <1>t DEF Get, Record, TypeOK
  <2>2. [Record(w) EXCEPT !.state = "stopped"] \in Records
        /\ [Record(w) EXCEPT !.state = "stopped"].state = "stopped"
    BY <2>1 DEF Records, States
  <2> QED BY <1>1, <1>t, <2>2 DEF Get, TypeOK
<1>2. CASE Drop(w)
  <2>1. wcopy[w] \in Records /\ wcopy[w].state = "stopped" /\ Live(w)
    BY <1>2, <1>t DEF Drop, TableInv, Live, Done
  <2>2. wpc'[w] # "drop"
    BY <1>2, <1>t DEF Drop, TypeOK
  <2> QED BY <1>2, <1>t, <2>1, <2>2, NoneAssumption DEF Drop, TypeOK
<1>3. CASE MarkConnecting(w) \/ OnConnected(w) \/ MarkError(w)
  <2>1. PICK s \in States : SetState(w, s)
    BY <1>3 DEF MarkConnecting, OnConnected, MarkError, States
  <2>2. Live(w) /\ wpc'[w] # "drop" /\ wcopy' = wcopy
    BY <1>3, <1>t DEF MarkConnecting, OnConnected, MarkError, Live, Done, TypeOK
  <2> QED BY <2>1, <2>2, <1>t, SetStateType DEF TypeOK
<1>4. CASE GetEnds(w) \/ MarkFails(w) \/ DialStart(w) \/ DialOK(w)
             \/ DialFails(w) \/ Disconnect(w)
  BY <1>4, <1>t DEF GetEnds, MarkFails, DialStart, DialOK, DialFails,
     Disconnect, TypeOK
<1>5. CASE Check(w) \/ Wake(w) \/ Cancelled(w) \/ CloseDone(w)
  BY <1>5, <1>t DEF Check, Wake, Cancelled, CloseDone, TypeOK
<1>6. CASE Unlist(w)
  BY <1>6, <1>t DEF Unlist, TypeOK
<1> QED BY <1>1, <1>2, <1>3, <1>4, <1>5, <1>6 DEF WorkerStep

LEMMA WorkerKeeps ==
  ASSUME IInv, NEW w \in Workers, WorkerStep(w)
  PROVE  IInv'
<1>t. TypeOK /\ LiveRegistered /\ TableInv
  BY DEF IInv
<1>f. /\ UNCHANGED <<last, phase, listed, desired>>
      /\ \E l \in WPCs : wpc' = [wpc EXCEPT ![w] = l]
      /\ wpc[w] # "gone" /\ wpc'[w] # wpc[w]
  BY <1>t, WorkerFrame DEF loop
<1>w. wtunnel[w] \in Tunnels
  BY <1>t, <1>f DEF TableInv
<1>1. CASE wpc[w] # "unlist"
  <2>1. UNCHANGED <<managed, wtunnel, wprint, wcancel>> /\ wpc'[w] # "gone"
    BY <1>t, <1>1, WorkerFrame
  <2>2. TypeOK'
    BY <1>t, <1>f, <2>1, WorkerWrites DEF TypeOK
  <2>3. LiveRegistered'
    BY <1>t, <1>f, <1>1, <2>1 DEF TypeOK, LiveRegistered, Live, Done
  <2>4. TableInv'
    BY <1>t, <1>f, <1>w, <2>1, WorkerWrites DEF TypeOK, TableInv
  <2> QED BY <2>2, <2>3, <2>4 DEF IInv
<1>2. CASE wpc[w] = "unlist"
  <2>1. Unlist(w)
    BY <1>2, <1>f DEF WorkerStep, Get, GetEnds, Drop, MarkConnecting, MarkFails,
       DialStart, DialOK, DialFails, OnConnected, Disconnect, Check, MarkError,
       Wake, Cancelled, CloseDone, Move
  <2>2. TypeOK'
    <3>1. managed' \in [Tunnels -> Workers \cup {None}]
      BY <1>t, <2>1 DEF TypeOK, Unlist
    <3>2. /\ wpc' \in [Workers -> WPCs]
          /\ wtunnel' \in [Workers -> Tunnels \cup {None}]
          /\ wprint' \in [Workers -> Configs \cup {None}]
          /\ wcancel' \in [Workers -> BOOLEAN]
          /\ wcopy' \in [Workers -> Records \cup {None}]
      BY <1>t, <2>1 DEF TypeOK, Unlist, Goto, WPCs
    <3>3. file' = file
      BY <2>1 DEF Unlist
    <3> QED BY <1>t, <1>f, <3>1, <3>2, <3>3 DEF TypeOK
  <2>3. wpc' = [wpc EXCEPT ![w] = "gone"] /\ wtunnel' = [wtunnel EXCEPT ![w] = None]
    BY <2>1 DEF Unlist, Goto
  <2>4. \A t \in Tunnels : managed'[t] # w
                           /\ (managed[t] # w => managed'[t] = managed[t])
    BY <1>t, <1>w, <2>1, DaemonAssumption DEF Unlist, TypeOK, TableInv
  <2>5. LiveRegistered'
    BY <1>t, <1>2, <2>3, <2>4 DEF TypeOK, LiveRegistered, Live, Done
  <2>6. TableInv'
    <3>1. \A t \in Tunnels : managed'[t] # None =>
            wtunnel'[managed'[t]] = t /\ wpc'[managed'[t]] # "gone"
      BY <1>t, <1>w, <2>1, <2>3, <2>4 DEF TypeOK, TableInv, Unlist
    <3>2. \A v \in Workers : wpc'[v] # "gone" => wtunnel'[v] \in Tunnels
      BY <1>t, <2>3 DEF TypeOK, TableInv
    <3>3. \A v \in Workers : wpc'[v] = "drop" =>
            wcopy'[v] \in Records /\ wcopy'[v].state = "stopped"
      BY <1>t, <2>3, WorkerWrites DEF TypeOK, TableInv
    <3> QED BY <3>1, <3>2, <3>3 DEF TableInv
  <2> QED BY <2>2, <2>5, <2>6 DEF IInv
<1> QED BY <1>1, <1>2

\* reconcileDaemonWorkers registers every goroutine it starts, and only where
\* no live one is registered.
LEMMA ReconcileKeeps ==
  ASSUME IInv, NEW new \in [Tunnels -> Workers], Reconcile(new)
  PROVE  IInv'
<1>t. TypeOK /\ LiveRegistered /\ TableInv
  BY DEF IInv
<1> DEFINE started == {new[t] : t \in ToStart}
           starts(w) == CHOOSE t \in ToStart : new[t] = w
<1>1. \A w \in started : starts(w) \in ToStart /\ new[starts(w)] = w
                         /\ wpc[w] = "gone"
  BY DEF Reconcile
<1>2. \A t \in ToStart : new[t] \in started /\ starts(new[t]) = t
  BY <1>1 DEF Reconcile
<1>3. ToStart \subseteq Tunnels /\ \A t \in ToStart : desired[t] # None
  BY DEF ToStart
<1>n. /\ phase' = "wait"
      /\ managed' = [t \in Tunnels |->
                       IF t \in ToStart THEN new[t] ELSE Registered(t)]
      /\ wpc' = [w \in Workers |-> IF w \in started THEN "get" ELSE wpc[w]]
      /\ wtunnel' = [w \in Workers |->
                       IF w \in started THEN starts(w) ELSE wtunnel[w]]
      /\ wprint' = [w \in Workers |->
                      IF w \in started THEN desired[starts(w)] ELSE wprint[w]]
      /\ wcancel' = [w \in Workers |->
                       w \notin started /\ (wcancel[w] \/ w \in ToCancel)]
      /\ UNCHANGED <<file, last, listed, desired, wcopy>>
  BY DEF Reconcile
<1> HIDE DEF started, starts
<1>4. TypeOK'
  <2>1. managed' \in [Tunnels -> Workers \cup {None}]
    BY <1>n, <1>t DEF TypeOK, Registered
  <2>2. wpc' \in [Workers -> WPCs]
    BY <1>n, <1>t DEF TypeOK, WPCs
  <2>3. wtunnel' \in [Workers -> Tunnels \cup {None}]
    BY <1>n, <1>t, <1>1, <1>3 DEF TypeOK
  <2>4. wprint' \in [Workers -> Configs \cup {None}]
    BY <1>n, <1>t, <1>1, <1>3 DEF TypeOK
  <2>5. wcancel' \in [Workers -> BOOLEAN]
    <3>1. \A w \in Workers :
            (w \notin started /\ (wcancel[w] \/ w \in ToCancel)) \in BOOLEAN
      OBVIOUS
    <3> QED BY <1>n, <3>1
  <2> QED BY <1>n, <1>t, <2>1, <2>2, <2>3, <2>4, <2>5 DEF TypeOK
<1>5. LiveRegistered'
  <2> SUFFICES ASSUME NEW w \in Workers, Live(w)'
               PROVE  wtunnel'[w] \in Tunnels /\ managed'[wtunnel'[w]] = w
    BY DEF LiveRegistered
  <2>1. CASE w \in started
    BY <2>1, <1>n, <1>1, <1>3
  <2>2. CASE w \notin started
    <3>1. Live(w) /\ wtunnel'[w] = wtunnel[w]
      BY <2>2, <1>n DEF Live, Done
    <3>2. wtunnel[w] \in Tunnels /\ managed[wtunnel[w]] = w
      BY <3>1, <1>t DEF LiveRegistered
    <3>3. Registered(wtunnel[w]) = w /\ wtunnel[w] \notin ToStart
      BY <3>1, <3>2, DaemonAssumption DEF Registered, ToStart, Live
    <3> QED BY <3>1, <3>2, <3>3, <1>n
  <2> QED BY <2>1, <2>2
<1>6. TableInv'
  <2>1. ASSUME NEW t \in Tunnels, managed'[t] # None
        PROVE  wtunnel'[managed'[t]] = t /\ wpc'[managed'[t]] # "gone"
    <3>1. CASE t \in ToStart
      BY <3>1, <1>n, <1>2
    <3>2. CASE t \notin ToStart
      <4>1. managed'[t] = managed[t] /\ managed[t] \in Workers
        BY <2>1, <3>2, <1>n, <1>t DEF Registered, TypeOK
      <4>2. wtunnel[managed[t]] = t /\ wpc[managed[t]] # "gone"
        BY <2>1, <4>1, <1>t DEF TableInv
      <4>3. managed[t] \notin started
        BY <4>2, <1>1
      <4> QED BY <4>1, <4>2, <4>3, <1>n
    <3> QED BY <3>1, <3>2
  <2>2. \A w \in Workers : wpc'[w] # "gone" => wtunnel'[w] \in Tunnels
    BY <1>n, <1>t, <1>1, <1>3 DEF TableInv
  <2>3. \A w \in Workers : wpc'[w] = "drop" =>
          wcopy'[w] \in Records /\ wcopy'[w].state = "stopped"
    BY <1>n, <1>t DEF TableInv
  <2> QED BY <2>1, <2>2, <2>3 DEF TableInv
<1> QED BY <1>4, <1>5, <1>6 DEF IInv

LEMMA CliKeeps ==
  ASSUME IInv, NEW t \in Tunnels, Cli(t)
  PROVE  IInv'
<1>t. TypeOK /\ LiveRegistered /\ TableInv
  BY DEF IInv
<1>1. /\ last' \in Configs
      /\ \E rec \in Records \cup {None} : Write(t, rec)
  <2>1. CASE file[t] # None /\ ~CliConfigure(t)
    <3>1. file[t] \in Records
      BY <2>1, <1>t DEF TypeOK
    <3>2. \A s \in States, c \in Configs, e \in BOOLEAN :
            /\ [file[t] EXCEPT !.state = s] \in Records
            /\ [file[t] EXCEPT !.state = s, !.config = c] \in Records
            /\ [file[t] EXCEPT !.expired = e] \in Records
      BY <3>1 DEF Records
    <3>3. {"stopped", "pending"} \subseteq States /\ 0 \in Configs
      BY DaemonAssumption DEF States, Configs
    <3> QED BY <2>1, <3>2, <3>3, <1>t DEF Cli, CliStop, CliStart, CliDelete,
               CliScrub, Expire, TypeOK
  <2>2. CASE CliConfigure(t)
    <3>1. last + 1 \in Configs
      BY <2>2, <1>t, DaemonAssumption DEF CliConfigure, TypeOK, Configs
    <3>2. (IF file[t] = None THEN "pending" ELSE file[t].state) \in States
      BY <1>t DEF TypeOK, Records, States
    <3> QED BY <2>2, <3>1, <3>2 DEF CliConfigure, Records
  <2> QED BY <2>1, <2>2 DEF Cli, CliStop, CliStart, CliDelete, CliScrub, Expire
<1>2. /\ UNCHANGED <<phase, listed, desired, managed, wpc, wtunnel,
                     wprint, wcancel, wcopy>>
      /\ file' \in [Tunnels -> Records \cup {None}]
  BY <1>1, <1>t DEF Write, loop, worker, TypeOK
<1>3. TypeOK'
  BY <1>1, <1>2, <1>t DEF TypeOK
<1>4. LiveRegistered' /\ TableInv'
  BY <1>2, <1>t DEF LiveRegistered, TableInv, Live, Done
<1> QED BY <1>3, <1>4 DEF IInv

LEMMA LoopKeeps ==
  ASSUME IInv, \/ Launch \/ List
               \/ \E t \in Tunnels : Recheck(t) \/ CleanUp(t) \/ CleanUpFails(t)
  PROVE  IInv'
<1>t. TypeOK /\ LiveRegistered /\ TableInv
  BY DEF IInv
<1>1. \A rec \in Records \cup {None} : Wanted(rec) \in Configs \cup {None}
  BY DEF Wanted, Records
<1>2. /\ UNCHANGED <<last, managed, wpc, wtunnel, wprint, wcancel, wcopy>>
      /\ file' \in [Tunnels -> Records \cup {None}]
      /\ phase' \in {"wait", "collect"}
      /\ listed' \subseteq Tunnels
      /\ desired' \in [Tunnels -> Configs \cup {None}]
  <2>1. CASE Launch \/ List
    BY <2>1, <1>1, <1>t DEF Launch, List, worker, TypeOK
  <2>2. ASSUME NEW t \in Tunnels, Recheck(t) \/ CleanUp(t) \/ CleanUpFails(t)
        PROVE  <1>2!1 /\ <1>2!2 /\ <1>2!3 /\ <1>2!4 /\ <1>2!5
    BY <2>2, <1>1, <1>t DEF Recheck, CleanUp, CleanUpFails, Visit, worker, TypeOK
  <2> QED BY <2>1, <2>2
<1>3. TypeOK'
  BY <1>2, <1>t DEF TypeOK
<1>4. LiveRegistered' /\ TableInv'
  BY <1>2, <1>t DEF LiveRegistered, TableInv, Live, Done
<1> QED BY <1>3, <1>4 DEF IInv

LEMMA CrashKeeps ==
  ASSUME IInv, Crash
  PROVE  IInv'
<1>1. TypeOK'
  BY DEF IInv, TypeOK, Crash, Nothing, WPCs
<1>2. LiveRegistered' /\ TableInv'
  BY DaemonAssumption DEF Crash, LiveRegistered, TableInv, Live, Done, Nothing
<1> QED BY <1>1, <1>2 DEF IInv

\* The table of workers: types, that every goroutine that may act is in it, and
\* that it holds nothing else.
THEOREM Invariance == Spec => []IInv
<1>1. IInv /\ [Next]_vars => IInv'
  <2> SUFFICES ASSUME IInv, [Next]_vars PROVE IInv'
    OBVIOUS
  <2>1. CASE UNCHANGED vars
    BY <2>1 DEF vars, loop, worker, IInv, TypeOK, LiveRegistered, TableInv, Live,
       Done
  <2>2. CASE Next
    BY <2>2, WorkerKeeps, ReconcileKeeps, CliKeeps, LoopKeeps, CrashKeeps
       DEF Next, LoopStep
  <2> QED BY <2>1, <2>2
<1> QED BY InitInv, <1>1, PTL DEF Spec

\* No tunnel ever has two goroutines that may connect or write for it.
THEOREM OneWorker == Spec => []OneLiveWorker
<1>1. IInv => OneLiveWorker
  BY DEF IInv, LiveRegistered, OneLiveWorker
<1> QED BY Invariance, <1>1, PTL

\* A step in which a worker moves and a record changes is a worker's write.
LEMMA WhoWrites ==
  ASSUME IInv, [Next]_vars, NEW t \in Tunnels, NEW w \in Workers,
         file'[t] # file[t], wpc'[w] # wpc[w]
  PROVE  WorkerStep(w)
<1>1. Next
  BY DEF vars
<1>2. ASSUME NEW v \in Workers, WorkerStep(v)
      PROVE  v = w
  BY <1>2, WorkerFrame DEF IInv, TypeOK
<1>3. ~Launch /\ ~List /\ ~Crash
  BY DEF Launch, List, worker, Crash
<1>4. ~\E u \in Tunnels : Cli(u) \/ Recheck(u) \/ CleanUp(u) \/ CleanUpFails(u)
  BY DEF Cli, CliStop, CliStart, CliConfigure, CliDelete, CliScrub, Expire,
     Write, Recheck, CleanUp, CleanUpFails, Visit, worker
<1>5. ~\E new \in [Tunnels -> Workers] : Reconcile(new)
  BY DEF Reconcile
<1> QED BY <1>1, <1>2, <1>3, <1>4, <1>5 DEF Next, LoopStep

\* Whoever writes a record for the daemon is the worker registered for it.
THEOREM RegisteredWrites == Spec => OnlyRegisteredWrites
<1>1. ASSUME IInv, [Next]_vars, NEW t \in Tunnels, NEW w \in Workers,
             file'[t] # file[t], wpc'[w] # wpc[w]
      PROVE  managed[t] = w
  BY <1>1, WhoWrites, WorkerWrites DEF IInv, LiveRegistered
<1>2. IInv /\ [Next]_vars =>
        [\A t \in Tunnels, w \in Workers :
           file'[t] # file[t] /\ wpc'[w] # wpc[w] => managed[t] = w]_vars
  BY <1>1
<1> QED BY Invariance, <1>2, PTL DEF Spec, OnlyRegisteredWrites

\* No worker reverts a stop, however old the record it acts on.
THEOREM StopHolds == Spec => StopSticks
<1>1. ASSUME IInv, [Next]_vars, NEW t \in Tunnels, NEW w \in Workers,
             file[t] # None, file[t].state = "stopped", wpc'[w] # wpc[w]
      PROVE  file'[t] # None /\ file'[t].state = "stopped"
  <2>1. CASE file'[t] = file[t]
    BY <1>1, <2>1
  <2>2. CASE file'[t] # file[t]
    BY <1>1, <2>2, WhoWrites, WorkerWrites
  <2> QED BY <2>1, <2>2
<1>2. IInv /\ [Next]_vars =>
        [\A t \in Tunnels, w \in Workers :
           /\ file[t] # None /\ file[t].state = "stopped"
           /\ wpc'[w] # wpc[w]
           => file'[t] # None /\ file'[t].state = "stopped"]_vars
  BY <1>1
<1> QED BY Invariance, <1>2, PTL DEF Spec, StopSticks
=============================================================================
