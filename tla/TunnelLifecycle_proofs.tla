------------------------ MODULE TunnelLifecycle_proofs ------------------------
(***************************************************************************)
(* Theorems of TunnelLifecycle for any number of processes.  What a step   *)
(* of one process may do to the others is a list, Effects; each action is  *)
(* shown to stay within it and to bring its own process where it may be.   *)
(* The last part is about the relay that MCTunnelLifecycle puts beside it. *)
(***************************************************************************)
EXTENDS MCTunnelLifecycle, SequenceTheorems, TLAPS

\* What a step of p, once started, may do.
Effects(p) ==
  /\ pc[p] \notin Ends \cup {"new"}
  /\ \E l \in PCs : pc' = [pc EXCEPT ![p] = l]
  /\ \E rec \in Records \cup {None} : copy' = [copy EXCEPT ![p] = rec]
  /\ UNCHANGED cmd
  /\ worker' \in BOOLEAN
  /\ record' \in Records \cup {None} /\ OwnerExposed(record')
  /\ remote' \in {"none", "running", "paused"}
  /\ lock' = lock \/ (lock = None /\ lock' = p) \/ (lock = p /\ lock' = None)
  /\ record = None /\ record' # None => pc[p] = "save"
  /\ record # None /\ record' = None => pc[p] = "delete"
  /\ remote = "none" /\ remote' # "none" => pc[p] = "provision"

\* StoppedIsPaused between the commands: who is in the middle of it, or died or gave
\* up there, accounts for a tunnel that says it is stopped and runs.
StoppedRecord(rec) == rec # None /\ rec.state = "stopped" /\ rec.secret
Astray == StoppedRecord(record) /\ remote = "running"

Accounts(p) ==
  pc[p] \in {"pause", "restore", "reopen", "undo", "giveup", "unsure", "dead"}
Marred == \E p \in Procs : pc[p] \in {"unsure", "dead"}

\* What a stop that fails writes back was there before, and so was what it said.
StopOK(p) ==
  /\ pc[p] = "unwind" => remote # "running"
  /\ pc[p] \in {"halt", "pause", "restore"} /\ StoppedRecord(copy[p])
       => remote # "running" \/ Marred

SInv == (Astray => \E p \in Procs : Accounts(p)) /\ \A p \in Procs : StopOK(p)

LEMMA InitInv == Init => IInv
<1> SUFFICES ASSUME Init PROVE IInv OBVIOUS
<1>1. TypeOK
  <2>1. record \in Records \cup {None}
    <3> DEFINE served == [mode |-> "daemon", owner |-> Daemon, state |-> "connected",
                          secret |-> TRUE]
               halted == [mode |-> "daemon", owner |-> None, state |-> "stopped",
                          secret |-> TRUE]
    <3>1. served \in Records /\ halted \in Records
      <4>1. TRUE \in BOOLEAN
        OBVIOUS
      <4> QED BY <4>1 DEF Records
    <3>2. record \in {None, served, halted}
      BY DEF Init
    <3> QED BY <3>1, <3>2
  <2>2. cmd \in [Procs -> Commands \cup {None}] /\ copy \in [Procs -> Records \cup {None}]
    BY DEF Init
  <2>3. pc \in [Procs -> PCs]
    BY DEF Init, PCs
  <2>4. lock \in Procs \cup {None} /\ remote \in {"none", "running", "paused"}
    BY DEF Init
  <2>5. worker \in BOOLEAN
    BY DEF Init
  <2> QED BY <2>1, <2>2, <2>3, <2>4, <2>5 DEF TypeOK
<1>2. OneExpose /\ OwnerExposed(record)
  BY LifecycleAssumption, RecordAssumption
  DEF Init, OneExpose, OwnerExposed, Exposes, AllCommands, Records
<1>3. ASSUME NEW p \in Procs PROVE At(p)
  BY LifecycleAssumption
  DEF Init, At, Started, Place, LockHeld, NotSaved, Recorded, CloudGone,
      InHand, OwnerExposed, Orphan, LockedPCs, StartPCs, ExposePCs
<1> QED BY <1>1, <1>2, <1>3 DEF IInv

\* Steps of p that stay within Effects leave the others where they may be.
LEMMA Combine ==
  ASSUME IInv, NEW p \in Procs, Effects(p), At(p)'
  PROVE  IInv'
<1>t. TypeOK
  BY DEF IInv
<1>1. TypeOK'
  BY <1>t DEF Effects, TypeOK
<1>2. OneExpose' /\ OwnerExposed(record)'
  BY DEF IInv, OneExpose, Effects, OwnerExposed
<1>3. ASSUME NEW q \in Procs, q # p
      PROVE  At(q)'
  <2>1. /\ At(q) /\ At(p)
        /\ pc'[q] = pc[q] /\ copy'[q] = copy[q] /\ cmd' = cmd
    BY <1>3, <1>t DEF IInv, Effects, TypeOK
  <2>2. Started(q)' /\ Place(q)' /\ InHand(q)' /\ OwnerExposed(copy[q])'
    BY <2>1 DEF At, Started, Place, InHand, OwnerExposed
  <2>3. LockHeld(q)'
    BY <1>3, <2>1, LifecycleAssumption DEF At, LockHeld, Effects
  <2>4. NotSaved(q)'
    <3>1. pc[p] = "save" /\ pc[q] \in {"provision", "save"} => p = q
      BY <2>1 DEF IInv, OneExpose, At, Place, ExposePCs
    <3> QED BY <1>3, <2>1, <3>1 DEF At, NotSaved, Effects
  <2>5. Recorded(q)'
    <3>1. pc[p] = "delete" => lock = p
      BY <2>1 DEF At, LockHeld, LockedPCs
    <3>2. pc[q] \in LockedPCs \/ (pc[q] = "await" /\ cmd[q] = "start") => lock = q
      BY <2>1 DEF At, LockHeld
    <3> QED BY <1>3, <2>1, <3>1, <3>2 DEF At, Recorded, Effects
  <2>6. CloudGone(q)'
    <3>1. CASE pc[p] = "provision" /\ pc[q] = "delete"
      <4>1. cmd[p] \in Exposes /\ record = None
        BY <2>1, <3>1 DEF At, Place, ExposePCs, NotSaved
      <4>2. cmd[q] \notin Exposes
        BY <1>3, <4>1 DEF IInv, OneExpose
      <4>3. record # None
        BY <2>1, <3>1, <4>2 DEF At, Recorded, LockedPCs
      <4> QED BY <4>1, <4>3
    <3>2. CASE ~(pc[p] = "provision" /\ pc[q] = "delete")
      BY <2>1, <3>2 DEF At, CloudGone, Effects
    <3> QED BY <3>1, <3>2
  <2>7. Orphan(q)'
    <3>1. \A r \in Procs : ~Running(r) /\ r # p => ~Running(r)'
      BY <1>t DEF Running, Effects, TypeOK
    <3>2. Running(p)
      BY DEF Running, Effects
    <3> QED BY <2>1, <3>1, <3>2 DEF At, Orphan
  <2> QED BY <2>2, <2>3, <2>4, <2>5, <2>6, <2>7 DEF At
<1> QED BY <1>1, <1>2, <1>3 DEF IInv
-----------------------------------------------------------------------------
\* The end of a command, wherever it was.
LEMMA EndKeeps ==
  ASSUME IInv, NEW p \in Procs, NEW from \in PCs \ (Ends \cup {"new"}), NEW end \in Ends,
         End(p, from, end)
  PROVE  /\ pc[p] = from /\ pc[p] \notin Ends \cup {"new"}
         /\ \E l \in PCs : pc' = [pc EXCEPT ![p] = l]
         /\ \E rec \in Records \cup {None} : copy' = [copy EXCEPT ![p] = rec]
         /\ UNCHANGED cmd /\ worker' \in BOOLEAN
         /\ lock' = lock \/ (lock = p /\ lock' = None)
         /\ At(p)'
<1>t. TypeOK
  BY DEF IInv
<1>1. pc'[p] = end /\ copy'[p] = None /\ cmd' = cmd
  BY <1>t DEF End, Goto, TypeOK
<1>2. At(p)'
  BY <1>1 DEF Ends, At, Started, Place, LockHeld, NotSaved, Recorded, CloudGone,
     InHand, OwnerExposed, Orphan, LockedPCs, StartPCs, ExposePCs
<1> QED BY <1>2, <1>t DEF End, Goto, PCs, TypeOK

\* ... where it writes nothing.
LEMMA QuietEnd ==
  ASSUME IInv, NEW p \in Procs, NEW from \in PCs \ (Ends \cup {"new"}), NEW end \in Ends,
         End(p, from, end), UNCHANGED <<record, remote>>
  PROVE  Effects(p) /\ At(p)'
BY EndKeeps DEF Effects, IInv, TypeOK

LEMMA LockSteps ==
  ASSUME IInv, NEW p \in Procs, Acquire(p) \/ LockTimesOut(p)
  PROVE  Effects(p) /\ At(p)'
<1>t. TypeOK /\ OwnerExposed(record) /\ At(p)
  BY DEF IInv
<1>1. CASE Acquire(p)
  <2>1. /\ pc[p] \in Waiting /\ cmd' = cmd /\ copy' = copy /\ lock' = p
        /\ pc'[p] = (CASE pc[p] = "lock" -> "find" [] pc[p] = "rollback" -> "spare"
                       [] pc[p] = "exit" -> "own")
    BY <1>1, <1>t DEF Acquire, Goto, TypeOK
  <2>2. At(p)'
    BY <1>t, <2>1 DEF Waiting, At, Started, Place, LockHeld, NotSaved, Recorded,
       CloudGone, InHand, OwnerExposed, Orphan, LockedPCs, StartPCs, ExposePCs
  <2>3. Effects(p)
    <3>1. \E l \in PCs : pc' = [pc EXCEPT ![p] = l]
      BY <1>1 DEF Acquire, Goto, Waiting, PCs
    <3>2. copy' = [copy EXCEPT ![p] = copy[p]] /\ copy[p] \in Records \cup {None}
      BY <1>t, <2>1 DEF TypeOK
    <3> QED BY <1>1, <1>t, <3>1, <3>2 DEF Acquire, Waiting, Ends, Effects, TypeOK
  <2> QED BY <2>2, <2>3
<1>2. CASE LockTimesOut(p)
  <2>1. pc'[p] = "failed" /\ copy'[p] = None /\ cmd' = cmd
    BY <1>2, <1>t DEF LockTimesOut, Goto, TypeOK
  <2>2. At(p)'
    BY <2>1 DEF Ends, At, Started, Place, LockHeld, NotSaved, Recorded, CloudGone,
       InHand, OwnerExposed, Orphan, LockedPCs, StartPCs, ExposePCs
  <2> QED BY <1>2, <1>t, <2>2 DEF LockTimesOut, Goto, Waiting, PCs, Ends, Effects, TypeOK
<1> QED BY <1>1, <1>2

LEMMA FindSteps ==
  ASSUME IInv, NEW p \in Procs, Find(p) \/ FindEnds(p)
  PROVE  Effects(p) /\ At(p)'
<1>t. TypeOK /\ OneExpose /\ OwnerExposed(record) /\ At(p)
  BY DEF IInv
<1>1. CASE Find(p)
  <2>1. /\ pc[p] = "find" /\ record # None /\ record \in Records /\ record' = record
        /\ cmd' = cmd /\ lock' = lock /\ copy'[p] = record
        /\ pc'[p] = Chosen(cmd[p], record)
    BY <1>1, <1>t DEF Find, Move, Goto, TypeOK
  <2>2. cmd[p] \in {"stop", "start", "cleanup", "remove", "recover"}
    BY <1>t, <2>1 DEF At, Place
  <2>3. Chosen(cmd[p], record) \notin Ends
    BY <1>1 DEF Find
  <2>4. /\ pc'[p] \in {"halt", "resume", "clean"}
        /\ pc'[p] = "resume" => cmd[p] = "start"
        /\ cmd[p] = "recover" => pc'[p] = "clean" /\ NeedsRecovery(record)
    BY <2>1, <2>2, <2>3 DEF Chosen, Ends
  <2>5. NeedsRecovery(record) => \A q \in Procs : cmd'[q] \in Exposes => ~Running(q)
    BY <1>t, <2>1 DEF NeedsRecovery, OneExpose, OwnerExposed
  <2>6. NeedsRecovery(record) /\ pc'[p] = "clean"
        => \A q \in Procs : cmd'[q] \in Exposes => ~Running(q)'
    <3>1. p \in Procs /\ cmd[p] \notin Exposes
      BY <2>2 DEF Exposes
    <3>2. \A q \in Procs : q # p => pc'[q] = pc[q]
      BY <1>1, <1>t DEF Find, Move, Goto, TypeOK
    <3> QED BY <2>1, <2>5, <3>1, <3>2 DEF Running
  <2>7. Orphan(p)' /\ OwnerExposed(copy[p])' /\ InHand(p)' /\ Recorded(p)' /\ LockHeld(p)'
    BY <1>t, <2>1, <2>2, <2>4, <2>6
    DEF Orphan, NeedsRecovery, OwnerExposed, InHand, Recorded, LockHeld, At, LockedPCs
  <2>8. At(p)'
    BY <2>1, <2>4, <2>7 DEF At, Started, Place, NotSaved, CloudGone, StartPCs, ExposePCs
  <2>9. Effects(p)
    BY <1>1, <1>t, <2>1, <2>4 DEF Find, Move, Goto, Effects, TypeOK, PCs, Ends
  <2> QED BY <2>8, <2>9
<1>2. CASE FindEnds(p)
  <2>1. PICK end \in Ends : End(p, "find", end)
    BY <1>2 DEF FindEnds, Ends
  <2>2. "find" \in PCs \ (Ends \cup {"new"})
    BY DEF PCs, Ends
  <2> QED BY <1>2, <2>1, <2>2, QuietEnd DEF FindEnds
<1> QED BY <1>1, <1>2

\* A move of p that keeps its copy.
LEMMA Moves ==
  ASSUME IInv, NEW p \in Procs, NEW from \in PCs \ (Ends \cup {"new"}), NEW to \in PCs,
         Move(p, from, to), UNCHANGED copy,
         record' \in Records \cup {None}, OwnerExposed(record'),
         record = None <=> record' = None,
         remote' \in {"none", "running", "paused"},
         remote = "none" /\ remote' # "none" => from = "provision"
  PROVE  /\ pc[p] = from /\ pc'[p] = to /\ UNCHANGED <<lock, cmd, copy>>
         /\ TypeOK /\ OwnerExposed(record) /\ At(p)
         /\ Effects(p)
<1>1. TypeOK /\ OwnerExposed(record) /\ At(p)
  BY DEF IInv
<1>2. pc[p] = from /\ pc'[p] = to /\ UNCHANGED <<lock, cmd, copy>>
  BY <1>1 DEF Move, Goto, TypeOK
<1>3. copy' = [copy EXCEPT ![p] = copy[p]] /\ copy[p] \in Records \cup {None}
  BY <1>1, <1>2 DEF TypeOK
<1> QED BY <1>1, <1>2, <1>3 DEF Move, Goto, TypeOK, Effects

\* Writing a record, as Put does.
LEMMA PutWrites ==
  ASSUME IInv, NEW rec \in Records, rec.mode # "foreground" \/ OwnerExposed(rec), Put(rec),
         UNCHANGED remote
  PROVE  /\ record' \in Records \cup {None} /\ OwnerExposed(record')
         /\ record # None /\ record' # None
         /\ remote' \in {"none", "running", "paused"}
<1>1. record \in Records /\ OwnerExposed(record)
  BY DEF IInv, TypeOK, Put
<1>2. OwnerExposed(rec)
  BY DEF OwnerExposed
<1> QED BY <1>1, <1>2, RecordAssumption DEF IInv, TypeOK, Put, Records, OwnerExposed

LEMMA StopSteps ==
  ASSUME IInv, NEW p \in Procs, Stop(p)
  PROVE  Effects(p) /\ At(p)'
<1>t. TypeOK /\ OwnerExposed(record) /\ At(p)
  BY DEF IInv
<1>l. /\ {"halt", "pause", "restore"} \subseteq PCs \ (Ends \cup {"new"})
      /\ {"done", "failed", "unsure"} \subseteq Ends
  BY DEF PCs, Ends
<1>c. copy[p] \in Records \cup {None} /\ OwnerExposed(copy[p])
  BY <1>t DEF TypeOK, At
<1>1. CASE Halt(p)
  <2>1. copy[p] \in Records
    BY <1>t, <1>1, <1>c DEF Halt, Move, At, InHand
  <2>2. Stopped(copy[p]) \in Records /\ OwnerExposed(Stopped(copy[p]))
    BY <2>1 DEF Stopped, Records, OwnerExposed
  <2>3. Effects(p) /\ pc[p] = "halt" /\ pc'[p] = "pause" /\ UNCHANGED <<lock, cmd, copy>>
        /\ record' # None
    BY <1>1, <1>l, <2>2, PutWrites, Moves DEF Halt
  <2>4. At(p)'
    BY <1>t, <2>3 DEF At, Started, Place, LockHeld, NotSaved, Recorded, CloudGone,
       InHand, OwnerExposed, Orphan, LockedPCs, StartPCs, ExposePCs
  <2> QED BY <2>3, <2>4
<1>2. CASE PauseFails(p)
  <2>1. Effects(p) /\ pc[p] = "pause" /\ pc'[p] = "restore" /\ UNCHANGED <<lock, cmd, copy>>
        /\ record' = record
    BY <1>t, <1>2, <1>l, Moves DEF PauseFails, MayBecome, TypeOK
  <2>2. At(p)'
    BY <1>t, <2>1 DEF At, Started, Place, LockHeld, NotSaved, Recorded, CloudGone,
       InHand, OwnerExposed, Orphan, LockedPCs, StartPCs, ExposePCs
  <2> QED BY <2>1, <2>2
<1>3. CASE Restore(p)
  <2>1. copy[p] \in Records
    BY <1>t, <1>3, <1>c DEF Restore, End, At, InHand
  <2>2. record' \in Records \cup {None} /\ OwnerExposed(record') /\ record' # None
        /\ record # None /\ remote' = remote
    BY <1>3, <1>c, <2>1, PutWrites DEF Restore
  <2> QED BY <1>3, <1>l, <1>t, <2>2, EndKeeps DEF Restore, Effects, TypeOK
<1>4. CASE Pause(p)
  BY <1>4, <1>l, <1>t, EndKeeps DEF Pause, Effects, TypeOK
<1>5. CASE WriteFails(p, "halt", "failed") \/ WriteFails(p, "restore", "unsure")
  BY <1>5, <1>l, QuietEnd DEF WriteFails
<1> QED BY <1>1, <1>2, <1>3, <1>4, <1>5 DEF Stop

\* What reopening, stopping or marking a record in hand gives.
LEMMA Rewritten ==
  ASSUME NEW rec \in Records, NEW s \in {"pending", "connected", "error", "stopped"}
  PROVE  /\ Reopened(rec) \in Records /\ Reopened(rec).mode = "daemon"
         /\ [Reopened(rec) EXCEPT !.state = s] \in Records
         /\ [Reopened(rec) EXCEPT !.state = s].mode = "daemon"
BY DEF Reopened, Records

LEMMA StartSteps ==
  ASSUME IInv, NEW p \in Procs, Start(p)
  PROVE  Effects(p) /\ At(p)'
<1>t. TypeOK /\ OwnerExposed(record) /\ At(p)
  BY DEF IInv
<1>l. /\ {"resume", "reopen", "await", "undo", "unwind", "giveup"}
         \subseteq PCs \ (Ends \cup {"new"})
      /\ {"done", "failed", "unsure"} \subseteq Ends
  BY DEF PCs, Ends
<1>c. pc[p] \in {"reopen", "unwind", "giveup"} => copy[p] \in Records
  BY <1>t DEF TypeOK, At, InHand
<1>1. CASE Resume(p)
  <2>1. Effects(p) /\ pc[p] = "resume" /\ pc'[p] = "reopen" /\ UNCHANGED <<lock, cmd, copy>>
        /\ record' = record
    BY <1>t, <1>1, <1>l, Moves DEF Resume, TypeOK
  <2>2. At(p)'
    BY <1>t, <2>1 DEF At, Started, Place, LockHeld, NotSaved, Recorded, CloudGone,
       InHand, OwnerExposed, Orphan, LockedPCs, StartPCs, ExposePCs
  <2> QED BY <2>1, <2>2
<1>2. CASE ResumeFails(p)
  BY <1>2, <1>l, <1>t, EndKeeps DEF ResumeFails, Effects, TypeOK
<1>3. CASE Reopen(p)
  <2>0. Reopened(copy[p]) \in Records /\ Reopened(copy[p]).mode = "daemon"
    BY <1>3, <1>c, Rewritten DEF Reopen, Move
  <2>1. Effects(p) /\ pc[p] = "reopen" /\ pc'[p] = "await" /\ UNCHANGED <<lock, cmd, copy>>
        /\ record' # None
    BY <1>3, <1>l, <2>0, PutWrites, Moves DEF Reopen
  <2>2. At(p)'
    BY <1>t, <2>1 DEF At, Started, Place, LockHeld, NotSaved, Recorded, CloudGone,
       InHand, OwnerExposed, Orphan, LockedPCs, StartPCs, ExposePCs
  <2> QED BY <2>1, <2>2
<1>4. CASE ReopenFails(p)
  <2>1. Effects(p) /\ pc[p] = "reopen" /\ pc'[p] = "undo" /\ UNCHANGED <<lock, cmd, copy>>
        /\ record' = record
    BY <1>t, <1>4, <1>l, Moves DEF ReopenFails, TypeOK
  <2>2. At(p)'
    BY <1>t, <2>1 DEF At, Started, Place, LockHeld, NotSaved, Recorded, CloudGone,
       InHand, OwnerExposed, Orphan, LockedPCs, StartPCs, ExposePCs
  <2> QED BY <2>1, <2>2
<1>5. CASE Undo(p)
  <2>1. Effects(p) /\ pc[p] = "undo" /\ pc'[p] = "unwind" /\ UNCHANGED <<lock, cmd, copy>>
        /\ record' = record
    BY <1>t, <1>5, <1>l, Moves DEF Undo, TypeOK
  <2>2. At(p)'
    BY <1>t, <2>1 DEF At, Started, Place, LockHeld, NotSaved, Recorded, CloudGone,
       InHand, OwnerExposed, Orphan, LockedPCs, StartPCs, ExposePCs
  <2> QED BY <2>1, <2>2
<1>6. CASE UndoFails(p)
  <2>1. Effects(p) /\ pc[p] = "undo" /\ pc'[p] = "giveup" /\ UNCHANGED <<lock, cmd, copy>>
        /\ record' = record
    BY <1>t, <1>6, <1>l, Moves DEF UndoFails, MayBecome, TypeOK
  <2>2. At(p)'
    BY <1>t, <2>1 DEF At, Started, Place, LockHeld, NotSaved, Recorded, CloudGone,
       InHand, OwnerExposed, Orphan, LockedPCs, StartPCs, ExposePCs
  <2> QED BY <2>1, <2>2
<1>7. CASE Unwind(p)
  <2>1. record' \in Records \cup {None} /\ OwnerExposed(record') /\ record' # None
        /\ record # None /\ remote' = remote
    BY <1>7, <1>c, Rewritten, PutWrites DEF Unwind, End
  <2> QED BY <1>7, <1>l, <1>t, <2>1, EndKeeps DEF Unwind, Effects, TypeOK
<1>8. CASE GiveUp(p)
  <2>1. record' \in Records \cup {None} /\ OwnerExposed(record') /\ record' # None
        /\ record # None /\ remote' = remote
    BY <1>8, <1>c, Rewritten, PutWrites DEF GiveUp, End
  <2> QED BY <1>8, <1>l, <1>t, <2>1, EndKeeps DEF GiveUp, Effects, TypeOK
<1>9. CASE WriteFails(p, "unwind", "failed") \/ WriteFails(p, "giveup", "unsure")
  BY <1>9, <1>l, QuietEnd DEF WriteFails
<1> QED BY <1>1, <1>2, <1>3, <1>4, <1>5, <1>6, <1>7, <1>8, <1>9 DEF Start

LEMMA AwaitSteps ==
  ASSUME IInv, NEW p \in Procs, Await(p) \/ AwaitFails(p)
  PROVE  Effects(p) /\ At(p)'
<1>t. TypeOK /\ OwnerExposed(record) /\ At(p)
  BY DEF IInv
<1>l. {"await", "undo", "rollback"} \subseteq PCs \ (Ends \cup {"new"}) /\ "done" \in Ends
  BY DEF PCs, Ends
<1>1. CASE Await(p)
  BY <1>1, <1>l, QuietEnd DEF Await
<1>2. CASE AwaitFails(p)
  <2>1. /\ Effects(p) /\ pc[p] = "await" /\ UNCHANGED <<lock, cmd, copy, record>>
        /\ pc'[p] = IF cmd[p] = "start" THEN "undo" ELSE "rollback"
    BY <1>t, <1>2, <1>l, Moves DEF AwaitFails, TypeOK
  <2>2. At(p)'
    BY <1>t, <2>1 DEF At, Started, Place, LockHeld, NotSaved, Recorded, CloudGone,
       InHand, OwnerExposed, Orphan, LockedPCs, StartPCs, ExposePCs
  <2> QED BY <2>1, <2>2
<1> QED BY <1>1, <1>2

LEMMA ExposeSteps ==
  ASSUME IInv, NEW p \in Procs, Expose(p)
  PROVE  Effects(p) /\ At(p)'
<1>t. TypeOK /\ OwnerExposed(record) /\ At(p)
  BY DEF IInv
<1>l. /\ ExposePCs \cup {"mark", "await", "clean"} \subseteq PCs \ (Ends \cup {"new"})
      /\ ExposePCs = {"provision", "save", "ready", "handoff", "dial", "connected", "mark",
                      "serve", "rollback", "exit", "own", "spare"}
      /\ {"done", "failed"} \subseteq Ends
  BY DEF PCs, Ends, ExposePCs
<1>c. pc[p] \in {"handoff", "mark"} => copy[p] \in Records
  BY <1>t DEF TypeOK, At, InHand
<1>1. CASE Provision(p)
  <2>1. Effects(p) /\ pc[p] = "provision" /\ pc'[p] = "save" /\ UNCHANGED <<lock, cmd, copy>>
        /\ record' = record
    BY <1>t, <1>1, <1>l, Moves DEF Provision, TypeOK
  <2>2. At(p)'
    BY <1>t, <2>1 DEF At, Started, Place, LockHeld, NotSaved, Recorded, CloudGone,
       InHand, OwnerExposed, Orphan, Exposes, LockedPCs, StartPCs, ExposePCs
  <2> QED BY <2>1, <2>2
<1>2. CASE ProvisionFails(p)
  BY <1>2, <1>l, <1>t, EndKeeps DEF ProvisionFails, Effects, TypeOK
<1>3. CASE Save(p)
  <2>1. /\ pc[p] = "save" /\ pc'[p] = "ready" /\ record' = New(p) /\ copy'[p] = New(p)
        /\ UNCHANGED <<lock, cmd, remote>>
    BY <1>t, <1>3 DEF Save, Move, Goto, TypeOK
  <2>2. New(p) \in Records /\ New(p) # None /\ cmd[p] \in Exposes
    <3>1. TRUE \in BOOLEAN
      OBVIOUS
    <3>2. New(p) \in Records
      BY <3>1 DEF New, Records
    <3> QED BY <1>t, <2>1, <3>2, RecordAssumption DEF At, Place, ExposePCs
  <2>3. OwnerExposed(New(p))
    BY <2>2 DEF OwnerExposed, New
  <2>4. Effects(p)
    BY <1>t, <1>3, <1>l, <2>1, <2>2, <2>3 DEF Save, Move, Goto, Effects, TypeOK
  <2>5. OwnerExposed(copy[p])'
    BY <2>1, <2>2 DEF OwnerExposed, New
  <2>6. At(p)'
    BY <1>t, <2>1, <2>2, <2>5 DEF At, Started, Place, LockHeld, NotSaved, Recorded,
       CloudGone, InHand, Orphan, LockedPCs, StartPCs, ExposePCs
  <2> QED BY <2>4, <2>6
<1>4. CASE SaveFails(p)
  <2>1. Effects(p) /\ pc[p] = "save" /\ pc'[p] = "rollback" /\ UNCHANGED <<lock, cmd, copy>>
        /\ record' = record
    BY <1>t, <1>4, <1>l, Moves DEF SaveFails, TypeOK
  <2>2. At(p)'
    BY <1>t, <2>1 DEF At, Started, Place, LockHeld, NotSaved, Recorded, CloudGone,
       InHand, OwnerExposed, Orphan, Exposes, LockedPCs, StartPCs, ExposePCs
  <2> QED BY <2>1, <2>2
<1>6. CASE ReadyFails(p)
  <2>1. Effects(p) /\ pc[p] = "ready" /\ pc'[p] = "rollback" /\ UNCHANGED <<lock, cmd, copy>>
        /\ record' = record
    BY <1>t, <1>6, <1>l, Moves DEF ReadyFails, TypeOK
  <2>2. At(p)'
    BY <1>t, <2>1 DEF At, Started, Place, LockHeld, NotSaved, Recorded, CloudGone,
       InHand, OwnerExposed, Orphan, Exposes, LockedPCs, StartPCs, ExposePCs
  <2> QED BY <2>1, <2>2
<1>5. CASE Ready(p)
  <2>1. /\ Effects(p) /\ pc[p] = "ready" /\ UNCHANGED <<lock, cmd, copy, record>>
        /\ pc'[p] = IF cmd[p] = "foreground" THEN "dial" ELSE "handoff"
    BY <1>t, <1>5, <1>l, Moves DEF Ready, TypeOK
  <2>2. At(p)'
    BY <1>t, <2>1 DEF At, Started, Place, LockHeld, NotSaved, Recorded, CloudGone,
       InHand, OwnerExposed, Orphan, Exposes, LockedPCs, StartPCs, ExposePCs
  <2> QED BY <2>1, <2>2
<1>7. CASE Handoff(p)
  <2>0. Reopened(copy[p]) \in Records /\ Reopened(copy[p]).mode = "daemon"
    BY <1>7, <1>c, Rewritten DEF Handoff, Move
  <2>1. Effects(p) /\ pc[p] = "handoff" /\ pc'[p] = "await" /\ UNCHANGED <<lock, cmd, copy>>
        /\ record' # None
    BY <1>7, <1>l, <2>0, PutWrites, Moves DEF Handoff
  <2>2. At(p)'
    BY <1>t, <2>1 DEF At, Started, Place, LockHeld, NotSaved, Recorded, CloudGone,
       InHand, OwnerExposed, Orphan, Exposes, LockedPCs, StartPCs, ExposePCs
  <2> QED BY <2>1, <2>2
<1>8. CASE HandoffFails(p)
  <2>1. Effects(p) /\ pc[p] = "handoff" /\ pc'[p] = "rollback" /\ UNCHANGED <<lock, cmd, copy>>
        /\ record' = record
    BY <1>t, <1>8, <1>l, Moves DEF HandoffFails, TypeOK
  <2>2. At(p)'
    BY <1>t, <2>1 DEF At, Started, Place, LockHeld, NotSaved, Recorded, CloudGone,
       InHand, OwnerExposed, Orphan, Exposes, LockedPCs, StartPCs, ExposePCs
  <2> QED BY <2>1, <2>2
<1>9. CASE Dial(p)
  <2>1. Effects(p) /\ pc[p] = "dial" /\ pc'[p] = "connected" /\ UNCHANGED <<lock, cmd, copy>>
        /\ record' = record
    BY <1>t, <1>9, <1>l, Moves DEF Dial, TypeOK
  <2>2. At(p)'
    BY <1>t, <2>1 DEF At, Started, Place, LockHeld, NotSaved, Recorded, CloudGone,
       InHand, OwnerExposed, Orphan, Exposes, LockedPCs, StartPCs, ExposePCs
  <2> QED BY <2>1, <2>2
<1>10. CASE DialFails(p)
  <2>1. Effects(p) /\ pc[p] = "dial" /\ pc'[p] = "exit" /\ UNCHANGED <<lock, cmd, copy>>
        /\ record' = record
    BY <1>t, <1>10, <1>l, Moves DEF DialFails, TypeOK
  <2>2. At(p)'
    BY <1>t, <2>1 DEF At, Started, Place, LockHeld, NotSaved, Recorded, CloudGone,
       InHand, OwnerExposed, Orphan, Exposes, LockedPCs, StartPCs, ExposePCs
  <2> QED BY <2>1, <2>2
<1>11. CASE OnConnected(p)
  <2>1. /\ pc[p] = "connected" /\ pc'[p] = "mark" /\ copy'[p] = record
        /\ record \in Records /\ record.state # "stopped"
        /\ UNCHANGED <<lock, cmd, record, remote>>
    BY <1>t, <1>11 DEF OnConnected, Move, Goto, IsStopped, TypeOK
  <2>2. Effects(p)
    BY <1>t, <1>11, <1>l, <2>1 DEF OnConnected, Move, Goto, Effects, TypeOK
  <2>3. At(p)'
    BY <1>t, <2>1, RecordAssumption DEF At, Started, Place, LockHeld, NotSaved, Recorded,
       CloudGone, InHand, OwnerExposed, Orphan, LockedPCs, StartPCs, ExposePCs
  <2> QED BY <2>2, <2>3
<1>12. CASE OnConnectedEnds(p)
  <2>1. Effects(p) /\ pc[p] = "connected" /\ pc'[p] = "serve" /\ UNCHANGED <<lock, cmd, copy>>
        /\ record' = record
    BY <1>t, <1>12, <1>l, Moves DEF OnConnectedEnds, TypeOK
  <2>2. At(p)'
    BY <1>t, <2>1 DEF At, Started, Place, LockHeld, NotSaved, Recorded, CloudGone,
       InHand, OwnerExposed, Orphan, Exposes, LockedPCs, StartPCs, ExposePCs
  <2> QED BY <2>1, <2>2
<1>13. CASE Mark(p)
  <2>0. /\ [copy[p] EXCEPT !.state = "connected"] \in Records
        /\ OwnerExposed([copy[p] EXCEPT !.state = "connected"])
    BY <1>t, <1>13, <1>c DEF Mark, Move, Records, OwnerExposed, At, InHand
  <2>1. Effects(p) /\ pc[p] = "mark" /\ pc'[p] = "serve" /\ UNCHANGED <<lock, cmd, copy>>
        /\ record' # None
    BY <1>13, <1>l, <2>0, PutWrites, Moves DEF Mark
  <2>2. At(p)'
    BY <1>t, <2>1 DEF At, Started, Place, LockHeld, NotSaved, Recorded, CloudGone,
       InHand, OwnerExposed, Orphan, Exposes, LockedPCs, StartPCs, ExposePCs
  <2> QED BY <2>1, <2>2
<1>14. CASE MarkFails(p)
  <2>1. Effects(p) /\ pc[p] = "mark" /\ pc'[p] = "serve" /\ UNCHANGED <<lock, cmd, copy>>
        /\ record' = record
    BY <1>t, <1>14, <1>l, Moves DEF MarkFails, TypeOK
  <2>2. At(p)'
    BY <1>t, <2>1 DEF At, Started, Place, LockHeld, NotSaved, Recorded, CloudGone,
       InHand, OwnerExposed, Orphan, Exposes, LockedPCs, StartPCs, ExposePCs
  <2> QED BY <2>1, <2>2
<1>15. CASE Own(p)
  <2>1. Effects(p) /\ pc[p] = "own" /\ pc'[p] = "spare" /\ UNCHANGED <<lock, cmd, copy>>
        /\ record' = record
    BY <1>t, <1>15, <1>l, Moves DEF Own, TypeOK
  <2>2. At(p)'
    BY <1>t, <2>1 DEF At, Started, Place, LockHeld, NotSaved, Recorded, CloudGone,
       InHand, OwnerExposed, Orphan, Exposes, LockedPCs, StartPCs, ExposePCs
  <2> QED BY <2>1, <2>2
<1>16. CASE OwnNot(p) \/ Spare(p)
  BY <1>16, <1>l, QuietEnd DEF OwnNot, Spare
<1>17. CASE SpareNot(p)
  <2>1. Effects(p) /\ pc[p] = "spare" /\ pc'[p] = "clean" /\ UNCHANGED <<lock, cmd, copy>>
        /\ record' = record
    BY <1>t, <1>17, <1>l, Moves DEF SpareNot, TypeOK
  <2>2. At(p)'
    BY <1>t, <2>1 DEF At, Started, Place, LockHeld, NotSaved, Recorded, CloudGone,
       InHand, OwnerExposed, Orphan, Exposes, LockedPCs, StartPCs, ExposePCs
  <2> QED BY <2>1, <2>2
<1> QED BY <1>1, <1>2, <1>3, <1>4, <1>5, <1>6, <1>7, <1>8, <1>9,
           <1>10, <1>11, <1>12, <1>13, <1>14, <1>15, <1>16, <1>17 DEF Expose

LEMMA RemoveSteps ==
  ASSUME IInv, NEW p \in Procs, Remove(p)
  PROVE  Effects(p) /\ At(p)'
<1>t. TypeOK /\ OwnerExposed(record) /\ At(p)
  BY DEF IInv
<1>l. {"clean", "delete"} \subseteq PCs \ (Ends \cup {"new"}) /\ {"done", "failed"} \subseteq Ends
  BY DEF PCs, Ends
<1>1. CASE Clean(p)
  <2>1. /\ Effects(p) /\ pc[p] = "clean" /\ pc'[p] = "delete" /\ remote' = "none"
        /\ UNCHANGED <<lock, cmd, copy, record>>
    BY <1>t, <1>1, <1>l, Moves DEF Clean, TypeOK
  <2>2. At(p)'
    BY <1>t, <2>1 DEF At, Started, Place, LockHeld, NotSaved, Recorded, CloudGone,
       InHand, OwnerExposed, Orphan, Exposes, LockedPCs, StartPCs, ExposePCs
  <2> QED BY <2>1, <2>2
<1>2. CASE CleanFails(p)
  BY <1>2, <1>l, <1>t, EndKeeps DEF CleanFails, MayBecome, Effects, TypeOK
<1>3. CASE Delete(p)
  <2>1. OwnerExposed(record') /\ pc[p] = "delete"
    BY <1>3 DEF Delete, End, OwnerExposed
  <2> QED BY <1>3, <1>l, <1>t, <2>1, EndKeeps DEF Delete, Effects, TypeOK
<1>4. CASE WriteFails(p, "delete", "failed")
  BY <1>4, <1>l, QuietEnd DEF WriteFails
<1> QED BY <1>1, <1>2, <1>3, <1>4 DEF Remove

LEMMA LogoutSteps ==
  ASSUME IInv, NEW p \in Procs, Logout(p)
  PROVE  Effects(p) /\ At(p)'
<1>t. TypeOK /\ OwnerExposed(record) /\ At(p)
  BY DEF IInv
<1>l. {"quit", "wipe"} \subseteq PCs \ (Ends \cup {"new"}) /\ {"done", "failed"} \subseteq Ends
  BY DEF PCs, Ends
<1>1. CASE Quit(p)
  <2>1. /\ pc[p] = "quit" /\ pc'[p] = "wipe" /\ UNCHANGED <<record, remote, lock, cmd, copy>>
    BY <1>t, <1>1 DEF Quit, Goto, TypeOK
  <2>2. copy' = [copy EXCEPT ![p] = copy[p]] /\ copy[p] \in Records \cup {None}
    BY <1>t, <2>1 DEF TypeOK
  <2>3. worker' \in BOOLEAN
    BY <1>1 DEF Quit
  <2>4. Effects(p)
    BY <1>t, <1>1, <1>l, <2>1, <2>2, <2>3 DEF Quit, Goto, Effects, TypeOK
  <2>5. At(p)'
    BY <1>t, <2>1 DEF At, Started, Place, LockHeld, NotSaved, Recorded, CloudGone,
       InHand, OwnerExposed, Orphan, Exposes, LockedPCs, StartPCs, ExposePCs
  <2> QED BY <2>4, <2>5
<1>2. CASE Wipe(p)
  <2>1. record # None => [Stopped(record) EXCEPT !.secret = FALSE] \in Records
    <3>1. FALSE \in BOOLEAN
      OBVIOUS
    <3> QED BY <1>t, <3>1 DEF Stopped, Records, TypeOK
  <2>2. record' \in Records \cup {None} /\ (record = None <=> record' = None)
    BY <1>2, <2>1, RecordAssumption DEF Wipe
  <2>3. OwnerExposed(record')
    BY <1>t, <1>2, <2>1 DEF Wipe, OwnerExposed, Stopped, Records, TypeOK
  <2> QED BY <1>2, <1>l, <1>t, <2>2, <2>3, EndKeeps DEF Wipe, Effects, TypeOK
<1>3. CASE WriteFails(p, "quit", "failed") \/ WriteFails(p, "wipe", "failed")
  BY <1>3, <1>l, QuietEnd DEF WriteFails
<1> QED BY <1>1, <1>2, <1>3 DEF Logout

\* The end of a connection and the death of a process.
LEMMA OtherSteps ==
  ASSUME IInv, NEW p \in Procs, Disconnect(p) \/ Crash(p)
  PROVE  Effects(p) /\ At(p)'
<1>t. TypeOK /\ OwnerExposed(record) /\ At(p)
  BY DEF IInv
<1>l. {"serve", "exit"} \subseteq PCs \ (Ends \cup {"new"}) /\ "dead" \in Ends
  BY DEF PCs, Ends
<1>1. CASE Disconnect(p)
  <2>1. Effects(p) /\ pc[p] = "serve" /\ pc'[p] = "exit" /\ UNCHANGED <<lock, cmd, copy>>
        /\ record' = record
    BY <1>t, <1>1, <1>l, Moves DEF Disconnect, TypeOK
  <2>2. At(p)'
    BY <1>t, <2>1 DEF At, Started, Place, LockHeld, NotSaved, Recorded, CloudGone,
       InHand, OwnerExposed, Orphan, Exposes, LockedPCs, StartPCs, ExposePCs
  <2> QED BY <2>1, <2>2
<1>2. CASE Crash(p)
  <2>1. pc[p] \in PCs \ (Ends \cup {"new"})
    BY <1>t, <1>2 DEF Crash, Running, TypeOK
  <2> QED BY <1>2, <1>l, <2>1, QuietEnd DEF Crash
<1> QED BY <1>1, <1>2
-----------------------------------------------------------------------------
LEMMA BeginKeeps ==
  ASSUME IInv, NEW p \in Procs, NEW c \in Commands, Begin(p, c)
  PROVE  IInv'
<1>t. TypeOK /\ OneExpose /\ OwnerExposed(record) /\ At(p)
  BY DEF IInv
<1>1. /\ pc[p] = "new" /\ cmd[p] \notin Exposes
      /\ UNCHANGED <<record, remote, lock, worker, copy>>
      /\ pc'[p] = (CASE c \in Exposes -> "provision" [] c = "scrub" -> "quit"
                     [] OTHER -> "lock")
      /\ cmd'[p] = c
      /\ \A q \in Procs : q # p => pc'[q] = pc[q] /\ cmd'[q] = cmd[q]
  BY <1>t, LifecycleAssumption
  DEF Begin, Goto, TypeOK, At, Started, Exposes, AllCommands
<1>2. c \in Exposes => record = None /\ \A q \in Procs : cmd[q] \notin Exposes
  BY DEF Begin
<1>3. TypeOK'
  <2>1. cmd' \in [Procs -> Commands \cup {None}]
    BY <1>t DEF Begin, TypeOK
  <2>2. pc' \in [Procs -> PCs]
    <3>1. {"provision", "quit", "lock"} \subseteq PCs
      BY DEF PCs
    <3>2. (CASE c \in Exposes -> "provision" [] c = "scrub" -> "quit" [] OTHER -> "lock")
          \in PCs
      BY <3>1
    <3> QED BY <1>t, <3>2 DEF Begin, Goto, TypeOK
  <2> QED BY <1>t, <1>1, <2>1, <2>2 DEF TypeOK
<1>4. OneExpose'
  BY <1>t, <1>1, <1>2 DEF OneExpose
<1>5. ASSUME NEW rec, OwnerExposed(rec)
      PROVE  rec # None /\ rec.mode = "foreground" /\ rec.state # "stopped"
             => rec.owner \in Procs /\ cmd'[rec.owner] \in Exposes
  BY <1>5, <1>1 DEF OwnerExposed
<1>6. At(p)'
  <2>1. c \notin Exposes \cup {"scrub"}
        => c \in {"stop", "start", "cleanup", "remove", "recover"}
    BY LifecycleAssumption DEF Exposes, AllCommands
  <2>2. pc'[p] \in {"provision", "quit", "lock"} /\ (pc'[p] = "provision" => c \in Exposes)
        /\ (pc'[p] = "lock" => c \notin Exposes \cup {"scrub"})
    BY <1>1
  <2>3. OwnerExposed(copy[p])'
    BY <1>t, <1>1, <1>5 DEF At, OwnerExposed
  <2> QED BY <1>1, <1>2, <2>1, <2>2, <2>3 DEF At, Started, Place, LockHeld, NotSaved,
          Recorded, CloudGone, InHand, Orphan, LockedPCs, StartPCs, ExposePCs
<1>7. ASSUME NEW q \in Procs, q # p
      PROVE  At(q)'
  <2>1. At(q) /\ pc'[q] = pc[q] /\ cmd'[q] = cmd[q]
    BY <1>1, <1>7 DEF IInv
  <2>2. OwnerExposed(copy[q])'
    BY <2>1, <1>1, <1>5 DEF At, OwnerExposed
  <2>3. Orphan(q)'
    <3> SUFFICES ASSUME cmd[q] = "recover", pc[q] = "clean" PROVE Orphan(q)'
      BY <2>1 DEF Orphan
    <3>1. record # None
      BY <2>1 DEF At, Recorded, LockedPCs, Exposes
    <3>2. c \notin Exposes
      BY <3>1, <1>2
    <3> QED BY <2>1, <3>2, <1>1 DEF At, Orphan, Running
  <2> QED BY <1>1, <2>1, <2>2, <2>3 DEF At, Started, Place, LockHeld, NotSaved, Recorded,
          CloudGone, InHand
<1>8. OwnerExposed(record)'
  BY <1>t, <1>1, <1>5 DEF OwnerExposed
<1> QED BY <1>3, <1>4, <1>6, <1>7, <1>8 DEF IInv

\* The daemon reports on a record that stays in its hands.
LEMMA DaemonKeeps ==
  ASSUME IInv, Adopt \/ Retire \/ \E s \in {"pending", "connected", "error"} : Report(s)
  PROVE  IInv'
<1>t. TypeOK /\ OneExpose /\ OwnerExposed(record)
  BY DEF IInv
<1>1. UNCHANGED <<remote, lock, cmd, pc, copy>> /\ worker' \in BOOLEAN
  <2>1. CASE Adopt
    BY <2>1 DEF Adopt
  <2>2. CASE Retire
    BY <2>2 DEF Retire
  <2>3. CASE \E s \in {"pending", "connected", "error"} : Report(s)
    BY <2>3, <1>t DEF Report, TypeOK
  <2> QED BY <2>1, <2>2, <2>3
<1>2. record' \in Records \cup {None} /\ OwnerExposed(record') /\ (record = None <=> record' = None)
  <2>1. CASE Adopt \/ Retire
    BY <2>1, <1>t DEF Adopt, Retire, TypeOK
  <2>2. CASE \E s \in {"pending", "connected", "error"} : Report(s)
    <3>1. PICK s \in {"pending", "connected", "error"} : Report(s)
      BY <2>2
    <3> DEFINE new == [record EXCEPT !.mode = "daemon", !.owner = Daemon, !.state = s]
    <3>2. record \in Records /\ record' = new
      BY <1>t, <3>1 DEF Report, TypeOK
    <3>3. new \in Records /\ new.mode = "daemon"
      BY <3>2 DEF Records
    <3> QED BY <3>2, <3>3, RecordAssumption DEF OwnerExposed
  <2> QED BY <2>1, <2>2
<1>3. TypeOK' /\ OneExpose' /\ OwnerExposed(record)'
  BY <1>t, <1>1, <1>2 DEF TypeOK, OneExpose, OwnerExposed
<1>4. ASSUME NEW p \in Procs PROVE At(p)'
  BY <1>1, <1>2 DEF IInv, At, Started, Place, LockHeld, NotSaved, Recorded, CloudGone,
     InHand, OwnerExposed, Orphan, Running
<1> QED BY <1>3, <1>4 DEF IInv

LEMMA StepInv ==
  ASSUME IInv, [Next]_vars
  PROVE  IInv'
<1>1. CASE \E p \in Procs : \E c \in Commands : Begin(p, c)
  BY <1>1, BeginKeeps
<1>2. CASE \E p \in Procs : Step(p) \/ Disconnect(p) \/ Crash(p)
  <2>1. PICK p \in Procs : Step(p) \/ Disconnect(p) \/ Crash(p)
    BY <1>2
  <2>2. Effects(p) /\ At(p)'
    BY <2>1, LockSteps, FindSteps, StopSteps, StartSteps, AwaitSteps, ExposeSteps,
       RemoveSteps, LogoutSteps, OtherSteps DEF Step
  <2> QED BY <2>2, Combine
<1>3. CASE Adopt \/ Retire \/ \E s \in {"pending", "connected", "error"} : Report(s)
  BY <1>3, DaemonKeeps
<1>4. CASE UNCHANGED vars
  BY <1>4 DEF vars, IInv, TypeOK, OneExpose, OwnerExposed, At, Started, Place, LockHeld,
     NotSaved, Recorded, CloudGone, InHand, Orphan, Running
<1> QED BY <1>1, <1>2, <1>3, <1>4 DEF Next

\* The parts of the invariant hold in every reachable state, however many
\* processes run whatever commands.
THEOREM Invariance == Spec => []IInv
<1>1. Init => IInv
  BY InitInv
<1>2. IInv /\ [Next]_vars => IInv'
  BY StepInv
<1> QED BY <1>1, <1>2, PTL DEF Spec

\* Every variable keeps its type.
THEOREM TypeCorrect == Spec => []TypeOK
<1>1. IInv => TypeOK
  BY DEF IInv
<1> QED BY <1>1, Invariance, PTL

\* No command forgets a tunnel that exists in the cluster: the record goes only
\* after the resources have gone, whatever fails, dies or runs at once.
THEOREM RemovedLast == Spec => RecordRemovedLast
<1>1. IInv /\ [Next]_vars => [record # None /\ record' = None => remote = "none"]_vars
  <2> SUFFICES ASSUME IInv, Next, record # None, record' = None
               PROVE  remote = "none"
    OBVIOUS
  <2>1. PICK p \in Procs : Step(p) \/ Disconnect(p) \/ Crash(p)
    <3>1. ~(Adopt \/ Retire \/ \E s \in {"pending", "connected", "error"} : Report(s))
      BY RecordAssumption DEF Adopt, Retire, Report, IInv, TypeOK, Records
    <3>2. ASSUME NEW p \in Procs, NEW c \in Commands, Begin(p, c)
          PROVE  FALSE
      BY <3>2 DEF Begin
    <3> QED BY <3>1, <3>2 DEF Next
  <2>2. Effects(p)
    BY <2>1, LockSteps, FindSteps, StopSteps, StartSteps, AwaitSteps, ExposeSteps,
       RemoveSteps, LogoutSteps, OtherSteps DEF Step
  <2>3. pc[p] = "delete"
    BY <2>2 DEF Effects
  <2> QED BY <2>3 DEF IInv, At, CloudGone
<1> QED BY <1>1, Invariance, PTL DEF Spec, RecordRemovedLast

\* The recovery at the start of an expose never touches a tunnel while the process that
\* exposed it is running.
THEOREM RecoveryHolds == Spec => RecoverySpares
<1>1. IInv /\ [Next]_vars
      => [\A p, q \in Procs :
            cmd[p] = "recover" /\ pc[p] = "clean" /\ remote' # remote
            => ~(cmd[q] \in Exposes /\ Running(q))]_vars
  BY DEF IInv, At, Orphan
<1> QED BY <1>1, Invariance, PTL DEF Spec, RecoverySpares
-----------------------------------------------------------------------------
(* A tunnel that says it is stopped costs nothing. *)

\* How a step of p bears on that.
Course(p) ==
  /\ \A q \in Procs \ {p} : pc'[q] = pc[q] /\ copy'[q] = copy[q]
  /\ remote' = "running" => \/ remote = "running" \/ pc[p] = "provision"
                            \/ pc[p] = "resume" /\ Accounts(p)'
  /\ StoppedRecord(record') => \/ record' = record
                               \/ pc'[p] = "pause"
                               \/ pc[p] = "restore" /\ record' = copy[p]
                               \/ pc[p] = "unwind"
  /\ Accounts(p) => \/ Accounts(p)'
                    \/ remote' # "running"
                    \/ ~StoppedRecord(record')
                    \/ pc[p] = "restore" /\ record' = copy[p]
  /\ pc[p] \in {"unsure", "dead"} => pc'[p] = pc[p]
  /\ pc'[p] = "unwind" => remote' # "running"
  /\ pc[p] = "unwind" => remote' = remote
  /\ pc[p] = "provision" => record' = record
  /\ pc'[p] \in {"halt", "pause", "restore"} =>
       /\ remote' = "running" => remote = "running"
       /\ \/ pc[p] \in {"halt", "pause", "restore"} /\ copy'[p] = copy[p]
          \/ pc[p] = "find" /\ copy'[p] = record

\* It ends; a failure that writes nothing changes nothing.
LEMMA CourseEnd ==
  ASSUME TypeOK, NEW p \in Procs, NEW from, NEW end \in Ends, End(p, from, end)
  PROVE  /\ \A q \in Procs \ {p} : pc'[q] = pc[q] /\ copy'[q] = copy[q]
         /\ pc[p] = from /\ pc'[p] = end
         /\ pc'[p] \notin {"unwind", "halt", "pause", "restore"}
BY DEF End, Goto, TypeOK, Ends

LEMMA CourseMove ==
  ASSUME TypeOK, NEW p \in Procs, NEW from, NEW to, Move(p, from, to)
  PROVE  /\ \A q \in Procs \ {p} : pc'[q] = pc[q]
         /\ pc[p] = from /\ pc'[p] = to
BY DEF Move, Goto, TypeOK

\* A write that scrubbed credentials do not turn into another.
LEMMA CoursePut ==
  ASSUME TypeOK, NEW rec \in Records, Put(rec)
  PROVE  record' = rec \/ ~StoppedRecord(record')
BY DEF Put, StoppedRecord, Records, TypeOK

LEMMA CourseLock ==
  ASSUME IInv, NEW p \in Procs, Acquire(p) \/ LockTimesOut(p) \/ Find(p) \/ FindEnds(p)
  PROVE  Course(p)
<1>t. TypeOK
  BY DEF IInv
<1>1. CASE Acquire(p)
  BY <1>1, <1>t DEF Acquire, Waiting, Goto, TypeOK, Course, Accounts
<1>2. CASE LockTimesOut(p)
  BY <1>2, <1>t DEF LockTimesOut, Waiting, Goto, TypeOK, Course, Accounts
<1>3. CASE Find(p)
  <2>1. cmd[p] \in {"stop", "start", "cleanup", "remove", "recover"}
    BY <1>3 DEF Find, IInv, At, Place
  <2>2. Chosen(cmd[p], record) \in {"halt", "resume", "clean"}
    BY <1>3, <2>1 DEF Find, Chosen, Ends
  <2>3. /\ pc[p] = "find" /\ pc'[p] \in {"halt", "resume", "clean"} /\ copy'[p] = record
        /\ \A q \in Procs \ {p} : pc'[q] = pc[q] /\ copy'[q] = copy[q]
        /\ record' = record /\ remote' = remote
    BY <1>3, <1>t, <2>2 DEF Find, Move, Goto, TypeOK
  <2> QED BY <2>3 DEF Course, Accounts
<1>4. CASE FindEnds(p)
  <2>1. PICK end \in Ends : End(p, "find", end)
    BY <1>4 DEF FindEnds, Ends
  <2>2. record' = record /\ remote' = remote
    BY <1>4 DEF FindEnds
  <2> QED BY <1>t, <2>1, <2>2, CourseEnd DEF Course, Accounts
<1> QED BY <1>1, <1>2, <1>3, <1>4

LEMMA CourseStop ==
  ASSUME IInv, NEW p \in Procs, Stop(p)
  PROVE  Course(p)
<1>1. TypeOK /\ InHand(p) /\ copy[p] \in Records \cup {None}
      /\ {"done", "failed", "unsure"} \subseteq Ends
  BY DEF IInv, At, TypeOK, Ends
<1>2. CASE Halt(p)
  BY <1>1, <1>2, CourseMove DEF Halt, Course, Accounts
<1>3. CASE Pause(p)
  BY <1>1, <1>3, CourseEnd DEF Pause, Course, Accounts
<1>4. CASE PauseFails(p)
  BY <1>1, <1>4, CourseMove DEF PauseFails, MayBecome, Course, Accounts
<1>5. CASE Restore(p)
  <2>1. pc[p] = "restore" /\ copy[p] \in Records /\ remote' = remote
    BY <1>1, <1>5, CourseEnd DEF Restore, InHand
  <2>2. record' = copy[p] \/ ~StoppedRecord(record')
    BY <1>1, <1>5, <2>1, CoursePut DEF Restore
  <2> QED BY <1>1, <1>5, <2>1, <2>2, CourseEnd DEF Restore, Course, Accounts
<1>6. CASE WriteFails(p, "halt", "failed") \/ WriteFails(p, "restore", "unsure")
  BY <1>1, <1>6, CourseEnd DEF WriteFails, Course, Accounts
<1> QED BY <1>2, <1>3, <1>4, <1>5, <1>6 DEF Stop

LEMMA CourseStart ==
  ASSUME IInv, NEW p \in Procs, Start(p) \/ Await(p) \/ AwaitFails(p)
  PROVE  Course(p)
<1>1. TypeOK /\ InHand(p) /\ copy[p] \in Records \cup {None}
      /\ {"done", "failed", "unsure"} \subseteq Ends
  BY DEF IInv, At, TypeOK, Ends
<1>2. CASE Resume(p)
  BY <1>1, <1>2, CourseMove DEF Resume, Course, Accounts
<1>3. CASE ResumeFails(p)
  BY <1>1, <1>3, CourseEnd DEF ResumeFails, Course, Accounts
<1>4. CASE Reopen(p)
  <2>1. pc[p] = "reopen" /\ copy[p] \in Records
    BY <1>1, <1>4, CourseMove DEF Reopen, InHand
  <2>2. Reopened(copy[p]) \in Records /\ Reopened(copy[p]).state = "pending"
    BY <2>1 DEF Reopened, Records
  <2>3. ~StoppedRecord(record')
    BY <1>1, <1>4, <2>2, CoursePut DEF Reopen, StoppedRecord
  <2> QED BY <1>1, <1>4, <2>3, CourseMove DEF Reopen, Course, Accounts
<1>5. CASE ReopenFails(p) \/ AwaitFails(p)
  BY <1>1, <1>5, CourseMove DEF ReopenFails, AwaitFails, Course, Accounts
<1>6. CASE Undo(p)
  BY <1>1, <1>6, CourseMove DEF Undo, Course, Accounts
<1>7. CASE UndoFails(p)
  BY <1>1, <1>7, CourseMove DEF UndoFails, MayBecome, Course, Accounts
<1>8. CASE Unwind(p)
  BY <1>1, <1>8, CourseEnd DEF Unwind, Course, Accounts
<1>9. CASE GiveUp(p)
  <2>1. pc[p] = "giveup" /\ copy[p] \in Records
    BY <1>1, <1>9, CourseEnd DEF GiveUp, InHand
  <2> DEFINE new == [Reopened(copy[p]) EXCEPT !.state = "error"]
  <2>2. new \in Records /\ new.state = "error"
    BY <2>1 DEF Reopened, Records
  <2>3. Put(new)
    BY <1>9 DEF GiveUp
  <2> HIDE DEF new
  <2>4. ~StoppedRecord(record')
    BY <1>1, <2>2, <2>3, CoursePut DEF StoppedRecord
  <2> QED BY <1>1, <1>9, <2>4, CourseEnd DEF GiveUp, Course, Accounts
<1>10. CASE WriteFails(p, "unwind", "failed") \/ WriteFails(p, "giveup", "unsure")
  BY <1>1, <1>10, CourseEnd DEF WriteFails, Course, Accounts
<1>11. CASE Await(p)
  BY <1>1, <1>11, CourseEnd DEF Await, Course, Accounts
<1> QED BY <1>2, <1>3, <1>4, <1>5, <1>6, <1>7, <1>8, <1>9, <1>10, <1>11 DEF Start

LEMMA CourseExpose ==
  ASSUME IInv, NEW p \in Procs, Expose(p)
  PROVE  Course(p)
<1>1. TypeOK /\ InHand(p) /\ copy[p] \in Records \cup {None}
      /\ {"done", "failed", "unsure"} \subseteq Ends
  BY DEF IInv, At, TypeOK, Ends
<1>2. CASE Provision(p)
  BY <1>1, <1>2, CourseMove DEF Provision, Course, Accounts
<1>3. CASE ProvisionFails(p)
  BY <1>1, <1>3, CourseEnd DEF ProvisionFails, Course, Accounts
<1>4. CASE Save(p)
  <2>1. ~StoppedRecord(record')
    BY <1>4 DEF Save, New, StoppedRecord
  <2>2. \A q \in Procs \ {p} : copy'[q] = copy[q]
    BY <1>1, <1>4 DEF Save, TypeOK
  <2> QED BY <1>1, <1>4, <2>1, <2>2, CourseMove DEF Save, Course, Accounts
<1>5. CASE SaveFails(p) \/ Ready(p) \/ ReadyFails(p) \/ HandoffFails(p)
  BY <1>1, <1>5, CourseMove DEF SaveFails, Ready, ReadyFails, HandoffFails, Course, Accounts
<1>6. CASE Handoff(p)
  <2>1. pc[p] = "handoff" /\ copy[p] \in Records
    BY <1>1, <1>6, CourseMove DEF Handoff, InHand
  <2>2. Reopened(copy[p]) \in Records /\ Reopened(copy[p]).state = "pending"
    BY <2>1 DEF Reopened, Records
  <2>3. ~StoppedRecord(record')
    BY <1>1, <1>6, <2>2, CoursePut DEF Handoff, StoppedRecord
  <2> QED BY <1>1, <1>6, <2>3, CourseMove DEF Handoff, Course, Accounts
<1>7. CASE Dial(p) \/ DialFails(p) \/ OnConnectedEnds(p) \/ MarkFails(p)
  BY <1>1, <1>7, CourseMove DEF Dial, DialFails, OnConnectedEnds, MarkFails, Course, Accounts
<1>8. CASE OnConnected(p)
  <2>1. \A q \in Procs \ {p} : copy'[q] = copy[q]
    BY <1>1, <1>8 DEF OnConnected, TypeOK
  <2> QED BY <1>1, <1>8, <2>1, CourseMove DEF OnConnected, Course, Accounts
<1>9. CASE Mark(p)
  <2>1. pc[p] = "mark" /\ copy[p] \in Records
    BY <1>1, <1>9, CourseMove DEF Mark, InHand
  <2> DEFINE new == [copy[p] EXCEPT !.state = "connected"]
  <2>2. new \in Records /\ new.state = "connected"
    BY <2>1 DEF Records
  <2>3. Put(new)
    BY <1>9 DEF Mark
  <2> HIDE DEF new
  <2>4. ~StoppedRecord(record')
    BY <1>1, <2>2, <2>3, CoursePut DEF StoppedRecord
  <2> QED BY <1>1, <1>9, <2>4, CourseMove DEF Mark, Course, Accounts
<1>10. CASE Own(p) \/ SpareNot(p)
  BY <1>1, <1>10, CourseMove DEF Own, SpareNot, Course, Accounts
<1>11. CASE OwnNot(p) \/ Spare(p)
  BY <1>1, <1>11, CourseEnd DEF OwnNot, Spare, Course, Accounts
<1> QED BY <1>2, <1>3, <1>4, <1>5, <1>6, <1>7, <1>8, <1>9, <1>10, <1>11 DEF Expose

LEMMA CourseRest ==
  ASSUME IInv, NEW p \in Procs, Remove(p) \/ Logout(p) \/ Disconnect(p) \/ Crash(p)
  PROVE  Course(p)
<1>1. TypeOK /\ {"done", "failed", "unsure", "dead"} \subseteq Ends
  BY DEF IInv, Ends
<1>2. CASE Clean(p)
  BY <1>1, <1>2, CourseMove DEF Clean, Course, Accounts
<1>3. CASE CleanFails(p)
  BY <1>1, <1>3, CourseEnd DEF CleanFails, MayBecome, Course, Accounts
<1>4. CASE Delete(p)
  BY <1>1, <1>4, CourseEnd DEF Delete, StoppedRecord, Course, Accounts
<1>5. CASE \/ WriteFails(p, "delete", "failed") \/ WriteFails(p, "quit", "failed")
           \/ WriteFails(p, "wipe", "failed")
  BY <1>1, <1>5, CourseEnd DEF WriteFails, Course, Accounts
<1>6. CASE Quit(p)
  BY <1>1, <1>6 DEF Quit, Goto, TypeOK, Course, Accounts
<1>7. CASE Wipe(p)
  <2>1. ~StoppedRecord(record')
    BY <1>1, <1>7 DEF Wipe, Stopped, StoppedRecord, TypeOK, Records
  <2> QED BY <1>1, <1>7, <2>1, CourseEnd DEF Wipe, Course, Accounts
<1>8. CASE Disconnect(p)
  BY <1>1, <1>8, CourseMove DEF Disconnect, Course, Accounts
<1>9. CASE Crash(p)
  <2>1. pc'[p] = "dead" /\ pc[p] \notin {"unsure", "dead"} /\ record' = record /\ remote' = remote
        /\ \A q \in Procs \ {p} : pc'[q] = pc[q] /\ copy'[q] = copy[q]
    BY <1>1, <1>9, CourseEnd DEF Crash, Running, Ends
  <2> QED BY <2>1 DEF Course, Accounts
<1> QED BY <1>2, <1>3, <1>4, <1>5, <1>6, <1>7, <1>8, <1>9 DEF Remove, Logout

\* A step of p keeps it.
LEMMA CourseKeeps ==
  ASSUME IInv, SInv, NEW p \in Procs, Course(p)
  PROVE  SInv'
<1>1. TypeOK /\ \A q \in Procs : At(q)
  BY DEF IInv
<1>2. Marred => Marred'
  BY DEF Marred, Course
<1>3. pc[p] = "provision" => ~StoppedRecord(record')
  BY <1>1 DEF At, NotSaved, StoppedRecord, Course
<1>4. ASSUME Astray' PROVE \E q \in Procs : Accounts(q)'
  <2>1. CASE ~Astray
    <3>1. \/ StoppedRecord(record) /\ remote # "running" /\ record' = record
          \/ record' # record
          \/ ~StoppedRecord(record) /\ record' = record
      BY <2>1 DEF Astray
    <3>2. CASE record' = record
      <4>1. remote # "running"
        BY <2>1, <1>4, <3>2 DEF Astray
      <4> QED BY <1>3, <1>4, <4>1 DEF Astray, Course
    <3>3. CASE pc'[p] = "pause"
      BY <3>3 DEF Accounts
    <3>4. CASE pc[p] = "restore" /\ record' = copy[p]
      <4>1. remote # "running" \/ Marred
        BY <1>4, <3>4 DEF SInv, StopOK, Astray
      <4>2. CASE Marred
        BY <1>2, <4>2 DEF Marred, Accounts
      <4>3. CASE remote # "running"
        BY <1>4, <3>4, <4>3 DEF Astray, Course
      <4> QED BY <4>1, <4>2, <4>3
    <3>5. CASE pc[p] = "unwind"
      BY <1>4, <3>5 DEF SInv, StopOK, Astray, Course
    <3> QED BY <1>4, <3>2, <3>3, <3>4, <3>5 DEF Astray, Course
  <2>2. CASE Astray
    <3>1. PICK q \in Procs : Accounts(q)
      BY <2>2 DEF SInv
    <3>2. CASE q # p
      BY <3>1, <3>2 DEF Accounts, Course
    <3>3. CASE q = p /\ pc[p] = "restore" /\ record' = copy[p]
      <4>1. Marred
        BY <1>4, <2>2, <3>3 DEF SInv, StopOK, Astray
      <4> QED BY <1>2, <4>1 DEF Marred, Accounts
    <3>4. CASE q = p /\ ~(pc[p] = "restore" /\ record' = copy[p])
      BY <1>4, <3>1, <3>4 DEF Astray, Course
    <3> QED BY <3>2, <3>3, <3>4
  <2> QED BY <2>1, <2>2
<1>5. ASSUME NEW q \in Procs, q # p PROVE StopOK(q)'
  <2>1. pc'[q] = pc[q] /\ copy'[q] = copy[q] /\ StopOK(q) /\ At(q) /\ At(p)
    BY <1>1, <1>5 DEF Course, SInv
  <2>2. ASSUME pc[q] \in {"halt", "pause", "restore", "unwind"}, remote' = "running"
        PROVE  remote = "running"
    <3>1. lock = q /\ pc[p] # "resume"
      BY <1>5, <2>1, <2>2 DEF At, LockHeld, LockedPCs
    <3>2. pc[p] # "provision"
      <4> SUFFICES ASSUME pc[p] = "provision" PROVE FALSE
        OBVIOUS
      <4>1. cmd[p] \in Exposes /\ record = None
        BY <2>1 DEF At, Place, NotSaved, ExposePCs
      <4>2. cmd[q] \notin Exposes
        BY <1>5, <4>1 DEF IInv, OneExpose
      <4> QED BY <2>1, <2>2, <4>1, <4>2 DEF At, Recorded, LockedPCs
    <3> QED BY <2>2, <3>1, <3>2 DEF Course
  <2> QED BY <1>2, <2>1, <2>2 DEF StopOK
<1>6. StopOK(p)'
  <2>1. pc'[p] = "unwind" => remote' # "running"
    BY DEF Course
  <2>2. ASSUME pc'[p] \in {"halt", "pause", "restore"}, StoppedRecord(copy'[p]),
               remote' = "running"
        PROVE  Marred'
    <3>1. CASE pc[p] \in {"halt", "pause", "restore"} /\ copy'[p] = copy[p]
      BY <1>2, <2>2, <3>1 DEF Course, SInv, StopOK
    <3>2. CASE pc[p] = "find" /\ copy'[p] = record
      <4>1. Astray
        BY <2>2, <3>2 DEF Course, Astray
      <4>2. PICK q \in Procs : Accounts(q)
        BY <4>1 DEF SInv
      <4>3. q # p /\ lock = p
        BY <1>1, <3>2, <4>2 DEF Accounts, At, LockHeld, LockedPCs
      <4>4. pc[q] \in {"unsure", "dead"}
        BY <1>1, <4>2, <4>3 DEF Accounts, At, LockHeld, LockedPCs
      <4> QED BY <1>2, <4>4 DEF Marred
    <3> QED BY <2>2, <3>1, <3>2 DEF Course
  <2> QED BY <2>1, <2>2 DEF StopOK
<1> QED BY <1>4, <1>5, <1>6 DEF SInv

LEMMA StepStopped ==
  ASSUME IInv, SInv, [Next]_vars
  PROVE  SInv'
<1>1. CASE UNCHANGED vars
  BY <1>1 DEF vars, SInv, Astray, Accounts, StopOK, Marred
<1>2. ASSUME NEW p \in Procs, NEW c \in Commands, Begin(p, c)
      PROVE  SInv'
  <2>1. /\ pc[p] = "new" /\ UNCHANGED <<record, remote, copy>>
        /\ pc'[p] \in {"provision", "quit", "lock"}
        /\ \A q \in Procs \ {p} : pc'[q] = pc[q]
    BY <1>2 DEF Begin, Goto, IInv, TypeOK
  <2>2. \A q \in Procs : Accounts(q)' <=> Accounts(q)
    BY <2>1 DEF Accounts
  <2>3. Marred => Marred'
    BY <2>1 DEF Marred
  <2>4. \A q \in Procs : StopOK(q)'
    BY <2>1, <2>3 DEF SInv, StopOK
  <2> QED BY <2>1, <2>2, <2>4 DEF SInv, Astray
<1>3. ASSUME NEW p \in Procs, Step(p) \/ Disconnect(p) \/ Crash(p)
      PROVE  SInv'
  <2>1. Course(p)
    BY <1>3, CourseLock, CourseStop, CourseStart, CourseExpose, CourseRest DEF Step
  <2> QED BY <2>1, CourseKeeps
<1>4. CASE Adopt \/ Retire \/ \E s \in {"pending", "connected", "error"} : Report(s)
  <2>1. UNCHANGED <<remote, pc, copy>>
    BY <1>4 DEF Adopt, Retire, Report
  <2>2. StoppedRecord(record') => record' = record
    BY <1>4 DEF Adopt, Retire, Report, StoppedRecord, IInv, TypeOK, Records
  <2> QED BY <2>1, <2>2 DEF SInv, Astray, Accounts, StopOK, Marred
<1> QED BY <1>1, <1>2, <1>3, <1>4 DEF Next

\* A tunnel that says it is stopped runs up no costs once every command has ended,
\* unless one died or said that it could not undo its work.
THEOREM StoppedCostsNothing == Spec => []StoppedIsPaused
<1>1. Init => SInv
  BY DEF Init, SInv, Astray, StoppedRecord, StopOK
<1>2. SInv => StoppedIsPaused
  BY DEF SInv, Astray, StoppedRecord, Accounts, StoppedIsPaused
<1> QED BY <1>1, <1>2, StepStopped, Invariance, PTL DEF Spec
-----------------------------------------------------------------------------
(* The relay, for any grace, deadline and amount of data.  A goroutine that has  *)
(* ended left nothing behind, unless it was cut off; once the grace is over, so  *)
(* has the other one.                                                           *)

\* Nothing more can be passed on from c.
Cut(c) == Relay!Expired \/ peer[Relay!Other(c)] = "gone"

\* Nothing of c is left to be passed on, and nothing more comes.
Drained(c) == inside[c] = 0 /\ peer[c] # "open"

RelayTypes ==
  /\ raw \in BOOLEAN
  /\ age \in 0..IdleTimeout /\ idle \in 0..IdleTimeout /\ left \in 0..Grace
  /\ peer \in [Relay!Ends -> {"open", "done", "gone"}] /\ stalled \in SUBSET Relay!Ends
  /\ sent \in [Relay!Ends -> 0..MaxSent] /\ inside \in [Relay!Ends -> 0..MaxSent]
  /\ due \in [Relay!Ends -> 0..MaxSent]
  /\ flow \in [Relay!Ends -> {"copy", "end", "told"}] /\ failed \in [Relay!Ends -> BOOLEAN]
  /\ errc \in Seq(BOOLEAN)
  /\ relay \in {"first", "second", "grace", "returned"} /\ firstErr \in BOOLEAN

Amounts == \A c \in Relay!Ends : due[c] <= inside[c] /\ inside[c] <= sent[c]

\* Who has ended, and what of its data.
EndsOK ==
  \A c \in Relay!Ends :
    relay # "returned" /\ flow[c] # "copy"
      => (Drained(c) \/ Cut(c)) /\ (~failed[c] => Drained(c))

\* The results in the channel are of those who told, but for the one received.
OneResult(c) ==
  /\ flow[c] = "told"
  /\ \/ flow[Relay!Other(c)] # "told" /\ errc = <<>>
     \/ flow[Relay!Other(c)] = "told" /\ errc = <<failed[Relay!Other(c)]>>

ChannelOK ==
  /\ relay = "first" =>
       \/ errc = <<>> /\ \A c \in Relay!Ends : flow[c] # "told"
       \/ \E c \in Relay!Ends :
            /\ flow[c] = "told"
            /\ \/ flow[Relay!Other(c)] # "told" /\ errc = <<failed[c]>>
               \/ /\ flow[Relay!Other(c)] = "told"
                  /\ errc = <<failed[c], failed[Relay!Other(c)]>>
  /\ relay = "second" => \E c \in Relay!Ends : OneResult(c) /\ ~failed[c]
  /\ relay = "grace" => firstErr /\ \E c \in Relay!Ends : OneResult(c)
  /\ relay = "returned" =>
       \E c \in Relay!Ends :
         /\ flow[c] = "told"
         /\ flow[Relay!Other(c)] # "told" => errc = <<>> /\ firstErr
         /\ flow[Relay!Other(c)] = "told" => Len(errc) <= 1

\* When the grace is over, what was due is delivered or cannot be.
Lost(c) == Relay!Other(c) \in stalled \/ Cut(c)

GraceOK ==
  /\ relay \in {"first", "second"} => \A c \in Relay!Ends : due[c] = 0
  /\ relay = "grace" /\ left = 0 => \A c \in Relay!Ends : due[c] = 0 \/ Lost(c)

RelayInv ==
  /\ RelayTypes /\ Amounts /\ EndsOK /\ ChannelOK /\ GraceOK
  /\ Relay!CompleteWithoutError /\ Relay!TailDelivered

LEMMA TwoEnds ==
  ASSUME NEW c \in Relay!Ends
  PROVE  /\ Relay!Other(c) \in Relay!Ends /\ Relay!Other(c) # c
         /\ Relay!Other(Relay!Other(c)) = c
         /\ \A e \in Relay!Ends : e = c \/ e = Relay!Other(c)
BY DEF Relay!Ends, Relay!Other

\* Sequences of one and two elements.
LEMMA ShortSequences ==
  ASSUME NEW x, NEW y
  PROVE  /\ Head(<<x>>) = x /\ Tail(<<x>>) = <<>>
         /\ Head(<<x, y>>) = x /\ Tail(<<x, y>>) = <<y>>
         /\ Append(<<>>, x) = <<x>> /\ Append(<<x>>, y) = <<x, y>>
<1>1. Head(<<x>>) = x /\ Tail(<<x>>) = <<>>
  OBVIOUS
<1>2. Head(<<x, y>>) = x /\ Tail(<<x, y>>) = <<y>>
  OBVIOUS
<1>3. Append(<<>>, x) = <<x>>
  OBVIOUS
<1>4. Append(<<x>>, y) = <<x, y>>
  <2> DEFINE s == Append(<<x>>, y)
             t == <<x, y>>
  <2>1. <<x>> \in Seq({x, y})
    OBVIOUS
  <2>2. s \in Seq({x, y}) /\ Len(s) = 2 /\ s[1] = x /\ s[2] = y
    BY <2>1, AppendProperties
  <2>3. t \in Seq({x, y}) /\ Len(t) = 2 /\ t[1] = x /\ t[2] = y
    OBVIOUS
  <2> HIDE DEF s, t
  <2>4. \A i \in 1..Len(s) : s[i] = t[i]
    BY <2>2, <2>3
  <2>5. s = t
    BY <2>2, <2>3, <2>4, SeqEqual
  <2> QED BY <2>5 DEF s, t
<1> QED BY <1>1, <1>2, <1>3, <1>4

LEMMA RelayBegins == Relay!Init => RelayInv
<1> SUFFICES ASSUME Relay!Init PROVE RelayInv OBVIOUS
<1> USE RelayAssumption DEF Relay!TimesAssumption
<1>1. RelayTypes
  <2>1. errc \in Seq(BOOLEAN)
    BY DEF Relay!Init
  <2>2. /\ sent \in [Relay!Ends -> 0..MaxSent] /\ inside \in [Relay!Ends -> 0..MaxSent]
        /\ due \in [Relay!Ends -> 0..MaxSent] /\ left \in 0..Grace
        /\ age \in 0..IdleTimeout /\ idle \in 0..IdleTimeout
    BY DEF Relay!Init
  <2>3. /\ peer \in [Relay!Ends -> {"open", "done", "gone"}]
        /\ flow \in [Relay!Ends -> {"copy", "end", "told"}]
        /\ failed \in [Relay!Ends -> BOOLEAN] /\ raw \in BOOLEAN /\ firstErr \in BOOLEAN
    BY DEF Relay!Init
  <2>4. relay \in {"first", "second", "grace", "returned"} /\ stalled \in SUBSET Relay!Ends
    BY DEF Relay!Init
  <2> QED BY <2>1, <2>2, <2>3, <2>4 DEF RelayTypes
<1>2. Amounts /\ EndsOK
  BY DEF Relay!Init, Amounts, EndsOK
<1>3. ChannelOK /\ GraceOK
  BY DEF Relay!Init, ChannelOK, GraceOK
<1>4. Relay!CompleteWithoutError /\ Relay!TailDelivered
  BY DEF Relay!Init, Relay!CompleteWithoutError, Relay!TailDelivered
<1> QED BY <1>1, <1>2, <1>3, <1>4 DEF RelayInv

\* The peers, as long as the connections are open.
LEMMA PeersKeep ==
  ASSUME RelayInv, NEW c \in Relay!Ends, Relay!Send(c) \/ Relay!Leave(c) \/ Relay!Stall(c)
  PROVE  RelayInv'
<1> USE RelayAssumption DEF Relay!TimesAssumption, RelayInv
<1>1. relay # "returned" /\ relay' = relay
  BY DEF Relay!Send, Relay!Leave, Relay!Stall, Relay!Closed, Relay!caller
<1>2. /\ raw' = raw /\ age' = age /\ idle' = idle /\ left' = left /\ flow' = flow
      /\ failed' = failed /\ errc' = errc /\ due' = due /\ firstErr' = firstErr
  BY DEF Relay!Send, Relay!Leave, Relay!Stall, Relay!clocks, Relay!caller
<1>3. RelayTypes' /\ Amounts'
  <2>1. CASE Relay!Send(c)
    BY <1>2, <1>1, <2>1 DEF Relay!Send, RelayTypes, Amounts
  <2>2. CASE Relay!Leave(c)
    BY <1>2, <1>1, <2>2 DEF Relay!Leave, RelayTypes, Amounts
  <2>3. CASE Relay!Stall(c)
    BY <1>2, <1>1, <2>3 DEF Relay!Stall, Relay!peers, RelayTypes, Amounts
  <2> QED BY <2>1, <2>2, <2>3
<1>4. /\ stalled \subseteq stalled'
      /\ \A e \in Relay!Ends : peer[e] = "gone" => peer'[e] = "gone"
      /\ \A e \in Relay!Ends : peer[e] # "open" => peer'[e] # "open" /\ inside'[e] = inside[e]
  BY DEF Relay!Send, Relay!Leave, Relay!Stall, Relay!peers, RelayTypes
<1>5. \A e \in Relay!Ends : (Cut(e) => Cut(e)') /\ (Drained(e) => Drained(e)')
  BY <1>2, <1>4, TwoEnds DEF Cut, Drained, Relay!Expired
<1>6. EndsOK' /\ GraceOK'
  BY <1>1, <1>2, <1>4, <1>5 DEF EndsOK, GraceOK, Lost
<1>7. ChannelOK'
  BY <1>1, <1>2 DEF ChannelOK, OneResult
<1>8. Relay!CompleteWithoutError' /\ Relay!TailDelivered'
  BY <1>1 DEF Relay!CompleteWithoutError, Relay!TailDelivered
<1> QED BY <1>3, <1>6, <1>7, <1>8

LEMMA CopyKeeps ==
  ASSUME RelayInv, NEW c \in Relay!Ends, Relay!Copy(c)
  PROVE  RelayInv'
<1> USE RelayAssumption DEF Relay!TimesAssumption, RelayInv
<1>1. /\ relay # "returned" /\ relay' = relay /\ flow[c] = "copy" /\ flow' = flow
      /\ raw' = raw /\ age' = age /\ left' = left /\ failed' = failed /\ errc' = errc
      /\ firstErr' = firstErr /\ peer' = peer /\ stalled' = stalled /\ sent' = sent
  BY DEF Relay!Copy, Relay!CanCopy, Relay!Closed, Relay!peers
<1>2. /\ inside[c] > 0 /\ inside' = [inside EXCEPT ![c] = @ - 1] /\ idle' = 0
      /\ due' = [due EXCEPT ![c] = IF @ > 0 THEN @ - 1 ELSE 0]
  BY DEF Relay!Copy, Relay!CanCopy
<1>3. RelayTypes' /\ Amounts'
  BY <1>1, <1>2 DEF RelayTypes, Amounts
<1>4. \A e \in Relay!Ends : /\ e # c => inside'[e] = inside[e]
                            /\ due[e] = 0 => due'[e] = 0
  BY <1>2 DEF RelayTypes
<1>5. EndsOK' /\ GraceOK'
  BY <1>1, <1>4 DEF EndsOK, GraceOK, Lost, Cut, Drained, Relay!Expired
<1>6. ChannelOK'
  BY <1>1 DEF ChannelOK, OneResult
<1>7. Relay!CompleteWithoutError' /\ Relay!TailDelivered'
  BY <1>1 DEF Relay!CompleteWithoutError, Relay!TailDelivered
<1> QED BY <1>3, <1>5, <1>6, <1>7

LEMMA CopyEndsKeeps ==
  ASSUME RelayInv, NEW c \in Relay!Ends, Relay!CopyEnds(c)
  PROVE  RelayInv'
<1> USE RelayAssumption DEF Relay!TimesAssumption, RelayInv
<1>1. /\ relay' = relay /\ flow[c] = "copy" /\ flow' = [flow EXCEPT ![c] = "end"]
      /\ raw' = raw /\ age' = age /\ idle' = idle /\ left' = left /\ errc' = errc
      /\ firstErr' = firstErr /\ peer' = peer /\ stalled' = stalled /\ sent' = sent
      /\ inside' = inside /\ due' = due
  BY DEF Relay!CopyEnds, Relay!peers, Relay!clocks, Relay!caller
<1>2. failed' = [failed EXCEPT ![c] = relay # "returned" /\ (Relay!TimesOut(c) \/ Relay!Broken(c))]
  BY DEF Relay!CopyEnds, Relay!Closed
<1>3. RelayTypes' /\ Amounts'
  BY <1>1, <1>2 DEF RelayTypes, Amounts
<1>4. EndsOK'
  <2> SUFFICES ASSUME relay # "returned", NEW e \in Relay!Ends, flow'[e] # "copy"
               PROVE  /\ (Drained(e) \/ Cut(e))' /\ (~failed'[e] => Drained(e)')
    BY <1>1 DEF EndsOK
  <2>1. (Drained(e)' <=> Drained(e)) /\ (Cut(e)' <=> Cut(e))
    BY <1>1 DEF Drained, Cut, Relay!Expired
  <2>2. CASE e = c
    <3>1. Relay!TimesOut(c) \/ Relay!Broken(c) \/ Relay!AtEOF(c)
      BY DEF Relay!CopyEnds, Relay!Closed
    <3>2. failed'[c] <=> Relay!TimesOut(c) \/ Relay!Broken(c)
      BY <1>2 DEF RelayTypes
    <3>3. Relay!TimesOut(c) \/ Relay!Broken(c) => Drained(c) \/ Cut(c)
      BY DEF Relay!TimesOut, Relay!Broken, Drained, Cut
    <3>4. Relay!AtEOF(c) => Drained(c)
      BY DEF Relay!AtEOF, Drained
    <3> QED BY <2>1, <2>2, <3>1, <3>2, <3>3, <3>4
  <2>3. CASE e # c
    BY <1>1, <1>2, <2>1, <2>3 DEF EndsOK, RelayTypes
  <2> QED BY <2>2, <2>3
<1>5. GraceOK'
  BY <1>1 DEF GraceOK, Lost, Cut, Relay!Expired
<1>6. \A e \in Relay!Ends : /\ flow'[e] = "told" <=> flow[e] = "told"
                            /\ flow[e] = "told" => failed'[e] = failed[e]
  BY <1>1, <1>2 DEF RelayTypes
<1>7. ChannelOK'
  BY <1>1, <1>6, TwoEnds DEF ChannelOK, OneResult
<1>8. Relay!CompleteWithoutError' /\ Relay!TailDelivered'
  BY <1>1, <1>6 DEF Relay!CompleteWithoutError, Relay!TailDelivered, Relay!Expired
<1> QED BY <1>3, <1>4, <1>5, <1>7, <1>8

LEMMA TellKeeps ==
  ASSUME RelayInv, NEW c \in Relay!Ends, Relay!Tell(c)
  PROVE  RelayInv'
<1> USE RelayAssumption DEF Relay!TimesAssumption, RelayInv
<1> DEFINE o == Relay!Other(c)
<1>1. /\ relay' = relay /\ flow[c] = "end" /\ flow' = [flow EXCEPT ![c] = "told"]
      /\ raw' = raw /\ age' = age /\ idle' = idle /\ left' = left
      /\ firstErr' = firstErr /\ peer' = peer /\ stalled' = stalled /\ sent' = sent
      /\ inside' = inside /\ due' = due
  BY DEF Relay!Tell, Relay!peers, Relay!clocks
<1>2. /\ failed' \in [Relay!Ends -> BOOLEAN] /\ \A e \in Relay!Ends \ {c} : failed'[e] = failed[e]
      /\ failed[c] => failed'[c]
      /\ errc' = Append(errc, failed'[c])
  BY DEF Relay!Tell, RelayTypes
<1>3. /\ o \in Relay!Ends /\ o # c /\ Relay!Other(o) = c
      /\ \A e \in Relay!Ends : e = c \/ e = o
  BY TwoEnds
<1>4. /\ flow'[c] = "told" /\ flow'[o] = flow[o] /\ failed'[o] = failed[o]
      /\ failed'[c] \in BOOLEAN /\ failed[o] \in BOOLEAN
  BY <1>1, <1>2, <1>3 DEF RelayTypes
<1>5. RelayTypes' /\ Amounts'
  <2>1. errc' \in Seq(BOOLEAN)
    BY <1>2, <1>4 DEF RelayTypes
  <2> QED BY <1>1, <1>2, <2>1 DEF RelayTypes, Amounts
<1>6. EndsOK' /\ GraceOK'
  BY <1>1, <1>2, <1>3, <1>4 DEF EndsOK, GraceOK, Lost, Cut, Drained, Relay!Expired
<1> HIDE DEF o
<1>7. ChannelOK'
  <2>1. CASE relay = "first"
    <3>1. CASE flow[o] # "told"
      <4>1. errc = <<>>
        BY <1>1, <1>3, <2>1, <3>1 DEF ChannelOK, o
      <4>2. errc' = <<failed'[c]>>
        BY <1>2, <4>1
      <4> QED BY <1>1, <1>3, <1>4, <2>1, <3>1, <4>2 DEF ChannelOK, o
    <3>2. CASE flow[o] = "told"
      <4>1. errc = <<failed[o]>>
        BY <1>1, <1>3, <2>1, <3>2 DEF ChannelOK, o
      <4>2. errc' = <<failed'[o], failed'[c]>>
        <5>1. Append(<<failed[o]>>, failed'[c]) = <<failed[o], failed'[c]>>
          BY ShortSequences
        <5> QED BY <1>2, <1>4, <4>1, <5>1, Zenon
      <4> QED BY <1>1, <1>3, <1>4, <2>1, <3>2, <4>2 DEF ChannelOK
    <3> QED BY <3>1, <3>2
  <2>2. CASE relay \in {"second", "grace"}
    <3>1. OneResult(o) /\ (relay = "second" => ~failed[o]) /\ (relay = "grace" => firstErr)
      BY <1>1, <1>3, <2>2 DEF ChannelOK, OneResult
    <3>2. errc = <<>> /\ flow[o] = "told"
      BY <1>1, <1>3, <3>1 DEF OneResult
    <3>3. errc' = <<failed'[c]>>
      BY <1>2, <3>2
    <3> QED BY <1>1, <1>3, <1>4, <2>2, <3>1, <3>2, <3>3 DEF ChannelOK, OneResult
  <2>3. CASE relay = "returned"
    <3>1. flow[o] = "told" /\ errc = <<>>
      BY <1>1, <1>3, <2>3 DEF ChannelOK
    <3>2. errc' = <<failed'[c]>> /\ Len(errc') = 1
      BY <1>2, <3>1
    <3> QED BY <1>1, <1>3, <1>4, <2>3, <3>1, <3>2 DEF ChannelOK
  <2> QED BY <2>1, <2>2, <2>3 DEF RelayTypes
<1>8. Relay!CompleteWithoutError' /\ Relay!TailDelivered'
  BY <1>1, <1>3, <1>4 DEF Relay!CompleteWithoutError, Relay!TailDelivered, Relay!Expired
<1> QED BY <1>5, <1>6, <1>7, <1>8

LEMMA ReceiveKeeps ==
  ASSUME RelayInv, Relay!ReceiveFirst
  PROVE  RelayInv'
<1> USE RelayAssumption DEF Relay!TimesAssumption, RelayInv
<1>1. /\ relay = "first" /\ errc # <<>> /\ errc' = Tail(errc) /\ firstErr' = Head(errc)
      /\ raw' = raw /\ age' = age /\ idle' = idle /\ flow' = flow /\ failed' = failed
      /\ peer' = peer /\ stalled' = stalled /\ sent' = sent /\ inside' = inside
      /\ relay' = (IF Head(errc) THEN "grace" ELSE "second")
      /\ left' = (IF Head(errc) THEN Grace ELSE left)
      /\ due' = (IF Head(errc) THEN inside ELSE due)
  BY DEF Relay!ReceiveFirst, Relay!peers
<1>2. PICK c \in Relay!Ends :
        /\ flow[c] = "told"
        /\ \/ flow[Relay!Other(c)] # "told" /\ errc = <<failed[c]>>
           \/ flow[Relay!Other(c)] = "told" /\ errc = <<failed[c], failed[Relay!Other(c)]>>
  BY <1>1 DEF ChannelOK
<1> DEFINE o == Relay!Other(c)
<1>3. failed[c] \in BOOLEAN /\ failed[o] \in BOOLEAN
  BY TwoEnds DEF RelayTypes
<1>4. /\ Head(errc) = failed[c]
      /\ flow[o] # "told" => Tail(errc) = <<>>
      /\ flow[o] = "told" => Tail(errc) = <<failed[o]>>
  <2>1. /\ Head(<<failed[c]>>) = failed[c] /\ Tail(<<failed[c]>>) = <<>>
        /\ Head(<<failed[c], failed[o]>>) = failed[c]
        /\ Tail(<<failed[c], failed[o]>>) = <<failed[o]>>
    BY ShortSequences
  <2> QED BY <1>2, <2>1, Zenon
<1>5. RelayTypes'
  <2>1. errc' \in Seq(BOOLEAN) /\ firstErr' \in BOOLEAN
    <3>1. Tail(errc) \in Seq(BOOLEAN)
      BY <1>1, HeadTailProperties DEF RelayTypes
    <3> QED BY <1>1, <1>3, <1>4, <3>1
  <2>2. relay' \in {"second", "grace"} /\ left' \in 0..Grace
        /\ due' \in [Relay!Ends -> 0..MaxSent]
    <3>1. Head(errc) \in BOOLEAN
      BY <1>3, <1>4
    <3>2. CASE Head(errc)
      <4>1. relay' = "grace" /\ left' = Grace /\ due' = inside
        BY <1>1, <3>2
      <4> QED BY <4>1 DEF RelayTypes
    <3>3. CASE ~Head(errc)
      BY <1>1, <3>3 DEF RelayTypes
    <3> QED BY <3>1, <3>2, <3>3
  <2> QED BY <1>1, <2>1, <2>2 DEF RelayTypes
<1>6. /\ due' = inside \/ due' = due
      /\ relay' = "grace" => left' = Grace
      /\ relay' = "second" => due' = due
      /\ relay' \in {"second", "grace"}
  BY <1>1
<1>7. Amounts'
  <2>1. \A e \in Relay!Ends : inside[e] \in Nat
    BY DEF RelayTypes
  <2>2. CASE due' = inside
    <3>1. \A e \in Relay!Ends : inside'[e] = inside[e] /\ sent'[e] = sent[e] /\ due'[e] = inside[e]
      BY <1>1, <2>2
    <3>2. \A e \in Relay!Ends : inside[e] <= sent[e]
      BY DEF Amounts
    <3>3. \A e \in Relay!Ends : due'[e] <= inside'[e] /\ inside'[e] <= sent'[e]
      BY <2>1, <3>1, <3>2
    <3> QED BY <3>3 DEF Amounts
  <2>3. CASE due' = due
    BY <1>1, <2>3 DEF Amounts
  <2> QED BY <1>6, <2>2, <2>3
<1>10. EndsOK' /\ GraceOK'
  BY <1>1, <1>6 DEF EndsOK, GraceOK, Lost, Cut, Drained, Relay!Expired
<1>8. ChannelOK'
  BY <1>1, <1>2, <1>3, <1>4 DEF ChannelOK, OneResult
<1>9. Relay!CompleteWithoutError' /\ Relay!TailDelivered'
  BY <1>1 DEF Relay!CompleteWithoutError, Relay!TailDelivered
<1> QED BY <1>5, <1>7, <1>8, <1>9, <1>10

\* The caller has received all it waits for, or has waited long enough.
LEMMA ReturnKeeps ==
  ASSUME RelayInv, Relay!ReceiveSecond \/ Relay!EndGrace
  PROVE  RelayInv'
<1> USE RelayAssumption DEF Relay!TimesAssumption, RelayInv
<1>1. /\ relay' = "returned"
      /\ raw' = raw /\ age' = age /\ idle' = idle /\ flow' = flow /\ failed' = failed
      /\ peer' = peer /\ stalled' = stalled /\ sent' = sent /\ inside' = inside
      /\ left' = left /\ due' = due
  BY DEF Relay!ReceiveSecond, Relay!EndGrace, Relay!peers, Relay!clocks
<1>2. relay \in {"second", "grace"}
  BY DEF Relay!ReceiveSecond, Relay!EndGrace, Relay!GraceEnds
<1>3. PICK c \in Relay!Ends :
        OneResult(c) /\ (relay = "second" => ~failed[c]) /\ (relay = "grace" => firstErr)
  BY <1>2 DEF ChannelOK
<1> DEFINE o == Relay!Other(c)
<1>4. /\ o \in Relay!Ends /\ o # c /\ Relay!Other(o) = c
      /\ \A e \in Relay!Ends : e = c \/ e = o
      /\ failed[c] \in BOOLEAN /\ failed[o] \in BOOLEAN
  BY TwoEnds DEF RelayTypes
<1> HIDE DEF o
<1>5. /\ errc' = <<>>
      /\ errc = <<>> => relay = "grace" /\ left = 0 /\ firstErr'
      /\ errc # <<>> => flow[o] = "told"
      /\ relay = "second" => errc # <<>> /\ firstErr' = failed[o]
      /\ relay = "grace" => firstErr' = firstErr
      /\ firstErr' \in BOOLEAN
  <2>1. CASE errc = <<>>
    BY <1>2, <1>3, <2>1 DEF Relay!ReceiveSecond, Relay!EndGrace, Relay!GraceEnds, RelayTypes
  <2>2. CASE errc # <<>>
    <3>1. flow[o] = "told" /\ errc = <<failed[o]>>
      BY <1>3, <2>2 DEF OneResult, o
    <3>2. Head(errc) = failed[o] /\ Tail(errc) = <<>>
      BY <1>4, <3>1
    <3> QED
      BY <1>2, <1>4, <2>2, <3>1, <3>2
      DEF Relay!ReceiveSecond, Relay!EndGrace, Relay!GraceEnds, RelayTypes
  <2> QED BY <2>1, <2>2
<1>6. RelayTypes'
  <2>1. errc' \in Seq(BOOLEAN)
    BY <1>5
  <2> QED BY <1>1, <1>5, <2>1 DEF RelayTypes
<1>7. Amounts' /\ EndsOK' /\ GraceOK'
  BY <1>1 DEF Amounts, EndsOK, GraceOK
<1>8. ChannelOK'
  BY <1>1, <1>2, <1>3, <1>4, <1>5 DEF ChannelOK, OneResult, o
<1>9. Relay!CompleteWithoutError'
  <2> SUFFICES ASSUME ~firstErr'
               PROVE  \A e \in Relay!Ends : flow'[e] = "told" /\ inside'[e] = 0
    BY DEF Relay!CompleteWithoutError
  <2>1. relay = "second" /\ flow[c] = "told" /\ flow[o] = "told" /\ ~failed[c] /\ ~failed[o]
    BY <1>2, <1>3, <1>5 DEF OneResult
  <2>2. Drained(c) /\ Drained(o)
    BY <1>4, <2>1 DEF EndsOK
  <2> QED BY <1>1, <1>4, <2>1, <2>2 DEF Drained
<1>10. Relay!TailDelivered'
  <2>1. \A e \in Relay!Ends : due[e] = 0 \/ Lost(e)
    <3>1. CASE relay = "second" \/ left = 0
      BY <1>2, <3>1 DEF GraceOK
    <3>2. CASE errc # <<>>
      <4>1. \A e \in Relay!Ends : Drained(e) \/ Cut(e)
        BY <1>2, <1>3, <1>4, <1>5, <3>2 DEF EndsOK, OneResult
      <4> QED BY <4>1 DEF Drained, Amounts, RelayTypes, Lost
    <3> QED BY <1>5, <3>1, <3>2
  <2> QED BY <1>1, <2>1 DEF Relay!TailDelivered, Lost, Cut, Relay!Expired
<1> QED BY <1>6, <1>7, <1>8, <1>9, <1>10

\* When the grace runs out, nothing can be copied.
LEMMA RelayTickKeeps ==
  ASSUME RelayInv, Relay!Tick
  PROVE  RelayInv'
<1> USE RelayAssumption DEF Relay!TimesAssumption, RelayInv
<1>1. /\ relay' = relay /\ raw' = raw /\ flow' = flow /\ failed' = failed /\ errc' = errc
      /\ firstErr' = firstErr /\ peer' = peer /\ stalled' = stalled /\ sent' = sent
      /\ inside' = inside /\ due' = due
  BY DEF Relay!Tick, Relay!peers, Relay!caller
<1>2. /\ age' \in 0..IdleTimeout /\ idle' \in 0..IdleTimeout /\ left' \in 0..Grace
      /\ Relay!Expired => Relay!Expired'
  BY <1>1 DEF Relay!Tick, Relay!Lesser, RelayTypes, Relay!Expired
<1>3. RelayTypes' /\ Amounts'
  BY <1>1, <1>2 DEF RelayTypes, Amounts
<1>4. \A c \in Relay!Ends : Cut(c) => Cut(c)'
  BY <1>1, <1>2 DEF Cut
<1>5. EndsOK'
  BY <1>1, <1>4 DEF EndsOK, Drained
<1>6. GraceOK'
  <2>1. ASSUME relay = "grace", NEW c \in Relay!Ends
        PROVE  due[c] = 0 \/ Lost(c)
    <3>1. ~Relay!CanCopy(c)
      BY DEF Relay!Tick
    <3>2. flow[c] # "copy" => Drained(c) \/ Cut(c)
      BY <2>1 DEF EndsOK
    <3>3. due[c] > 0 => inside[c] > 0
      BY DEF Amounts, RelayTypes
    <3>4. due[c] \in Nat /\ inside[c] \in Nat
      BY DEF RelayTypes
    <3> QED
      BY <2>1, <3>1, <3>2, <3>3, <3>4
      DEF Relay!CanCopy, Relay!Closed, Drained, Lost, Cut
  <2> QED BY <1>1, <1>4, <2>1 DEF GraceOK, Lost
<1>7. ChannelOK'
  BY <1>1 DEF ChannelOK, OneResult
<1>8. Relay!CompleteWithoutError' /\ Relay!TailDelivered'
  BY <1>1, <1>2 DEF Relay!CompleteWithoutError, Relay!TailDelivered
<1> QED BY <1>3, <1>5, <1>6, <1>7, <1>8

\* A relay that reports no error has passed on everything both ways; one that does has
\* delivered what the other direction held, unless that was cut off (relay.go:13-49).
THEOREM RelayHolds == TunnelSpec => []RelayNothingDropped
<1>1. TunnelInit => RelayInv
  BY RelayBegins DEF TunnelInit
<1>2. RelayInv /\ [TunnelNext]_all => RelayInv'
  <2> SUFFICES ASSUME RelayInv, [TunnelNext]_all PROVE RelayInv'
    OBVIOUS
  <2>1. CASE Relay!Next
    BY <2>1, PeersKeep, CopyKeeps, CopyEndsKeeps, TellKeeps, ReceiveKeeps, ReturnKeeps,
       RelayTickKeeps
    DEF Relay!Next, Relay!Caller, Relay!Goroutine
  <2>2. CASE UNCHANGED relayVars
    BY <2>2
    DEF relayVars, RelayInv, RelayTypes, Amounts, EndsOK, ChannelOK, OneResult, GraceOK, Lost,
        Cut, Drained, Relay!Expired, Relay!CompleteWithoutError, Relay!TailDelivered
  <2>3. Relay!Next \/ UNCHANGED relayVars
    BY DEF TunnelNext, RelayRuns, CommandsRun, TerminalRuns, all
  <2> QED BY <2>1, <2>2, <2>3
<1>3. RelayInv => RelayNothingDropped
  BY DEF RelayInv, RelayNothingDropped
<1> QED BY <1>1, <1>2, <1>3, PTL DEF TunnelSpec
=============================================================================
