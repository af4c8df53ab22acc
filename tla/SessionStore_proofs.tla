------------------------- MODULE SessionStore_proofs -------------------------
(***************************************************************************)
(* Theorems of SessionStore for any number of tunnels, processes, secrets  *)
(* and connection states.                                                  *)
(***************************************************************************)
EXTENDS SessionStore, TLAPS

LEMMA ScrubType ==
  ASSUME NEW r \in Records
  PROVE  Scrub(r) \in Records /\ Scrubbed(Scrub(r))
BY RegisterAssumption DEF Scrub, Scrubbed, Readable, Records

LEMMA PreserveType ==
  ASSUME NEW f \in Files, NEW r \in Records
  PROVE  /\ Preserve(f, r) \in Records
         /\ Scrubbed(f) => Scrubbed(Preserve(f, r))
         /\ ~Scrubbed(f) => Preserve(f, r) = r
BY ScrubType DEF Preserve

LEMMA MutateType ==
  ASSUME NEW c \in Calls, NEW r \in Records
  PROVE  Mutate(c, r) \in Records
<1>1. c.rec \in Records /\ c.rec.state \in States
      /\ c.rec.secret \in Secrets \cup {NoSecret}
  BY DEF Calls, Records
<1> QED BY <1>1 DEF Mutate, Records

LEMMA CallFields ==
  ASSUME NEW c \in Calls
  PROVE  c.op \in Ops /\ c.t \in Tunnels /\ c.rec \in Records
BY DEF Calls

LEMMA CopyFields ==
  ASSUME NEW c \in Copies
  PROVE  c.t \in Tunnels /\ c.rec \in Records
BY DEF Copies

LEMMA InitTypes == Init => IInv
<1> SUFFICES ASSUME Init PROVE IInv OBVIOUS
<1>1. TypeOK
  BY NoProcAssumption DEF Init, TypeOK, Files, PCs
<1>2. LockInv /\ TmpInv /\ ScrubInv /\ SecretInv
  BY NoProcAssumption, SentinelAssumption
     DEF Init, LockInv, TmpInv, ScrubInv, SecretInv, Holding, Readable
<1> QED BY <1>1, <1>2 DEF IInv

LEMMA TypeStep == IInv /\ [Next]_vars => TypeOK'
<1> SUFFICES ASSUME IInv, [Next]_vars PROVE TypeOK'
  OBVIOUS
<1> USE DEF IInv
<1>t. TypeOK
  OBVIOUS
<1>h. \A p \in Procs : pc[p] \in {"locked", "scrub", "rename"} =>
        call[p] \in Calls
  BY DEF ScrubInv, TypeOK
<1>0. CASE UNCHANGED vars
  BY <1>0 DEF vars, TypeOK
<1>1. ASSUME NEW p \in Procs, NEW c \in Calls, Invoke(p, c)
      PROVE  TypeOK'
  <2>1. Passing(copy[p], c) \in Copies \cup {NoCopy}
    BY CallFields DEF TypeOK, Passing, Copies
  <2> QED BY <1>1, <2>1 DEF Invoke, TypeOK, Goto, PCs
<1>2. ASSUME NEW p \in Procs, Acquire(p) \/ TimeOut(p) \/ Error(p)
      PROVE  TypeOK'
  BY <1>2 DEF Acquire, TimeOut, Error, TypeOK, Goto, PCs
<1>3. ASSUME NEW p \in Procs, Get(p)
      PROVE  TypeOK'
  <2>1. [t |-> call[p].t, rec |-> file[call[p].t]] \in Copies
    BY <1>3, <1>h, CallFields DEF Get, Readable, Copies
  <2> QED BY <1>3, <2>1 DEF Get, TypeOK, Goto, PCs
<1>4. ASSUME NEW p \in Procs, NEW t \in Tunnels, NEW r \in Records,
             WriteTmp(p, t, r), UNCHANGED <<file, lock, call, copy>>,
             todo' \in [Procs -> SUBSET Tunnels]
      PROVE  TypeOK'
  <2>1. [t |-> t, rec |-> Preserve(file[t], r)] \in Copies
    BY PreserveType DEF TypeOK, Copies
  <2> QED BY <1>4, <2>1 DEF WriteTmp, TypeOK, Goto, PCs
<1>5. ASSUME NEW p \in Procs, Save(p)
      PROVE  TypeOK'
  <2>1. call[p].t \in Tunnels /\ call[p].rec \in Records
    BY <1>5, <1>h, CallFields DEF Save
  <2> QED BY <1>5, <2>1, <1>4 DEF Save, TypeOK
<1>6. ASSUME NEW p \in Procs, UpdateAtomic(p)
      PROVE  TypeOK'
  <2>1. /\ call[p] \in Calls /\ call[p].t \in Tunnels
        /\ Mutate(call[p], file[call[p].t]) \in Records
    BY <1>6, <1>h, CallFields, MutateType DEF UpdateAtomic, Readable
  <2> QED BY <1>6, <2>1, <1>4 DEF UpdateAtomic, TypeOK
<1>7. ASSUME NEW p \in Procs, Delete(p)
      PROVE  TypeOK'
  BY <1>7 DEF Delete, TypeOK, Goto, PCs, Files
<1>8. ASSUME NEW p \in Procs, ScrubStart(p)
      PROVE  TypeOK'
  BY <1>8 DEF ScrubStart, TypeOK, Goto, PCs
<1>9. ASSUME NEW p \in Procs, NEW t \in Tunnels,
             ScrubSkip(p, t) \/ ScrubRemove(p, t)
      PROVE  TypeOK'
  BY <1>9 DEF ScrubSkip, ScrubRemove, TypeOK, Files
<1>10. ASSUME NEW p \in Procs, NEW t \in Tunnels, ScrubWrite(p, t)
       PROVE  TypeOK'
  <2>1. Scrub(file[t]) \in Records
    BY <1>10, ScrubType DEF ScrubWrite, Readable
  <2>2. todo' \in [Procs -> SUBSET Tunnels]
    BY <1>10 DEF ScrubWrite, TypeOK
  <2> QED BY <1>10, <2>1, <2>2, <1>4 DEF ScrubWrite
<1>11. ASSUME NEW p \in Procs, Rename(p)
       PROVE  TypeOK'
  <2>1. tmp[p] \in Copies /\ tmp[p].t \in Tunnels /\ tmp[p].rec \in Files
    BY <1>11, CopyFields DEF Rename, TmpInv, Intended, TypeOK, Files
  <2>2. copy' \in [Procs -> Copies \cup {NoCopy}]
    <3>1. CASE call[p].op \in Atomic
      <4>1. call[p] \in Calls /\ call[p].t \in Tunnels
        BY <1>11, <1>h, CallFields DEF Rename
      <4>2. Readable(file[call[p].t])
        BY <1>11, <3>1 DEF Rename, TmpInv, Intended, Atomic
      <4>3. [t |-> call[p].t, rec |-> Mutate(call[p], file[call[p].t])]
              \in Copies
        BY <4>1, <4>2, MutateType DEF Readable, Copies
      <4> QED BY <1>11, <3>1, <4>3 DEF Rename, TypeOK
    <3>2. CASE call[p].op \notin Atomic
      BY <1>11, <3>2 DEF Rename, TypeOK
    <3> QED BY <3>1, <3>2
  <2> QED BY <1>11, <2>1, <2>2 DEF Rename, TypeOK, Goto, PCs
<1>12. ASSUME NEW p \in Procs,
              ScrubEnd(p) \/ Release(p) \/ Crash(p)
       PROVE  TypeOK'
  BY <1>12 DEF ScrubEnd, Release, Crash, TypeOK, Goto, PCs
<1> QED
  BY <1>0, <1>1, <1>2, <1>3, <1>5, <1>6, <1>7, <1>8, <1>9, <1>10, <1>11,
     <1>12 DEF Next, Step

\* At most one process is past the lock, so nobody else can touch a file.
LEMMA Exclusive ==
  ASSUME IInv, NEW p \in Procs, NEW q \in Procs, Holding(p), Holding(q)
  PROVE  p = q
BY DEF IInv, LockInv

LEMMA LockStep == IInv /\ [Next]_vars => LockInv'
<1> SUFFICES ASSUME TypeOK, LockInv, [Next]_vars PROVE LockInv'
  BY DEF IInv
<1> USE NoProcAssumption DEF TypeOK, LockInv, Holding, Goto
<1>0. CASE UNCHANGED vars
  BY <1>0 DEF vars
<1>1. ASSUME NEW p \in Procs, NEW c \in Calls, Invoke(p, c)
      PROVE  LockInv'
  BY <1>1 DEF Invoke
<1>2. ASSUME NEW p \in Procs, Acquire(p)
      PROVE  LockInv'
  BY <1>2 DEF Acquire
<1>3. ASSUME NEW p \in Procs, TimeOut(p)
      PROVE  LockInv'
  BY <1>3 DEF TimeOut
<1>4. ASSUME NEW p \in Procs,
             Error(p) \/ Get(p) \/ Save(p) \/ UpdateAtomic(p) \/ Delete(p)
               \/ ScrubStart(p) \/ ScrubEnd(p) \/ Rename(p)
      PROVE  LockInv'
  <2>1. /\ pc[p] \in {"locked", "rename", "scrub"} /\ lock' = lock
        /\ \E l \in {"rename", "scrub", "unlock", "failed"} :
              pc' = [pc EXCEPT ![p] = l]
    BY <1>4 DEF Error, Get, Save, UpdateAtomic, Delete, ScrubStart, ScrubEnd,
       Rename, WriteTmp
  <2> QED BY <2>1
<1>5. ASSUME NEW p \in Procs, NEW t \in Tunnels,
             ScrubSkip(p, t) \/ ScrubRemove(p, t) \/ ScrubWrite(p, t)
      PROVE  LockInv'
  BY <1>5 DEF ScrubSkip, ScrubRemove, ScrubWrite, WriteTmp
<1>6. ASSUME NEW p \in Procs, Release(p) \/ Crash(p)
      PROVE  LockInv'
  BY <1>6 DEF Release, Crash
<1> QED
  BY <1>0, <1>1, <1>2, <1>3, <1>4, <1>5, <1>6 DEF Next, Step

\* A step of p leaves what every other process is about to rename alone: a
\* process in "rename" holds the lock, so p does not, and p changes no file.
LEMMA OthersKeep ==
  ASSUME IInv, NEW p \in Procs, NEW q \in Procs, q # p,
         pc' = [pc EXCEPT ![p] = pc'[p]],
         call' = [call EXCEPT ![p] = call'[p]],
         tmp' = [tmp EXCEPT ![p] = tmp'[p]],
         todo' = [todo EXCEPT ![p] = todo'[p]],
         ~Holding(p) => file' = file
  PROVE  /\ pc[q] = pc'[q] /\ call[q] = call'[q] /\ tmp[q] = tmp'[q]
         /\ todo[q] = todo'[q]
         /\ Holding(q) => file' = file
BY Exclusive DEF IInv, TypeOK

\* What every step of one process has in common.
LEMMA StepOfOne ==
  ASSUME IInv, Next
  PROVE  \E p \in Procs :
           /\ (\E c \in Calls : Invoke(p, c)) \/ Step(p) \/ Crash(p)
           /\ pc' = [pc EXCEPT ![p] = pc'[p]]
           /\ call' = [call EXCEPT ![p] = call'[p]]
           /\ tmp' = [tmp EXCEPT ![p] = tmp'[p]]
           /\ todo' = [todo EXCEPT ![p] = todo'[p]]
           /\ ~Holding(p) => file' = file
<1>1. PICK p \in Procs : (\E c \in Calls : Invoke(p, c)) \/ Step(p) \/ Crash(p)
  BY DEF Next
<1> USE DEF IInv, TypeOK, Goto, WriteTmp, Holding
<1>2. ASSUME NEW c \in Calls, Invoke(p, c)
      PROVE  /\ pc' = [pc EXCEPT ![p] = pc'[p]]
             /\ call' = [call EXCEPT ![p] = call'[p]]
             /\ tmp' = [tmp EXCEPT ![p] = tmp'[p]]
             /\ todo' = [todo EXCEPT ![p] = todo'[p]]
             /\ file' = file
  BY <1>2 DEF Invoke
<1>3. ASSUME Step(p) \/ Crash(p)
      PROVE  /\ pc' = [pc EXCEPT ![p] = pc'[p]]
             /\ call' = [call EXCEPT ![p] = call'[p]]
             /\ tmp' = [tmp EXCEPT ![p] = tmp'[p]]
             /\ todo' = [todo EXCEPT ![p] = todo'[p]]
             /\ ~Holding(p) => file' = file
  <2>1. CASE Acquire(p) \/ TimeOut(p) \/ Error(p) \/ Get(p) \/ Save(p)
               \/ UpdateAtomic(p) \/ Delete(p) \/ ScrubStart(p)
    BY <2>1 DEF Acquire, TimeOut, Error, Get, Save, UpdateAtomic, Delete,
       ScrubStart
  <2>2. CASE \E t \in Tunnels :
               ScrubSkip(p, t) \/ ScrubRemove(p, t) \/ ScrubWrite(p, t)
    BY <2>2 DEF ScrubSkip, ScrubRemove, ScrubWrite
  <2>3. CASE ScrubEnd(p) \/ Rename(p) \/ Release(p) \/ Crash(p)
    BY <2>3 DEF ScrubEnd, Rename, Release, Crash
  <2> QED BY <1>3, <2>1, <2>2, <2>3 DEF Step
<1> QED BY <1>1, <1>2, <1>3

LEMMA TmpStep == IInv /\ [Next]_vars => TmpInv'
<1> SUFFICES ASSUME IInv, [Next]_vars PROVE TmpInv'
  OBVIOUS
<1>0. CASE UNCHANGED vars
  BY <1>0 DEF vars, IInv, TmpInv, Intended, Readable, Declines, Preserve, Scrubbed
<1>1. CASE Next
  <2>1. PICK p \in Procs :
           /\ (\E c \in Calls : Invoke(p, c)) \/ Step(p) \/ Crash(p)
           /\ pc' = [pc EXCEPT ![p] = pc'[p]]
           /\ call' = [call EXCEPT ![p] = call'[p]]
           /\ tmp' = [tmp EXCEPT ![p] = tmp'[p]]
           /\ todo' = [todo EXCEPT ![p] = todo'[p]]
           /\ ~Holding(p) => file' = file
    BY <1>1, StepOfOne
  <2>2. SUFFICES ASSUME NEW q \in Procs, pc'[q] = "rename"
                 PROVE  Intended(q)'
    BY DEF TmpInv, Intended
  <2>3. CASE q # p
    <3>1. pc[q] = "rename" /\ call[q] = call'[q] /\ tmp[q] = tmp'[q]
          /\ file' = file
      BY <2>1, <2>2, <2>3, OthersKeep DEF Holding
    <3>2. Intended(q)
      BY <3>1 DEF IInv, TmpInv, Intended
    <3> QED BY <3>1, <3>2 DEF Intended
  <2>4. CASE q = p
    <3>t. TypeOK /\ (pc[p] # "idle" => call[p] \in Calls)
      BY DEF IInv, TypeOK, ScrubInv, PCs
    <3>1. Save(p) \/ UpdateAtomic(p) \/ \E t \in Tunnels : ScrubWrite(p, t)
      <4>1. ASSUME pc[p] # "rename"
            PROVE  Save(p) \/ UpdateAtomic(p)
                     \/ \E t \in Tunnels : ScrubWrite(p, t)
        BY <2>1, <2>2, <2>4, <3>t, <4>1 DEF TypeOK, Goto, Step, Invoke, Acquire,
           TimeOut, Error, Get, Delete, ScrubStart, ScrubSkip, ScrubRemove,
           ScrubEnd, Rename, Release, Crash
      <4>2. ASSUME pc[p] = "rename" PROVE FALSE
        BY <2>1, <2>2, <2>4, <3>t, <4>2 DEF TypeOK, Goto, WriteTmp, Step,
           Invoke, Acquire, TimeOut, Error, Get, Save, UpdateAtomic, Delete,
           ScrubStart, ScrubSkip, ScrubRemove, ScrubWrite, ScrubEnd, Rename,
           Release, Crash
      <4> QED BY <4>1, <4>2
    <3>2. CASE Save(p)
      <4>1. tmp'[p] = [t |-> call[p].t,
                       rec |-> Preserve(file[call[p].t], call[p].rec)]
            /\ file' = file /\ call' = call
        BY <3>2, <3>t DEF Save, WriteTmp, TypeOK
      <4>2. call[p] \in Calls /\ tmp'[p] \in Copies
        <5>1. call[p] \in Calls
          BY <3>2, <3>t DEF Save
        <5> QED BY <4>1, <5>1, <3>t, CallFields, PreserveType DEF TypeOK, Copies
      <4>3. call[p].op \in {"save", "update"} /\ file[call[p].t] # Corrupt
            /\ (call[p].op = "update" => file[call[p].t] # NoRecord)
        BY <3>2, SentinelAssumption DEF Save, Readable
      <4> QED BY <4>1, <4>2, <4>3, <2>4, SentinelAssumption DEF Intended
    <3>3. CASE UpdateAtomic(p)
      <4>1. tmp'[p] = [t |-> call[p].t,
                       rec |-> Preserve(file[call[p].t],
                                        Mutate(call[p], file[call[p].t]))]
            /\ file' = file /\ call' = call
        BY <3>3, <3>t DEF UpdateAtomic, WriteTmp, TypeOK
      <4>2. call[p] \in Calls /\ tmp'[p] \in Copies
        <5>1. call[p] \in Calls /\ Readable(file[call[p].t])
          BY <3>3, <3>t DEF UpdateAtomic
        <5> QED BY <4>1, <5>1, <3>t, CallFields, MutateType, PreserveType
                DEF TypeOK, Copies, Readable
      <4>3. call[p].op \in Atomic /\ Readable(file[call[p].t])
            /\ ~Declines(call[p], file[call[p].t])
        BY <3>3 DEF UpdateAtomic
      <4> QED BY <4>1, <4>2, <4>3, <2>4, SentinelAssumption DEF Intended
    <3>4. ASSUME NEW t \in Tunnels, ScrubWrite(p, t)
          PROVE  Intended(p)'
      <4>1. tmp'[p] = [t |-> t, rec |-> Preserve(file[t], Scrub(file[t]))]
            /\ file' = file /\ call' = call
        BY <3>4, <3>t DEF ScrubWrite, WriteTmp, TypeOK
      <4>2. Readable(file[t]) /\ ~Scrubbed(file[t]) /\ call[p] \in Calls
            /\ call[p].op = "scrub"
        BY <3>4, <3>t DEF ScrubWrite, IInv, ScrubInv
      <4>3. tmp'[p] \in Copies /\ tmp'[p].rec = Scrub(file[t])
        BY <4>1, <4>2, <3>t, ScrubType, PreserveType
           DEF Copies, Readable, TypeOK, Preserve
      <4> QED BY <4>1, <4>2, <4>3, SentinelAssumption DEF Intended
    <3> QED BY <2>4, <3>1, <3>2, <3>3, <3>4
  <2> QED BY <2>3, <2>4
<1> QED BY <1>0, <1>1

LEMMA ScrubStep == IInv /\ [Next]_vars => ScrubInv'
<1> SUFFICES ASSUME IInv, [Next]_vars PROVE ScrubInv'
  OBVIOUS
<1>0. CASE UNCHANGED vars
  BY <1>0 DEF vars, IInv, ScrubInv, Clean, Scrubbed, Readable
<1>1. CASE Next
  <2>1. PICK p \in Procs :
           /\ (\E c \in Calls : Invoke(p, c)) \/ Step(p) \/ Crash(p)
           /\ pc' = [pc EXCEPT ![p] = pc'[p]]
           /\ call' = [call EXCEPT ![p] = call'[p]]
           /\ tmp' = [tmp EXCEPT ![p] = tmp'[p]]
           /\ todo' = [todo EXCEPT ![p] = todo'[p]]
           /\ ~Holding(p) => file' = file
    BY <1>1, StepOfOne
  <2> DEFINE One(q) ==
         /\ pc[q] = "idle" <=> call[q] = NoCall
         /\ pc[q] = "scrub" => /\ call[q].op = "scrub"
                               /\ \A t \in Tunnels \ todo[q] : Clean(file[t])
         /\ pc[q] = "rename" /\ call[q].op = "scrub" =>
              \A t \in Tunnels \ (todo[q] \cup {tmp[q].t}) : Clean(file[t])
  <2>2. SUFFICES ASSUME NEW q \in Procs PROVE One(q)'
    BY DEF ScrubInv
  <2>3. One(q)
    BY DEF IInv, ScrubInv
  <2>4. CASE q # p
    BY <2>1, <2>3, <2>4, OthersKeep DEF Holding
  <2>5. CASE q = p
    <3> USE <2>5
    <3>t. TypeOK
      BY DEF IInv
    <3> USE DEF TypeOK, Goto, WriteTmp, Clean, Scrubbed
    <3>1. ASSUME NEW c \in Calls, Invoke(p, c) PROVE One(q)'
      BY <3>1, <3>t, SentinelAssumption DEF Invoke
    <3>2. CASE Acquire(p) \/ TimeOut(p) \/ Error(p) \/ Get(p) \/ Delete(p)
      BY <3>2, <3>t, <2>3 DEF Acquire, TimeOut, Error, Get, Delete
    <3>3. CASE Save(p) \/ UpdateAtomic(p)
      BY <3>3, <3>t, <2>3 DEF Save, UpdateAtomic, Atomic
    <3>4. CASE ScrubStart(p)
      BY <3>4, <3>t, <2>3 DEF ScrubStart
    <3>5. ASSUME NEW t \in Tunnels, ScrubSkip(p, t) \/ ScrubRemove(p, t)
          PROVE  One(q)'
      BY <3>5, <3>t, <2>3 DEF ScrubSkip, ScrubRemove
    <3>6. ASSUME NEW t \in Tunnels, ScrubWrite(p, t)
          PROVE  One(q)'
      BY <3>6, <3>t, <2>3 DEF ScrubWrite
    <3>7. CASE ScrubEnd(p) \/ Release(p) \/ Crash(p)
      BY <3>7, <3>t, <2>3 DEF ScrubEnd, Release, Crash
    <3>8. CASE Rename(p)
      <4>1. Intended(p) /\ call' = call /\ todo' = todo
            /\ file' = [file EXCEPT ![tmp[p].t] = tmp[p].rec]
            /\ tmp[p] \in Copies
        BY <3>8, <3>t DEF Rename, IInv, TmpInv, Intended
      <4>2. CASE call[p].op # "scrub"
        BY <3>8, <3>t, <2>3, <4>1, <4>2 DEF Rename
      <4>3. CASE call[p].op = "scrub"
        <5>1. tmp[p].rec = Scrub(file[tmp[p].t])
              /\ file[tmp[p].t] \in Records /\ tmp[p].t \in Tunnels
          BY <4>1, <4>3, CopyFields DEF Intended, Atomic, Readable
        <5>2. Clean(file'[tmp[p].t])
          BY <4>1, <5>1, <3>t, ScrubType
        <5>3. \A t \in Tunnels \ (todo[p] \cup {tmp[p].t}) : Clean(file[t])
          BY <3>8, <4>3, <2>3 DEF Rename
        <5>4. pc'[p] = "scrub"
          BY <3>8, <4>3, <3>t DEF Rename
        <5> HIDE DEF Clean
        <5>5. \A t \in Tunnels \ todo[p] : Clean(file'[t])
          BY <4>1, <5>2, <5>3, <3>t
        <5> QED BY <4>1, <4>3, <5>4, <5>5, <2>3, <3>8 DEF Rename
      <4> QED BY <4>2, <4>3
    <3> QED
      BY <2>1, <3>1, <3>2, <3>3, <3>4, <3>5, <3>6, <3>7, <3>8 DEF Step
  <2> QED BY <2>4, <2>5
<1> QED BY <1>0, <1>1

LEMMA BareEdits ==
  ASSUME NEW cp \in Copies \cup {NoCopy}, cp # NoCopy => Bare(cp.rec),
         NEW c \in Calls, Callable(cp, c), c.op \in {"save", "update"}
  PROVE  Bare(c.rec)
<1>1. CASE c.rec \in Fresh
  BY <1>1 DEF Fresh, Bare
<1>2. CASE cp # NoCopy /\ c.rec \in Edits(cp.rec)
  <2>1. cp.rec \in Records /\ Bare(cp.rec)
    BY <1>2, CopyFields
  <2> QED BY <1>2, <2>1 DEF Edits, Bare, Records
<1> QED BY <1>1, <1>2 DEF Callable

LEMMA BareScrub ==
  ASSUME NEW r \in Records
  PROVE  Bare(Scrub(r))
BY DEF Bare, Scrub, Records

LEMMA BareWrites ==
  ASSUME NEW f \in Files, NEW r \in Records, Bare(r)
  PROVE  Bare(Preserve(f, r))
BY BareScrub DEF Preserve

LEMMA BareMutate ==
  ASSUME NEW c \in Calls, NEW r \in Records, Bare(r), ~Declines(c, r),
         c.op \in Atomic
  PROVE  Bare(Mutate(c, r))
<1>1. CASE c.op = "mark"
  BY <1>1 DEF Mutate, Bare, Records
<1>2. CASE c.op = "adopt"
  BY <1>2 DEF Mutate, Declines, Bare, Records
<1> QED BY <1>1, <1>2 DEF Atomic

LEMMA SecretStep == IInv /\ [Next]_vars => SecretInv'
<1> SUFFICES ASSUME IInv, [Next]_vars PROVE SecretInv'
  OBVIOUS
<1>0. CASE UNCHANGED vars
  BY <1>0 DEF vars, IInv, SecretInv, Readable
<1>t. TypeOK /\ SecretInv /\ (\A p \in Procs : pc[p] # "idle" => call[p] \in Calls)
  BY DEF IInv, TypeOK, ScrubInv, PCs
<1>1. ASSUME NEW p \in Procs, NEW c \in Calls, Invoke(p, c)
      PROVE  SecretInv'
  <2>1. Callable(copy[p], c) /\ file' = file
        /\ call' = [call EXCEPT ![p] = c]
        /\ copy' = [copy EXCEPT ![p] = Passing(copy[p], c)]
    BY <1>1 DEF Invoke
  <2>2. c.op \in {"save", "update"} => Bare(c.rec)
    BY <1>t, <2>1, BareEdits DEF TypeOK, SecretInv
  <2>3. Passing(copy[p], c) # NoCopy => Bare(Passing(copy[p], c).rec)
    BY <1>t, <2>2, CallFields DEF Passing, SecretInv
  <2> QED BY <1>t, <2>1, <2>2, <2>3 DEF SecretInv, TypeOK, Readable
<1>2. ASSUME NEW p \in Procs,
             \/ Acquire(p) \/ TimeOut(p) \/ Error(p) \/ Save(p)
             \/ UpdateAtomic(p) \/ Delete(p) \/ ScrubStart(p) \/ ScrubEnd(p)
             \/ Release(p) \/ Crash(p)
             \/ \E t \in Tunnels :
                  ScrubSkip(p, t) \/ ScrubRemove(p, t) \/ ScrubWrite(p, t)
      PROVE  SecretInv'
  <2>1. /\ \A t \in Tunnels : file'[t] \in {file[t], NoRecord}
        /\ \A q \in Procs : /\ call'[q] \in {call[q], NoCall}
                            /\ copy'[q] \in {copy[q], NoCopy}
    BY <1>2, <1>t DEF TypeOK, WriteTmp, Goto, Acquire, TimeOut, Error, Save,
       UpdateAtomic, Delete, ScrubStart, ScrubEnd, Release, Crash,
       ScrubSkip, ScrubRemove, ScrubWrite
  <2> QED BY <2>1, <1>t, SentinelAssumption DEF SecretInv, Readable
<1>3. ASSUME NEW p \in Procs, Get(p)
      PROVE  SecretInv'
  <2>1. Readable(file[call[p].t]) /\ call[p].t \in Tunnels
    BY <1>3, <1>t, CallFields DEF Get
  <2>2. Bare(file[call[p].t]) /\ file' = file /\ call' = call
        /\ copy' = [copy EXCEPT ![p] = [t |-> call[p].t, rec |-> file[call[p].t]]]
    BY <1>3, <2>1, <1>t DEF Get, SecretInv
  <2> QED BY <2>2, <1>t DEF SecretInv, TypeOK, Readable
<1>4. ASSUME NEW p \in Procs, Rename(p)
      PROVE  SecretInv'
  <2> DEFINE c == call[p]
             u == tmp[p].t
  <2>1. Intended(p) /\ c \in Calls /\ c.t \in Tunnels /\ c.rec \in Records
        /\ tmp[p] \in Copies /\ u \in Tunnels /\ call' = call
        /\ file' = [file EXCEPT ![u] = tmp[p].rec]
    <3>1. Intended(p) /\ tmp[p] \in Copies /\ c \in Calls
      BY <1>4, <1>t DEF Rename, IInv, TmpInv, Intended, TypeOK
    <3> QED BY <1>4, <3>1, CallFields, CopyFields DEF Rename
  <2>2. Bare(tmp[p].rec)
    <3>1. CASE c.op \in {"save", "update"}
      BY <3>1, <2>1, <1>t, BareWrites DEF Intended, SecretInv, TypeOK, Atomic
    <3>2. CASE c.op \in Atomic
      <4>1. Readable(file[u]) /\ ~Declines(c, file[u])
            /\ tmp[p].rec = Preserve(file[u], Mutate(c, file[u]))
        BY <3>2, <2>1 DEF Intended, Atomic
      <4>2. Bare(Mutate(c, file[u])) /\ Mutate(c, file[u]) \in Records
        BY <3>2, <4>1, <2>1, <1>t, BareMutate, MutateType DEF SecretInv, Readable
      <4> QED BY <4>1, <4>2, <2>1, <1>t, BareWrites DEF TypeOK
    <3>3. CASE c.op = "scrub"
      BY <3>3, <2>1, BareScrub DEF Intended, Atomic, Readable
    <3> QED BY <2>1, <3>1, <3>2, <3>3 DEF Intended
  <2>3. copy'[p] # NoCopy => Bare(copy'[p].rec)
    <3>1. CASE c.op \in Atomic
      <4>1. Readable(file[u]) /\ ~Declines(c, file[u]) /\ u = c.t
        BY <3>1, <2>1 DEF Intended, Atomic
      <4>2. Bare(Mutate(c, file[u]))
        BY <3>1, <4>1, <2>1, <1>t, BareMutate DEF SecretInv, Readable
      <4> QED BY <1>4, <3>1, <4>1, <4>2, <1>t DEF Rename, TypeOK
    <3>2. CASE c.op \notin Atomic
      BY <1>4, <3>2, <1>t DEF Rename, SecretInv
    <3> QED BY <3>1, <3>2
  <2>4. \A q \in Procs \ {p} : copy'[q] = copy[q]
    BY <1>4, <1>t DEF Rename, TypeOK
  <2> QED BY <2>1, <2>2, <2>3, <2>4, <1>t DEF SecretInv, TypeOK, Readable
<1> QED BY <1>0, <1>1, <1>2, <1>3, <1>4 DEF Next, Step

\* The inductive invariant: types, who holds the lock, what is about to be
\* renamed into place, what ScrubCredentials has behind it, and that nothing
\* marked scrubbed holds a secret.
THEOREM Invariance == Spec => []IInv
<1>1. IInv /\ [Next]_vars => IInv'
  BY TypeStep, LockStep, TmpStep, ScrubStep, SecretStep DEF IInv
<1> QED BY InitTypes, <1>1, PTL DEF Spec

\* The store's variables stay in their types.
THEOREM TypeCorrect == Spec => []TypeOK
<1>1. IInv => TypeOK
  BY DEF IInv
<1> QED BY Invariance, <1>1, PTL

\* A step that changes t's file is a Rename, a Delete or a ScrubRemove.
LEMMA FileChanges ==
  ASSUME IInv, [Next]_vars, NEW t \in Tunnels, file'[t] # file[t]
  PROVE  \E p \in Procs :
           \/ Rename(p) /\ tmp[p].t = t /\ file'[t] = tmp[p].rec
           \/ file'[t] = NoRecord /\ pc[p] \in {"locked", "scrub"} /\ lock = p
<1>1. PICK p \in Procs : (\E c \in Calls : Invoke(p, c)) \/ Step(p) \/ Crash(p)
  BY DEF Next, vars
<1>2. Delete(p) \/ Rename(p) \/ \E u \in Tunnels : ScrubRemove(p, u)
  BY <1>1 DEF Invoke, Step, Crash, Acquire, TimeOut, Error, Get, Save,
     UpdateAtomic, ScrubStart, ScrubSkip, ScrubWrite, ScrubEnd,
     Release
<1>3. TypeOK /\ LockInv
  BY DEF IInv
<1>4. CASE Delete(p) \/ \E u \in Tunnels : ScrubRemove(p, u)
  BY <1>3, <1>4 DEF Delete, ScrubRemove, TypeOK, LockInv, Holding
<1>5. CASE Rename(p)
  BY <1>3, <1>5 DEF Rename, TypeOK
<1> QED BY <1>2, <1>4, <1>5

LEMMA StickyStep ==
  ASSUME IInv, [Next]_vars, NEW t \in Tunnels,
         Scrubbed(file[t]), file'[t] # NoRecord
  PROVE  Scrubbed(file'[t])
<1>1. CASE file'[t] = file[t]
  BY <1>1 DEF Scrubbed, Readable
<1>2. CASE file'[t] # file[t]
  <2>1. PICK p \in Procs : Rename(p) /\ tmp[p].t = t /\ file'[t] = tmp[p].rec
    BY <1>2, FileChanges
  <2>2. Intended(p) /\ call[p] \in Calls /\ file[t] \in Files
    BY <2>1 DEF Rename, IInv, TmpInv, Intended, TypeOK
  <2>3. CASE call[p].op \in {"save", "update"}
    BY <2>1, <2>2, <2>3, CallFields, PreserveType DEF Intended, Atomic
  <2>4. CASE call[p].op \in Atomic
    BY <2>1, <2>2, <2>4, MutateType, PreserveType DEF Intended, Atomic, Readable
  <2> QED BY <2>1, <2>2, <2>3, <2>4 DEF Intended
<1> QED BY <1>1, <1>2

\* Once scrubbed, a record stays scrubbed until it is deleted.
THEOREM StickyHolds == Spec => ScrubSticky
<1>1. IInv /\ [Next]_vars =>
        [\A t \in Tunnels : Scrubbed(file[t]) /\ file'[t] # NoRecord
                              => Scrubbed(file'[t])]_vars
  BY StickyStep
<1> QED BY Invariance, <1>1, PTL DEF Spec, ScrubSticky

\* A ScrubCredentials that succeeds leaves no credentials in any record.
THEOREM CompletesHolds == Spec => ScrubCompletes
<1>1. ASSUME IInv, [Next]_vars, NEW p \in Procs,
             pc[p] = "scrub", pc'[p] = "unlock"
      PROVE  \A t \in Tunnels : Clean(file'[t])
  <2>1. PICK q \in Procs :
           /\ (\E c \in Calls : Invoke(q, c)) \/ Step(q) \/ Crash(q)
           /\ pc' = [pc EXCEPT ![q] = pc'[q]]
    <3>1. Next
      BY <1>1 DEF vars
    <3> QED BY <1>1, <3>1, StepOfOne
  <2>2. q = p
    BY <1>1, <2>1 DEF IInv, TypeOK
  <2>3. ScrubEnd(p)
    BY <1>1, <2>1, <2>2 DEF IInv, TypeOK, Goto, WriteTmp, Step, Invoke, Crash,
       Acquire, TimeOut, Error, Get, Save, UpdateAtomic, Delete, ScrubStart,
       ScrubSkip, ScrubRemove, ScrubWrite, Rename, Release
  <2> QED BY <1>1, <2>3 DEF ScrubEnd, IInv, ScrubInv, Clean, Scrubbed, Readable
<1>2. IInv /\ [Next]_vars =>
        [\A p \in Procs : pc[p] = "scrub" /\ pc'[p] = "unlock"
                            => \A t \in Tunnels : Clean(file'[t])]_vars
  BY <1>1
<1> QED BY Invariance, <1>2, PTL DEF Spec, ScrubCompletes

\* A worker's conditional update changes the connection state of the record
\* that is there, never one that says "stopped", and nothing else.
THEOREM MarkHolds == Spec => MarkKeepsOthersWrites
<1>1. ASSUME IInv, [Next]_vars, NEW p \in Procs, NEW t \in Tunnels,
             pc[p] = "rename", call[p] # NoCall, call[p].op = "mark",
             file'[t] # file[t]
      PROVE  /\ Readable(file[t]) /\ Readable(file'[t])
             /\ file[t].state # "stopped"
             /\ file'[t] = [file[t] EXCEPT !.state = file'[t].state]
  <2>1. PICK q \in Procs :
           \/ Rename(q) /\ tmp[q].t = t /\ file'[t] = tmp[q].rec
           \/ file'[t] = NoRecord /\ pc[q] \in {"locked", "scrub"} /\ lock = q
    BY <1>1, FileChanges
  <2>2. q = p
    BY <1>1, <2>1, Exclusive DEF IInv, LockInv, Holding, Rename
  <2>3. /\ Intended(p) /\ call[p] \in Calls
        /\ tmp[p].t = t /\ file'[t] = tmp[p].rec
    BY <1>1, <2>1, <2>2 DEF IInv, TmpInv, TypeOK
  <2>4. /\ file[t] \in Records /\ ~Declines(call[p], file[t])
        /\ file'[t] = Preserve(file[t], Mutate(call[p], file[t]))
    BY <1>1, <2>3 DEF Intended, Readable
  <2>5. file[t].state # "stopped"
    BY <1>1, <2>4 DEF Declines
  <2>6. call[p].rec.state \in States
    BY <2>3 DEF Calls, Records
  <2>7. Mutate(call[p], file[t]) = [file[t] EXCEPT !.state = call[p].rec.state]
    BY <1>1 DEF Mutate
  <2>8. CASE ~Scrubbed(file[t])
    <3>1. file'[t] = [file[t] EXCEPT !.state = call[p].rec.state]
      BY <2>4, <2>7, <2>8 DEF Preserve
    <3> QED BY <2>4, <2>5, <2>6, <3>1 DEF Readable, Records
  <2>9. CASE Scrubbed(file[t])
    <3>1. file[t].secret = NoSecret /\ file[t].scrubbed
      BY <1>1, <2>4, <2>9 DEF IInv, SecretInv, Bare, Readable, Scrubbed
    <3>2. file'[t] = Scrub([file[t] EXCEPT !.state = call[p].rec.state])
      BY <2>4, <2>7, <2>9 DEF Preserve
    <3>3. file'[t] = [file[t] EXCEPT !.state = "stopped"]
      BY <2>4, <3>1, <3>2 DEF Scrub, Records
    <3> QED BY <2>4, <2>5, <3>3, RegisterAssumption DEF Readable, Records
  <2> QED BY <2>8, <2>9
<1>2. IInv /\ [Next]_vars =>
        [\A p \in Procs, t \in Tunnels :
           (/\ pc[p] = "rename" /\ call[p] # NoCall /\ call[p].op = "mark"
            /\ file'[t] # file[t])
           => /\ Readable(file[t]) /\ Readable(file'[t])
              /\ file[t].state # "stopped"
              /\ file'[t] = [file[t] EXCEPT !.state = file'[t].state]]_vars
  BY <1>1
<1> QED BY Invariance, <1>2, PTL DEF Spec, MarkKeepsOthersWrites

\* A scrubbed record holds no secret.
THEOREM NoSecretHolds == Spec => []ScrubbedHasNoSecret
<1>1. IInv => ScrubbedHasNoSecret
  BY DEF IInv, SecretInv, Bare, ScrubbedHasNoSecret, Scrubbed, Readable
<1> QED BY Invariance, <1>1, PTL

\* The register's copy of SessionData says the same as the store's own.
LEMMA SameData ==
  /\ Register!Atomic = Atomic
  /\ \A f : Register!Readable(f) = Readable(f)
  /\ \A f : Register!Scrubbed(f) = Scrubbed(f)
  /\ \A f : Register!Clean(f) = Clean(f)
  /\ \A r : Register!Scrub(r) = Scrub(r)
  /\ \A f, r : Register!Preserve(f, r) = Preserve(f, r)
  /\ \A c, r : Register!Declines(c, r) = Declines(c, r)
  /\ \A c, r : Register!Mutate(c, r) = Mutate(c, r)
  /\ \A cp, c : Register!Passing(cp, c) = Passing(cp, c)
  /\ \A cp, c : Register!Callable(cp, c) = Callable(cp, c)
<1>1. /\ Register!Records = Records /\ Register!Calls = Calls
      /\ Register!Fresh = Fresh /\ Register!Blank = Blank
      /\ Register!Atomic = Atomic
  BY DEF Register!Records, Records, Register!Calls, Calls, Register!Ops, Ops,
     Register!Fresh, Fresh, Register!Blank, Blank, Register!Atomic, Atomic
<1>2. /\ \A f : Register!Readable(f) = Readable(f)
      /\ \A f : Register!Scrubbed(f) = Scrubbed(f)
      /\ \A f : Register!Clean(f) = Clean(f)
      /\ \A r : Register!Scrub(r) = Scrub(r)
      /\ \A f, r : Register!Preserve(f, r) = Preserve(f, r)
      /\ \A cp, c : Register!Passing(cp, c) = Passing(cp, c)
  BY <1>1 DEF Register!Readable, Readable, Register!Scrubbed, Scrubbed,
     Register!Clean, Clean, Register!Scrub, Scrub, Register!Preserve, Preserve,
     Register!Passing, Passing
<1>3. /\ \A c, r : Register!Declines(c, r) = Declines(c, r)
      /\ \A c, r : Register!Mutate(c, r) = Mutate(c, r)
  BY DEF Register!Declines, Declines, Register!Mutate, Mutate
<1>4. \A r : Register!Edits(r) = Edits(r)
  BY DEF Register!Edits, Edits
<1>5. \A cp, c : Register!Callable(cp, c) = Callable(cp, c)
  BY <1>1, <1>4 DEF Register!Callable, Callable
<1> QED BY <1>1, <1>2, <1>3, <1>5

LEMMA RegisterInit == Init => Register!Init
BY DEF Init, Register!Init, Outcome

\* Each step of the protocol is one step of the register, or none.
LEMMA RegisterStep == IInv /\ [Next]_vars => [Register!Next]_Register!vars
<1> SUFFICES ASSUME IInv, [Next]_vars
             PROVE  [Register!Next]_Register!vars
  OBVIOUS
<1> DEFINE ret == [p \in Procs |-> Outcome(pc[p])]
<1> USE DEF Goto, Outcome
<1>t. TypeOK /\ (\A p \in Procs : pc[p] # "idle" => call[p] \in Calls)
  BY DEF IInv, TypeOK, ScrubInv, PCs
<1>c. \A p \in Procs : call[p] = NoCall <=> pc[p] = "idle"
  BY DEF IInv, ScrubInv
<1>r. ASSUME NEW p \in Procs, NEW l \in PCs, Goto(p, l)
      PROVE  /\ ret' = [ret EXCEPT ![p] = Outcome(l)]
             /\ Outcome(pc[p]) = Outcome(l) => ret' = ret
             /\ l = "unlock" => Outcome(l) = "ok"
             /\ l = "failed" => Outcome(l) = "error"
             /\ l \notin {"unlock", "failed"} => Outcome(l) = "pending"
  <2>1. pc' = [pc EXCEPT ![p] = l]
    BY <1>r
  <2> QED BY <2>1, <1>t DEF TypeOK, Outcome
<1>0. CASE UNCHANGED vars
  BY <1>0 DEF vars, Register!vars
<1>1. ASSUME NEW p \in Procs, NEW c \in Calls, Invoke(p, c)
      PROVE  Register!Invoke(p, c)
  BY <1>1, <1>t, <1>r, <1>c, SameData DEF Invoke, Register!Invoke, PCs
<1>p. ASSUME NEW p \in Procs, pc[p] \in {"locking", "locked", "scrub", "rename"}
      PROVE  Register!Pending(p) /\ call[p] \in Calls
  BY <1>p, <1>t, <1>c DEF Register!Pending, Outcome
<1>2. ASSUME NEW p \in Procs,
             \/ Acquire(p) \/ Save(p) \/ UpdateAtomic(p) \/ ScrubStart(p)
             \/ \E t \in Tunnels : ScrubSkip(p, t) \/ ScrubWrite(p, t)
      PROVE  UNCHANGED Register!vars
  <2>1. UNCHANGED <<file, call, copy>>
        /\ \/ UNCHANGED pc
           \/ \E l \in PCs : Goto(p, l) /\ Outcome(pc[p]) = Outcome(l)
    BY <1>2 DEF Acquire, Save, UpdateAtomic, ScrubStart, ScrubSkip, ScrubWrite,
       WriteTmp, PCs, Outcome
  <2>2. ret' = ret
    BY <2>1, <1>r
  <2> QED BY <2>1, <2>2 DEF Register!vars
<1>3. ASSUME NEW p \in Procs, TimeOut(p)
      PROVE  Register!GiveUp(p)
  BY <1>3, <1>p, <1>r DEF TimeOut, Register!GiveUp, PCs
<1>4. ASSUME NEW p \in Procs, Error(p)
      PROVE  Register!Fail(p)
  BY <1>4, <1>p, <1>r DEF Error, Register!Fail, PCs
<1>5. ASSUME NEW p \in Procs, Get(p)
      PROVE  Register!Read(p)
  BY <1>5, <1>p, <1>r, SameData DEF Get, Register!Read, PCs
<1>6. ASSUME NEW p \in Procs, Delete(p)
      PROVE  Register!Remove(p)
  BY <1>6, <1>p, <1>r DEF Delete, Register!Remove, PCs
<1>7. ASSUME NEW p \in Procs, NEW t \in Tunnels, ScrubRemove(p, t)
      PROVE  Register!ScrubOne(p, t)
  <2>1. /\ call[p].op = "scrub" /\ pc' = pc /\ UNCHANGED <<call, copy>>
        /\ file[t] = Corrupt /\ file' = [file EXCEPT ![t] = NoRecord]
    BY <1>7 DEF ScrubRemove, IInv, ScrubInv
  <2>2. ~Clean(file[t])
    BY <2>1, SentinelAssumption DEF Clean, Scrubbed, Readable
  <2> QED BY <1>7, <1>p, <2>1, <2>2, SameData DEF ScrubRemove, Register!ScrubOne
<1>8. ASSUME NEW p \in Procs, ScrubEnd(p)
      PROVE  Register!ScrubDone(p)
  <2>1. call[p].op = "scrub" /\ \A t \in Tunnels : Clean(file[t])
    BY <1>8 DEF ScrubEnd, IInv, ScrubInv
  <2> QED BY <1>8, <1>p, <1>r, <2>1, SameData
          DEF ScrubEnd, Register!ScrubDone, PCs
<1>9. ASSUME NEW p \in Procs, Rename(p)
      PROVE  \/ Register!Write(p) \/ Register!Apply(p)
             \/ \E t \in Tunnels : Register!ScrubOne(p, t)
  <2> DEFINE c == call[p]
             u == tmp[p].t
  <2>1. /\ Intended(p) /\ Register!Pending(p) /\ c \in Calls /\ u \in Tunnels
        /\ tmp[p] \in Copies
        /\ file' = [file EXCEPT ![u] = tmp[p].rec] /\ call' = call
    BY <1>9, <1>p, <1>t, CopyFields DEF Rename, IInv, TmpInv, Intended, TypeOK
  <2>2. CASE c.op \in {"save", "update"}
    <3>1. u = c.t /\ file[c.t] # Corrupt
          /\ (c.op = "update" => file[c.t] # NoRecord)
          /\ tmp[p].rec = Preserve(file[c.t], c.rec)
      BY <2>1, <2>2 DEF Intended, Atomic
    <3>2. copy' = copy /\ Goto(p, "unlock")
      BY <1>9, <2>2 DEF Rename, Atomic
    <3>3. Register!Write(p)
      BY <2>1, <2>2, <3>1, <3>2, <1>r, <1>t, SameData
         DEF Register!Write, PCs, TypeOK
    <3> QED BY <3>3
  <2>3. CASE c.op \in Atomic
    <3>1. u = c.t /\ Readable(file[c.t]) /\ ~Declines(c, file[c.t])
          /\ tmp[p].rec = Preserve(file[c.t], Mutate(c, file[c.t]))
      BY <2>1, <2>3 DEF Intended, Atomic
    <3>2. /\ copy' = [copy EXCEPT ![p] = [t |-> c.t,
                                          rec |-> Mutate(c, file[c.t])]]
          /\ Goto(p, "unlock")
      BY <1>9, <2>3 DEF Rename, Atomic
    <3>3. Register!Apply(p)
      BY <2>1, <2>3, <3>1, <3>2, <1>r, <1>t, SameData
         DEF Register!Apply, PCs, TypeOK
    <3> QED BY <3>3
  <2>4. CASE c.op = "scrub"
    <3>1. Readable(file[u]) /\ ~Scrubbed(file[u]) /\ tmp[p].rec = Scrub(file[u])
      BY <2>1, <2>4 DEF Intended, Atomic
    <3>2. copy' = copy /\ ret' = ret
      BY <1>9, <2>4, <1>r DEF Rename, Atomic, PCs, Outcome
    <3>3. ~Clean(file[u]) /\ file[u] # Corrupt
      BY <3>1, SentinelAssumption DEF Clean, Readable
    <3>4. Register!ScrubOne(p, u)
      BY <2>1, <2>4, <3>1, <3>2, <3>3, <1>t, SameData
         DEF Register!ScrubOne, TypeOK
    <3> QED BY <2>1, <3>4
  <2> QED BY <2>1, <2>2, <2>3, <2>4 DEF Intended
<1>10. ASSUME NEW p \in Procs, Release(p)
       PROVE  Register!Return(p)
  BY <1>10, <1>c, <1>r DEF Release, Register!Return, PCs
<1>11. ASSUME NEW p \in Procs, Crash(p)
       PROVE  Register!Crash(p)
  BY <1>11, <1>c, <1>r DEF Crash, Register!Crash, PCs
<1>12. Register!Calls = Calls
  BY DEF Register!Calls, Calls, Register!Ops, Ops, Register!Records, Records
<1> QED
  BY <1>0, <1>1, <1>2, <1>3, <1>4, <1>5, <1>6, <1>7, <1>8, <1>9, <1>10, <1>11,
     <1>12 DEF Next, Step, Register!Next

\* Locks, temporary files, renames and crashes together behave like a register
\* whose calls take effect at one instant.
THEOREM Refinement == Spec => ImplementsRegister
BY Invariance, RegisterInit, RegisterStep, PTL
   DEF Spec, ImplementsRegister, Register!Spec
=============================================================================
