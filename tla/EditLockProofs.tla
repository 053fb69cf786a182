--------------------------- MODULE EditLockProofs ---------------------------
(* What is true of EditLock for any number of processes, hosts and paths. *)
EXTENDS EditLock, TLAPS

LEMMA AnyPathType == AnyPath \in Path
  BY ProcAssumption DEF AnyPath

LEMMA NoCallType == NoCall \in CallRecord
  BY AnyPathType DEF NoCall, Stage, CallRecord

\* A running process has an incarnation, and the files it closes stay files.
LEMMA MeType == ASSUME TypeOK, NEW p \in Proc, pc[p] # "down"
                PROVE  Me(p) \in Incarnation
  BY ProcAssumption DEF TypeOK, Me, Incarnation

LEMMA ClosedType == ASSUME TypeOK, NEW p \in Proc, pc[p] # "down",
                           NEW st \in {"open", "empty", "full"}
                    PROVE  Closed(p, st) \in [Path -> File \cup {NoFile}]
  BY MeType DEF TypeOK, Closed, HasOpen, File

LEMMA InitType == Init => TypeOK
  BY ProcAssumption, NoCallType DEF Init, TypeOK, Location

LEMMA EnterType ==
  ASSUME TypeOK, NEW p \in Proc, pc[p] = "idle", NEW loc \in Location,
         NEW s \in Stage, NEW d \in Path, NEW e \in Path,
         Enter(p, loc, s, d, e), holds' \in [Proc -> SUBSET Path]
  PROVE  TypeOK'
<1>1. [stage |-> s, path |-> d, to |-> e] \in CallRecord
  BY DEF CallRecord
<1>2. call' \in [Proc -> CallRecord]
  BY <1>1 DEF TypeOK, Enter
<1> QED
  BY <1>2 DEF TypeOK, Enter

LEMMA BeginType == ASSUME TypeOK, NEW p \in Proc, Begin(p)
                   PROVE  TypeOK'
<1>1. CASE \E d \in Path : FileDestroy(p, d)
  BY <1>1 DEF TypeOK, FileDestroy, MayCall, GiveUp
<1>2. CASE ~ \E d \in Path : FileDestroy(p, d)
  <2>1. pc[p] = "idle"
    BY <1>2 DEF Begin, ExclusiveLock, Save, GetLockStatus, Recover, RenameLock,
                ExclusiveUnLock, CleanUpOnExit, MayCall
  <2>2. holds' \in [Proc -> SUBSET Path]
    BY <1>2 DEF TypeOK, Begin, ExclusiveLock, Save, GetLockStatus, Recover,
                RenameLock, ExclusiveUnLock, CleanUpOnExit, GiveUp
  <2>3. PICK loc \in {"read", "termRead", "sweep"},
             s \in Stage, d \in Path, e \in Path : Enter(p, loc, s, d, e)
    BY <1>2, AnyPathType
       DEF Begin, ExclusiveLock, Save, GetLockStatus, Recover, RenameLock,
           ExclusiveUnLock, CleanUpOnExit, Stage
  <2> QED
    BY <2>1, <2>2, <2>3, EnterType DEF Location
<1> QED
  BY <1>1, <1>2

-----------------------------------------------------------------------------
(* The ends of a step: what they leave in pc, call, owned and holds.       *)

Outcome == /\ pc' \in [Proc -> Location]
           /\ call' \in [Proc -> CallRecord]
           /\ owned' \in [Proc -> SUBSET Path]
           /\ holds' \in [Proc -> SUBSET Path]
           /\ \A q \in Proc : pc'[q] # "down" => pc[q] # "down"

LEMMA GoToType == ASSUME TypeOK, NEW p \in Proc, pc[p] # "down",
                         NEW loc \in Location, GoTo(p, loc)
                  PROVE  Outcome
  BY DEF TypeOK, GoTo, Outcome

LEMMA ReturnType == ASSUME TypeOK, NEW p \in Proc, pc[p] # "down", Return(p)
                    PROVE  /\ pc' \in [Proc -> Location]
                           /\ call' \in [Proc -> CallRecord]
                           /\ \A q \in Proc : pc'[q] # "down" => pc[q] # "down"
  BY NoCallType DEF TypeOK, Return, Location

LEMMA ReturnOnlyType ==
  ASSUME TypeOK, NEW p \in Proc, pc[p] # "down", ReturnOnly(p)
  PROVE  Outcome
  BY ReturnType DEF TypeOK, ReturnOnly, Outcome

LEMMA GrantType ==
  ASSUME TypeOK, NEW p \in Proc, pc[p] # "down", Grant(p) \/ GrantAgain(p)
  PROVE  Outcome
<1>1. Return(p) /\ call[p].path \in Path
  BY DEF TypeOK, Grant, GrantAgain, CallRecord
<1> QED
  BY <1>1, ReturnType DEF TypeOK, Grant, GrantAgain, Outcome

LEMMA StageType ==
  ASSUME TypeOK, NEW p \in Proc, pc[p] # "down", NEW s \in Stage,
         NEW loc \in Location, loc # "down",
         pc' = [pc EXCEPT ![p] = loc],
         call' = [call EXCEPT ![p].stage = s],
         UNCHANGED <<owned, holds>>
  PROVE  Outcome
<1>1. [call[p] EXCEPT !.stage = s] \in CallRecord
  BY DEF TypeOK, CallRecord
<1> QED
  BY <1>1 DEF TypeOK, Outcome

LEMMA OnOwnType == ASSUME TypeOK, NEW p \in Proc, pc[p] # "down", OnOwn(p)
                   PROVE  Outcome
<1>1. CASE call[p].stage \in {"recover", "rename"} /\ GoTo(p, call[p].stage)
  BY <1>1, GoToType DEF Location
<1> QED
  BY <1>1, GrantType, ReturnOnlyType DEF OnOwn

LEMMA OnNotLockedType ==
  ASSUME TypeOK, NEW p \in Proc, pc[p] # "down", OnNotLocked(p)
  PROVE  Outcome
<1>1. CASE /\ pc' = [pc EXCEPT ![p] = "read"]
           /\ call' = [call EXCEPT ![p].stage = "save"]
           /\ UNCHANGED <<owned, holds>>
  BY <1>1, StageType DEF Location, Stage
<1>2. CASE GoTo(p, "open") \/ GoTo(p, "recover")
  BY <1>2, GoToType DEF Location
<1> QED
  BY <1>1, <1>2, ReturnOnlyType DEF OnNotLocked

-----------------------------------------------------------------------------
(* Steps.                                                                  *)

LEMMA ReadLockRecordType == ASSUME TypeOK, NEW p \in Proc, ReadLockRecord(p)
                            PROVE  TypeOK'
<1> DEFINE d == call[p].path
<1>1. dir' = dir /\ born' = born /\ pc[p] # "down" /\ d \in Path
  BY DEF TypeOK, ReadLockRecord, CallRecord
<1>2. seen' \in [Proc -> Proc]
  <2>1. HasRecord(d) => dir[d].by[1] \in Proc
    BY <1>1, ProcAssumption DEF TypeOK, HasRecord, File, Incarnation
  <2> QED
    BY <2>1 DEF TypeOK, ReadLockRecord
<1>3. Outcome
  <2>1. \/ OnNotLocked(p) \/ OnOwn(p) \/ ReturnOnly(p)
        \/ GoTo(p, "unlink") \/ GoTo(p, "probe")
    BY DEF ReadLockRecord, OnForeign
  <2> QED
    BY <1>1, <2>1, OnNotLockedType, OnOwnType, ReturnOnlyType, GoToType
       DEF Location
<1> QED
  BY <1>1, <1>2, <1>3 DEF TypeOK, Outcome

LEMMA ProbeOwnerType == ASSUME TypeOK, NEW p \in Proc, ProbeOwner(p)
                        PROVE  TypeOK'
<1>1. Outcome
  <2>1. pc[p] # "down" /\ (ReturnOnly(p) \/ GoTo(p, "unlink"))
    BY DEF ProbeOwner, OnForeign
  <2> QED
    BY <2>1, ReturnOnlyType, GoToType DEF Location
<1> QED
  BY <1>1 DEF TypeOK, Outcome, ProbeOwner

LEMMA RemoveStaleType == ASSUME TypeOK, NEW p \in Proc, RemoveStale(p)
                         PROVE  TypeOK'
<1>1. Outcome
  BY OnNotLockedType DEF RemoveStale
<1> QED
  BY <1>1 DEF TypeOK, Outcome, RemoveStale

LEMMA OpenExclusiveType == ASSUME TypeOK, NEW p \in Proc, OpenExclusive(p)
                           PROVE  TypeOK'
<1>1. pc[p] # "down" /\ Me(p) \in Incarnation
  BY MeType DEF OpenExclusive
<1>2. Outcome
  <2>1. \/ GoTo(p, "write")
        \/ ReturnOnly(p)
        \/ /\ pc' = [pc EXCEPT ![p] = "read"]
           /\ call' = [call EXCEPT ![p].stage = "retry"]
           /\ UNCHANGED <<owned, holds>>
    BY DEF OpenExclusive
  <2> QED
    BY <1>1, <2>1, GoToType, ReturnOnlyType, StageType DEF Location, Stage
<1>3. dir' \in [Path -> File \cup {NoFile}]
  <2>1. [by |-> Me(p), st |-> "open"] \in File
    BY <1>1 DEF File
  <2> QED
    BY <2>1 DEF TypeOK, OpenExclusive
<1> QED
  BY <1>2, <1>3 DEF TypeOK, Outcome, OpenExclusive

LEMMA WriteRecordType == ASSUME TypeOK, NEW p \in Proc, WriteRecord(p)
                         PROVE  TypeOK'
<1>1. dir' \in [Path -> File \cup {NoFile}]
  BY ClosedType DEF WriteRecord
<1>2. Outcome
  BY GrantType, ReturnOnlyType DEF WriteRecord
<1> QED
  BY <1>1, <1>2 DEF TypeOK, Outcome, WriteRecord

LEMMA TerminateType ==
  ASSUME TypeOK, NEW p \in Proc, TerminateRead(p) \/ TerminateUnlink(p)
  PROVE  TypeOK'
<1>1. pc[p] # "down"
  BY DEF TerminateRead, TerminateUnlink
<1>2. Outcome
  <2>1. CASE GoTo(p, "termUnlink")
    BY <1>1, <2>1, GoToType DEF Location
  <2>2. CASE Disown(p, call[p].path) /\ AfterTerminate(p) /\ UNCHANGED holds
    <3>1. pc' \in [Proc -> Location] /\ call' \in [Proc -> CallRecord]
      BY <2>2, <1>1, ReturnType DEF AfterTerminate, TypeOK, Location
    <3>2. owned' \in [Proc -> SUBSET Path]
      BY <2>2 DEF Disown, TypeOK
    <3>3. \A q \in Proc : pc'[q] # "down" => pc[q] # "down"
      BY <2>2, <1>1, ReturnType DEF AfterTerminate, TypeOK
    <3> QED
      BY <2>2, <3>1, <3>2, <3>3 DEF Outcome, TypeOK
  <2> QED
    BY <2>1, <2>2 DEF TerminateRead, TerminateUnlink
<1> QED
  BY <1>2 DEF TypeOK, Outcome, TerminateRead, TerminateUnlink

LEMMA SweepType == ASSUME TypeOK, NEW p \in Proc, Sweep(p)
                   PROVE  TypeOK'
<1>1. /\ pc' \in [Proc -> Location]
      /\ \A q \in Proc : pc'[q] # "down" => pc[q] # "down"
  BY DEF TypeOK, Sweep, Return, Location
<1>2. call' \in [Proc -> CallRecord]
  <2>1. CASE \E d \in owned[p] : call' = [call EXCEPT ![p].path = d]
    <3>1. PICK d \in Path : call' = [call EXCEPT ![p].path = d]
      BY <2>1 DEF TypeOK
    <3>2. [call[p] EXCEPT !.path = d] \in CallRecord
      BY DEF TypeOK, CallRecord
    <3> QED
      BY <3>1, <3>2 DEF TypeOK
  <2>2. CASE call' = [call EXCEPT ![p] = NoCall]
    BY <2>2, NoCallType DEF TypeOK
  <2> QED
    BY <2>1, <2>2 DEF Sweep, Return
<1> QED
  BY <1>1, <1>2 DEF TypeOK, Sweep

LEMMA RenameType == ASSUME TypeOK, NEW p \in Proc, Rename(p)
                    PROVE  TypeOK'
<1>1. pc[p] # "down" /\ call[p].path \in Path /\ call[p].to \in Path
  BY DEF TypeOK, Rename, CallRecord
<1>2. CASE ReturnOnly(p) /\ UNCHANGED dir
  BY <1>1, <1>2, ReturnOnlyType DEF TypeOK, Outcome, Rename
<1>3. CASE Return(p) /\ dir[call[p].path] # NoFile
  <2>1. dir' \in [Path -> File \cup {NoFile}]
    BY <1>1, <1>3 DEF TypeOK, Rename, ReturnOnly
  <2>2. owned' \in [Proc -> SUBSET Path] /\ holds' \in [Proc -> SUBSET Path]
    BY <1>1, <1>3 DEF TypeOK, Rename, ReturnOnly, Moved
  <2> QED
    BY <1>1, <1>3, <2>1, <2>2, ReturnType DEF TypeOK, Rename
<1> QED
  BY <1>2, <1>3 DEF Rename

LEMMA StepType == ASSUME TypeOK, NEW p \in Proc, Step(p)
                  PROVE  TypeOK'
<1>1. CASE RecoverUnlink(p)
  BY <1>1, ReturnOnlyType DEF TypeOK, Outcome, RecoverUnlink
<1> QED
  BY <1>1, ReadLockRecordType, ProbeOwnerType, RemoveStaleType,
     OpenExclusiveType, WriteRecordType, TerminateType, SweepType, RenameType
     DEF Step

\* No step takes a variable out of its type.
LEMMA NextType == ASSUME TypeOK, [Next]_vars
                  PROVE  TypeOK'
<1>1. ASSUME NEW p \in Proc, Start(p) PROVE TypeOK'
  BY <1>1, ProcAssumption DEF TypeOK, Start, Location
<1>2. ASSUME NEW p \in Proc, Begin(p) PROVE TypeOK'
  BY <1>2, BeginType
<1>3. ASSUME NEW p \in Proc, Step(p) PROVE TypeOK'
  BY <1>3, StepType
<1>4. ASSUME NEW p \in Proc, Crash(p) PROVE TypeOK'
  <2>1. dir' \in [Path -> File \cup {NoFile}]
    BY <1>4, ClosedType DEF Crash
  <2> QED
    BY <1>4, <2>1, NoCallType DEF TypeOK, Crash, Location
<1>5. CASE UNCHANGED vars
  BY <1>5 DEF TypeOK, vars
<1> QED
  BY <1>1, <1>2, <1>3, <1>4, <1>5 DEF Next

\* Every variable keeps its type, and a process that runs has been started.
THEOREM TypeCorrect == Spec => []TypeOK
  BY InitType, NextType, PTL DEF Spec

-----------------------------------------------------------------------------
(* g_ownedDataPaths knows every lock file of its process.                  *)

LEMMA FileOf == ASSUME TypeOK, NEW d \in Path, dir[d] # NoFile
                PROVE  /\ dir[d].by[1] \in Proc
                       /\ dir[d].by[2] \in 1 .. MaxBorn
                       /\ dir[d] = [by |-> dir[d].by, st |-> dir[d].st]
  BY ProcAssumption DEF TypeOK, File, Incarnation

\* A step leaves a lock file alone, removes it, moves it, or makes a new one.
LEMMA DirStep ==
  ASSUME TypeOK, NEW p \in Proc, Begin(p) \/ Step(p) \/ Crash(p),
         NEW d \in Path, dir'[d] # NoFile
  PROVE  /\ born' = born
         /\ \/ \E e \in Path : dir[e] # NoFile /\ dir'[d].by = dir[e].by
            \/ dir'[d].by = Me(p)
<1>1. CASE Begin(p)
  BY <1>1 DEF TypeOK, Begin, ExclusiveLock, Save, GetLockStatus, Recover,
              RenameLock, ExclusiveUnLock, CleanUpOnExit, FileDestroy, Enter
<1>2. CASE ReadLockRecord(p) \/ ProbeOwner(p) \/ TerminateRead(p) \/ Sweep(p)
  BY <1>2 DEF ReadLockRecord, ProbeOwner, TerminateRead, Sweep
<1>3. CASE RemoveStale(p) \/ TerminateUnlink(p) \/ RecoverUnlink(p)
  BY <1>3 DEF TypeOK, RemoveStale, TerminateUnlink, RecoverUnlink
<1>4. CASE OpenExclusive(p)
  BY <1>4 DEF TypeOK, OpenExclusive, Me
<1>5. CASE WriteRecord(p) \/ Crash(p)
  BY <1>5 DEF TypeOK, WriteRecord, Crash, Closed, HasOpen
<1>6. CASE Rename(p)
  <2>1. call[p].path \in Path
    BY DEF TypeOK, CallRecord
  <2> QED
    BY <1>6, <2>1 DEF TypeOK, Rename
<1> QED
  BY <1>1, <1>2, <1>3, <1>4, <1>5, <1>6 DEF Step

\* Whatever is done to the lock files, their makers are started processes.
LEMMA MadeByTheStartedStep == ASSUME TypeOK, MadeByTheStarted, [Next]_vars
                              PROVE  MadeByTheStarted'
<1> SUFFICES ASSUME NEW d \in Path, dir'[d] # NoFile
             PROVE  dir'[d].by[2] <= born'[dir'[d].by[1]]
  BY DEF MadeByTheStarted
<1>1. ASSUME NEW p \in Proc, Start(p)
      PROVE  dir'[d].by[2] <= born'[dir'[d].by[1]]
  <2>1. dir' = dir /\ born' = [born EXCEPT ![p] = @ + 1]
    BY <1>1 DEF Start
  <2>2. dir[d].by[1] \in Proc /\ dir[d].by[2] \in Nat
    <3>1. dir[d] # NoFile
      BY <2>1
    <3>2. dir[d].by[1] \in Proc /\ dir[d].by[2] \in 1 .. MaxBorn
      BY <3>1, FileOf
    <3> QED
      BY <3>2, ProcAssumption
  <2>3. \A q \in Proc : born[q] \in Nat /\ born'[q] \in Nat /\ born[q] <= born'[q]
    BY <2>1, ProcAssumption DEF TypeOK
  <2>4. dir[d].by[2] <= born[dir[d].by[1]]
    BY <2>1 DEF MadeByTheStarted
  <2> DEFINE m == dir[d].by
  <2>5. m[1] \in Proc /\ m[2] \in Nat /\ m[2] <= born[m[1]]
    BY <2>2, <2>4
  <2> HIDE DEF m
  <2>6. m[2] <= born'[m[1]]
    BY <2>3, <2>5
  <2> QED
    BY <2>1, <2>6 DEF m
<1>2. ASSUME NEW p \in Proc, Begin(p) \/ Step(p) \/ Crash(p)
      PROVE  dir'[d].by[2] <= born'[dir'[d].by[1]]
  <2>1. CASE dir'[d].by = Me(p)
    <3>1. born' = born
      BY <1>2, DirStep
    <3>2. born[p] \in Nat
      BY ProcAssumption DEF TypeOK
    <3>3. dir'[d].by[1] = p /\ dir'[d].by[2] = born[p]
      BY <2>1 DEF Me
    <3> QED
      BY <3>1, <3>2, <3>3
  <2>2. CASE \E e \in Path : dir[e] # NoFile /\ dir'[d].by = dir[e].by
    BY <1>2, <2>2, DirStep DEF MadeByTheStarted
  <2> QED
    BY <1>2, <2>1, <2>2, DirStep
<1>3. CASE UNCHANGED vars
  BY <1>3 DEF vars, MadeByTheStarted
<1> QED
  BY <1>1, <1>2, <1>3 DEF Next

\* Each process writes only its own variables.
LEMMA OthersKeep ==
  ASSUME TypeOK, NEW p \in Proc, NEW q \in Proc, q # p,
         Start(p) \/ Begin(p) \/ Step(p) \/ Crash(p)
  PROVE  UNCHANGED <<pc[q], call[q], seen[q], born[q], owned[q], holds[q]>>
<1> USE DEF TypeOK
<1>1. CASE Start(p) \/ Crash(p)
  BY <1>1 DEF Start, Crash
<1>2. CASE Begin(p)
  BY <1>2 DEF Begin, ExclusiveLock, Save, GetLockStatus, Recover, RenameLock,
              ExclusiveUnLock, CleanUpOnExit, FileDestroy, Enter, GiveUp
<1>3. CASE ReadLockRecord(p) \/ ProbeOwner(p) \/ RemoveStale(p)
  BY <1>3 DEF ReadLockRecord, ProbeOwner, RemoveStale, OnOwn, OnNotLocked,
              OnForeign, Grant, GrantAgain, ReturnOnly, Return, GoTo
<1>4. CASE OpenExclusive(p) \/ WriteRecord(p) \/ RecoverUnlink(p) \/ Rename(p)
  BY <1>4 DEF OpenExclusive, WriteRecord, RecoverUnlink, Rename, Grant,
              ReturnOnly, Return, GoTo
<1>5. CASE TerminateRead(p) \/ TerminateUnlink(p) \/ Sweep(p)
  BY <1>5 DEF TerminateRead, TerminateUnlink, Sweep, AfterTerminate, Disown,
              Return, GoTo
<1> QED
  BY <1>1, <1>2, <1>3, <1>4, <1>5 DEF Step

\* A new incarnation finds no lock file with its name on it.
LEMMA StartIsNew == ASSUME TypeOK, MadeByTheStarted, NEW p \in Proc, Start(p)
                    PROVE  \A d \in Path : dir[d] # NoFile => dir[d].by # Me(p)'
<1> SUFFICES ASSUME NEW d \in Path, dir[d] # NoFile, dir[d].by = Me(p)'
             PROVE  FALSE
  OBVIOUS
<1>1. Me(p)' = <<p, born[p] + 1>>
  BY DEF Start, Me, TypeOK
<1>2. dir[d].by[1] = p /\ dir[d].by[2] = born[p] + 1
  BY <1>1
<1>3. dir[d].by[2] <= born[p]
  BY <1>2 DEF MadeByTheStarted
<1>4. born[p] \in Nat
  BY ProcAssumption DEF TypeOK
<1> QED
  BY <1>2, <1>3, <1>4

LEMMA StageOnly ==
  ASSUME TypeOK, NEW p \in Proc, NEW s, call' = [call EXCEPT ![p].stage = s]
  PROVE  call'[p].stage = s /\ call'[p].path = call[p].path
  BY DEF TypeOK, CallRecord

LEMMA PathOnly ==
  ASSUME TypeOK, NEW p \in Proc, NEW d, call' = [call EXCEPT ![p].path = d]
  PROVE  call'[p].path = d /\ call'[p].stage = call[p].stage
  BY DEF TypeOK, CallRecord

LEMMA EnterShape ==
  ASSUME TypeOK, NEW p \in Proc, NEW loc, NEW s, NEW d, NEW e,
         Enter(p, loc, s, d, e)
  PROVE  pc'[p] = loc /\ call'[p].stage = s /\ call'[p].path = d
  BY DEF TypeOK, Enter

\* What a call does first.
LEMMA BeginShape ==
  ASSUME NEW p \in Proc, Begin(p)
  PROVE  \/ \E d \in Path : FileDestroy(p, d)
         \/ \E d \in Path, s \in {"exclusive", "save", "query"} :
                Enter(p, "read", s, d, AnyPath) /\ UNCHANGED holds
         \/ \E d \in Path : Enter(p, "read", "recover", d, AnyPath) /\ GiveUp(p, {d})
         \/ \E d \in Path : Enter(p, "termRead", "unlock", d, AnyPath) /\ GiveUp(p, {d})
         \/ \E c \in {"cleanup", "exit"} :
                Enter(p, "sweep", c, AnyPath, AnyPath) /\ GiveUp(p, Path)
         \/ \E d, e \in Path : RenameLock(p, d, e)
  BY DEF Begin, ExclusiveLock, Save, GetLockStatus, Recover, ExclusiveUnLock,
         CleanUpOnExit

LEMMA NobodyRenamesStep ==
  ASSUME "rename" \notin Calls, TypeOK, NobodyRenames, [Next]_vars
  PROVE  NobodyRenames'
<1>1. ASSUME NEW p \in Proc, Start(p) \/ Begin(p) \/ Step(p) \/ Crash(p)
      PROVE  pc'[p] # "rename" /\ call'[p].stage # "rename"
  <2>1. pc \in [Proc -> Location] /\ call \in [Proc -> CallRecord]
    BY DEF TypeOK
  <2>2. pc[p] # "rename" /\ call[p].stage # "rename"
    BY DEF NobodyRenames
  <2>3. CASE Start(p) \/ Crash(p)
    BY <2>1, <2>2, <2>3 DEF Start, Crash, NoCall
  <2>4. CASE Begin(p)
    <3>1. CASE \E d \in Path : FileDestroy(p, d)
      BY <2>2, <3>1 DEF FileDestroy
    <3>2. ~ \E d, e \in Path : RenameLock(p, d, e)
      BY DEF RenameLock, MayCall
    <3> QED
      BY <2>4, <3>1, <3>2, BeginShape, EnterShape
  <2>5. CASE ReadLockRecord(p) \/ ProbeOwner(p) \/ RemoveStale(p)
    <3>1. CASE OnOwn(p)
      BY <2>1, <2>2, <3>1
         DEF OnOwn, Grant, GrantAgain, ReturnOnly, Return, GoTo, NoCall
    <3>2. CASE OnNotLocked(p)
      BY <2>1, <2>2, <3>2 DEF OnNotLocked, ReturnOnly, Return, GoTo, NoCall, CallRecord
    <3>3. CASE ReturnOnly(p) \/ GoTo(p, "unlink") \/ GoTo(p, "probe")
      BY <2>1, <2>2, <3>3 DEF ReturnOnly, Return, GoTo, NoCall
    <3> QED
      BY <2>5, <3>1, <3>2, <3>3
         DEF ReadLockRecord, ProbeOwner, RemoveStale, OnForeign
  <2>6. CASE OpenExclusive(p)
    <3>1. CASE GoTo(p, "write") \/ ReturnOnly(p)
      BY <2>1, <2>2, <3>1 DEF ReturnOnly, Return, GoTo, NoCall
    <3>2. CASE /\ pc' = [pc EXCEPT ![p] = "read"]
               /\ call' = [call EXCEPT ![p].stage = "retry"]
      BY <2>1, <3>2, StageOnly
    <3> QED
      BY <2>6, <3>1, <3>2 DEF OpenExclusive
  <2>8. CASE WriteRecord(p) \/ RecoverUnlink(p) \/ Rename(p)
    BY <2>1, <2>2, <2>8
       DEF WriteRecord, RecoverUnlink, Rename, Grant, ReturnOnly, Return, NoCall
  <2>7. CASE TerminateRead(p) \/ TerminateUnlink(p) \/ Sweep(p)
    BY <2>1, <2>2, <2>7
       DEF TerminateRead, TerminateUnlink, Sweep, AfterTerminate, Return, GoTo,
           NoCall, CallRecord
  <2> QED
    BY <1>1, <2>3, <2>4, <2>5, <2>6, <2>7, <2>8 DEF Step
<1>2. CASE UNCHANGED vars
  BY <1>2 DEF NobodyRenames, vars
<1> QED
  BY <1>1, <1>2, OthersKeep DEF Next, NobodyRenames


LEMMA BeginIdle == ASSUME NEW p \in Proc, Begin(p)
                   PROVE  pc[p] = "idle"
  BY DEF Begin, ExclusiveLock, Save, GetLockStatus, Recover, RenameLock,
         ExclusiveUnLock, CleanUpOnExit, FileDestroy, MayCall

LEMMA Running == ASSUME NEW p \in Proc, Begin(p) \/ Step(p) \/ Crash(p)
                 PROVE  pc[p] # "down"
  BY BeginIdle
     DEF Step, ReadLockRecord, ProbeOwner, RemoveStale, OpenExclusive, Crash,
         WriteRecord, TerminateRead, TerminateUnlink, Sweep, RecoverUnlink,
         Rename

\* Without renames, a step of p leaves the lock files of others alone or
\* removes them.
LEMMA OnlyMine ==
  ASSUME TypeOK, NobodyRenames, NEW p \in Proc,
         Begin(p) \/ Step(p) \/ Crash(p), NEW d \in Path
  PROVE  \/ dir'[d] = dir[d]
         \/ dir'[d] = NoFile
         \/ /\ OpenExclusive(p) /\ GoTo(p, "write")
            /\ d = call[p].path /\ dir[d] = NoFile
            /\ dir'[d] = [by |-> Me(p), st |-> "open"]
            /\ dir'[d].by = Me(p) /\ dir'[d].st = "open"
         \/ /\ WriteRecord(p) \/ Crash(p)
            /\ HasOpen(p, d)
            /\ dir'[d].by = Me(p)
            /\ dir'[d].st # "open"
<1>1. CASE Begin(p)
  BY <1>1, BeginShape DEF TypeOK, FileDestroy, RenameLock, Enter
<1>2. CASE ReadLockRecord(p) \/ ProbeOwner(p) \/ TerminateRead(p) \/ Sweep(p)
  BY <1>2 DEF ReadLockRecord, ProbeOwner, TerminateRead, Sweep
<1>3. CASE RemoveStale(p) \/ TerminateUnlink(p) \/ RecoverUnlink(p)
  BY <1>3 DEF TypeOK, RemoveStale, TerminateUnlink, RecoverUnlink
<1>4. CASE OpenExclusive(p)
  BY <1>4 DEF TypeOK, OpenExclusive
<1>5. CASE WriteRecord(p) \/ Crash(p)
  BY <1>5 DEF TypeOK, WriteRecord, Crash, Closed, HasOpen
<1>6. ~Rename(p)
  BY DEF NobodyRenames, Rename
<1> QED
  BY <1>1, <1>2, <1>3, <1>4, <1>5, <1>6 DEF Step

LEMMA OneOpenFileStep ==
  ASSUME TypeOK, MadeByTheStarted, NobodyRenames, OneOpenFile, [Next]_vars
  PROVE  OneOpenFile'
<1>1. ASSUME NEW p \in Proc, Start(p) PROVE OneOpenFile'
  <2> SUFFICES ASSUME NEW q \in Proc, NEW d \in Path, pc'[q] # "down",
                      HasOpen(q, d)'
               PROVE  pc'[q] = "write" /\ call'[q].path = d
    BY DEF OneOpenFile
  <2>1. dir' = dir /\ dir[d] # NoFile /\ dir[d].by = Me(q)'
    BY <1>1 DEF Start, HasOpen
  <2>2. q # p
    BY <1>1, <2>1, StartIsNew
  <2> QED
    BY <1>1, <2>1, <2>2, OthersKeep DEF OneOpenFile, HasOpen, Me
<1>2. ASSUME NEW p \in Proc, Begin(p) \/ Step(p) \/ Crash(p) PROVE OneOpenFile'
  <2> SUFFICES ASSUME NEW q \in Proc, NEW d \in Path, pc'[q] # "down",
                      HasOpen(q, d)'
               PROVE  pc'[q] = "write" /\ call'[q].path = d
    BY DEF OneOpenFile
  <2>1. born' = born
    BY <1>2, DirStep DEF HasOpen
  <2>2. CASE q # p
    <3>1. Me(q)' = Me(q) /\ Me(q) # Me(p) /\ pc'[q] = pc[q] /\ call'[q] = call[q]
      BY <1>2, <2>1, <2>2, OthersKeep DEF Me
    <3>2. dir'[d] = dir[d]
      <4>1. dir'[d] # NoFile /\ dir'[d].by # Me(p)
        BY <3>1 DEF HasOpen
      <4> QED
        BY <1>2, <4>1, OnlyMine
    <3> QED
      BY <2>2, <3>1, <3>2 DEF OneOpenFile, HasOpen
  <2>3. CASE q = p
    <3>1. Me(p)' = Me(p)
      BY <2>1 DEF Me
    <3>2. CASE OpenExclusive(p) /\ GoTo(p, "write") /\ d = call[p].path
      BY <2>3, <3>2 DEF GoTo, TypeOK
    <3>3. CASE dir'[d] = dir[d]
      <4>1. pc[p] # "down"
        BY <1>2, Running
      <4>2. pc[p] = "write" /\ HasOpen(p, d)
        BY <2>3, <3>1, <3>3, <4>1 DEF OneOpenFile, HasOpen
      <4>3. WriteRecord(p) \/ Crash(p)
        BY <1>2, <4>2, BeginIdle
           DEF Step, ReadLockRecord, ProbeOwner, RemoveStale, OpenExclusive,
               TerminateRead, TerminateUnlink, Sweep, RecoverUnlink, Rename
      <4>4. dir'[d].st # "open"
        BY <4>2, <4>3 DEF WriteRecord, Crash, Closed
      <4> QED
        BY <4>4 DEF HasOpen
    <3> QED
      BY <1>2, <3>2, <3>3, OnlyMine DEF HasOpen
  <2> QED
    BY <2>2, <2>3
<1>3. CASE UNCHANGED vars
  BY <1>3 DEF OneOpenFile, HasOpen, Me, vars
<1> QED
  BY <1>1, <1>2, <1>3 DEF Next


\* Where a record of p gets on the disk, or p's memory of a record is cleared,
\* the other is right as well.
LEMMA RememberedStep ==
  ASSUME TypeOK, RememberedInv, [Next]_vars
  PROVE  LockFilesAreRemembered'
<1> USE DEF RememberedInv
<1>1. ASSUME NEW p \in Proc, Start(p) PROVE LockFilesAreRemembered'
  <2> SUFFICES ASSUME NEW q \in Proc, NEW d \in Path, pc'[q] # "down",
                      IsOwnedByCurrentProcess(q, d)'
               PROVE  d \in owned'[q]
    BY DEF LockFilesAreRemembered
  <2>1. dir' = dir /\ dir[d] # NoFile /\ dir[d].by = Me(q)'
    BY <1>1 DEF Start, IsOwnedByCurrentProcess, HasRecord
  <2>2. q # p
    BY <1>1, <2>1, StartIsNew
  <2> QED
    BY <1>1, <2>1, <2>2, OthersKeep
       DEF LockFilesAreRemembered, IsOwnedByCurrentProcess, HasRecord, Me
<1>2. ASSUME NEW p \in Proc, Begin(p) \/ Step(p) \/ Crash(p)
      PROVE  LockFilesAreRemembered'
  <2> SUFFICES ASSUME NEW q \in Proc, NEW d \in Path, pc'[q] # "down",
                      IsOwnedByCurrentProcess(q, d)'
               PROVE  d \in owned'[q]
    BY DEF LockFilesAreRemembered
  <2>0. /\ dir'[d] # NoFile /\ dir'[d].by = Me(q)' /\ dir'[d].st = "full"
        /\ born' = born /\ Me(q)' = Me(q) /\ Me(p)' = Me(p)
    BY <1>2, DirStep DEF IsOwnedByCurrentProcess, HasRecord, Me
  <2>1. dir'[d] = dir[d] => d \in owned[q] \/ pc[q] = "down"
    BY <2>0 DEF LockFilesAreRemembered, IsOwnedByCurrentProcess, HasRecord
  <2>2. CASE q # p
    <3>1. Me(q) # Me(p) /\ pc'[q] = pc[q] /\ owned'[q] = owned[q]
      BY <1>2, <2>2, OthersKeep DEF Me
    <3>2. dir'[d] # NoFile /\ dir'[d].by # Me(p)
      BY <2>0, <3>1
    <3>3. dir'[d] = dir[d]
      BY <1>2, <3>2, OnlyMine
    <3> QED
      BY <2>1, <3>1, <3>3
  <2>3. CASE q = p
    <3>1. pc[p] # "down" /\ pc'[p] # "down"
      BY <1>2, <2>3, Running
    <3>2. CASE dir'[d] = dir[d]
      <4>1. d \in owned[p]
        BY <2>1, <2>3, <3>1, <3>2
      <4>2. CASE UNCHANGED owned \/ Grant(p)
        BY <2>3, <4>1, <4>2 DEF Grant, TypeOK
      <4>3. CASE TerminateRead(p) /\ Disown(p, call[p].path)
        BY <2>0, <2>3, <3>2, <4>1, <4>3
           DEF TerminateRead, Disown, IsOwnedByCurrentProcess, HasRecord,
               TypeOK, GoTo
      <4>4. CASE TerminateUnlink(p)
        BY <2>0, <2>3, <3>2, <4>1, <4>4 DEF TerminateUnlink, Disown, TypeOK
      <4>5. \/ UNCHANGED owned
            \/ Grant(p)
            \/ TerminateRead(p) /\ Disown(p, call[p].path)
            \/ TerminateUnlink(p)
        <5>1. CASE Begin(p)
          BY <5>1, BeginShape DEF FileDestroy, Enter, RenameLock
        <5>2. ~Rename(p) /\ ~Crash(p)
          BY <3>1 DEF NobodyRenames, Rename, Crash, TypeOK
        <5>3. CASE ReadLockRecord(p) \/ ProbeOwner(p) \/ RemoveStale(p)
          BY <5>3 DEF ReadLockRecord, ProbeOwner, RemoveStale, OnOwn,
                      OnNotLocked, OnForeign, GoTo, GrantAgain, ReturnOnly
        <5>4. CASE \/ OpenExclusive(p) \/ WriteRecord(p) \/ RecoverUnlink(p)
                   \/ TerminateRead(p) \/ Sweep(p)
          BY <5>4 DEF OpenExclusive, WriteRecord, RecoverUnlink, TerminateRead,
                      Sweep, GoTo, ReturnOnly
        <5> QED
          BY <1>2, <5>1, <5>2, <5>3, <5>4 DEF Step
      <4> QED
        BY <2>3, <4>2, <4>3, <4>4, <4>5
    <3>3. CASE WriteRecord(p) /\ HasOpen(p, d)
      <4>1. d = call[p].path
        BY <3>1, <3>3 DEF OneOpenFile
      <4>2. Grant(p) \/ dir' = Closed(p, "empty")
        BY <3>3 DEF WriteRecord
      <4>3. dir' # Closed(p, "empty")
        BY <2>0, <3>3 DEF Closed
      <4> QED
        BY <2>3, <4>1, <4>2, <4>3 DEF Grant, TypeOK
    <3>4. CASE Crash(p)
      BY <3>1, <3>4 DEF Crash, TypeOK
    <3> QED
      BY <1>2, <2>0, <3>2, <3>3, <3>4, OnlyMine
  <2> QED
    BY <2>2, <2>3
<1>3. CASE UNCHANGED vars
  BY <1>3 DEF LockFilesAreRemembered, IsOwnedByCurrentProcess, HasRecord, Me, vars
<1> QED
  BY <1>1, <1>2, <1>3 DEF Next

LEMMA RememberedInvariant == ASSUME "rename" \notin Calls
                             PROVE  Spec => []RememberedInv
<1>1. Init => RememberedInv
  BY ProcAssumption
     DEF Init, RememberedInv, MadeByTheStarted, OneOpenFile, NobodyRenames,
         LockFilesAreRemembered, HasOpen, IsOwnedByCurrentProcess, HasRecord,
         NoCall
<1>2. ASSUME TypeOK, RememberedInv, [Next]_vars PROVE RememberedInv'
  BY <1>2, MadeByTheStartedStep, OneOpenFileStep, NobodyRenamesStep,
     RememberedStep DEF RememberedInv
<1> QED
  BY <1>1, <1>2, TypeCorrect, PTL DEF Spec

\* However the calls of any number of processes overlap, whoever crashes and
\* whatever fails, g_ownedDataPaths has every lock file of its process, as
\* long as nobody uses renameLock.
THEOREM OwnLocksAreRemembered == ASSUME "rename" \notin Calls
                                 PROVE  Spec => []LockFilesAreRemembered
<1>1. RememberedInv => LockFilesAreRemembered
  BY DEF RememberedInv
<1> QED
  BY <1>1, RememberedInvariant, PTL

\* So a process that ends by exit leaves no lock of its own on the disk.
THEOREM ExitLeavesNoLock == ASSUME "rename" \notin Calls
                            PROVE  Spec => CleanExit
<1>1. ASSUME RememberedInv
      PROVE  \A p \in Proc : Exits(p) =>
                 \A d \in Path : ~IsOwnedByCurrentProcess(p, d)
  BY <1>1 DEF RememberedInv, LockFilesAreRemembered, Exits
<1>2. RememberedInv =>
        [\A p \in Proc : Exits(p) =>
             \A d \in Path : ~IsOwnedByCurrentProcess(p, d)]_vars
  BY <1>1
<1> QED
  BY <1>2, RememberedInvariant, PTL DEF CleanExit
-----------------------------------------------------------------------------
(* What the lock files guarantee when calls do not overlap and no I/O fails: *)
(* holders have their locks, and the files implement LeaseLock.             *)


\* One call at a time, and files are destroyed whose lock nobody counts on;
\* processes may still start, crash and exit anywhere.
SerialUse == /\ Overlap = {}
             /\ IOErrors = FALSE
             /\ DestroyHeld = FALSE
             /\ "rename" \notin Calls

LEMMA StepBusy == ASSUME NEW p \in Proc, Step(p)
                  PROVE  Busy(p)
  BY DEF Step, ReadLockRecord, ProbeOwner, RemoveStale, OpenExclusive, Busy,
         WriteRecord, TerminateRead, TerminateUnlink, Sweep, RecoverUnlink,
         Rename

LEMMA BeginFree == ASSUME SerialUse, NEW p \in Proc, Begin(p)
                   PROVE  \A q \in Proc : ~Busy(q)
  BY DEF SerialUse, Begin, ExclusiveLock, Save, GetLockStatus, Recover,
         RenameLock, ExclusiveUnLock, CleanUpOnExit, FileDestroy, MayCall,
         MayOverlap

LEMMA BeginSerial ==
  ASSUME SerialUse, NEW p \in Proc, Begin(p)
  PROVE  \/ \E d \in Path : FileDestroy(p, d)
         \/ \E d \in Path, s \in {"exclusive", "save", "query"} :
                Enter(p, "read", s, d, AnyPath) /\ UNCHANGED holds
         \/ \E d \in Path : Enter(p, "read", "recover", d, AnyPath) /\ GiveUp(p, {d})
         \/ \E d \in Path : Enter(p, "termRead", "unlock", d, AnyPath) /\ GiveUp(p, {d})
         \/ \E c \in {"cleanup", "exit"} :
                Enter(p, "sweep", c, AnyPath, AnyPath) /\ GiveUp(p, Path)
<1>2. ~ \E d, e \in Path : RenameLock(p, d, e)
  BY DEF SerialUse, RenameLock, MayCall
<1> QED
  BY <1>2, BeginShape

\* What fileDestroy does to a path that nobody counts on.
LEMMA DestroySerial ==
  ASSUME SerialUse, TypeOK, NEW p \in Proc, NEW d \in Path, FileDestroy(p, d)
  PROVE  /\ pc[p] = "idle"
         /\ UNCHANGED <<pc, call, seen, born, owned, holds>>
         /\ dir' = [dir EXCEPT ![d] = NoFile]
         /\ \A q \in Proc : d \notin holds[q]
<1>1. \A q \in Proc : d \notin holds[q]
  BY DEF SerialUse, FileDestroy
<1>2. holds \in [Proc -> SUBSET Path] /\ holds' = [holds EXCEPT ![p] = @ \ {d}]
  BY DEF TypeOK, FileDestroy, GiveUp
<1>3. holds[p] \ {d} = holds[p]
  BY <1>1
<1>4. holds' = holds
  BY <1>2, <1>3
<1> QED
  BY <1>1, <1>4 DEF FileDestroy, MayCall

\* Nobody but p is in a call when p takes a step of a call.
LEMMA OthersIdle ==
  ASSUME SerialUse, Alone, NEW p \in Proc, Begin(p) \/ Step(p),
         NEW q \in Proc, q # p
  PROVE  ~Busy(q)
  BY StepBusy, BeginFree DEF Alone

LEMMA AloneStep == ASSUME SerialUse, TypeOK, Alone, [Next]_vars
                   PROVE  Alone'
<1>1. ASSUME NEW p \in Proc, Begin(p) \/ Step(p) PROVE Alone'
  <2>1. \A q \in Proc \ {p} : ~Busy(q) /\ pc'[q] = pc[q]
    BY <1>1, OthersIdle, OthersKeep
  <2> QED
    BY <2>1 DEF Alone, Busy
<1>2. ASSUME NEW p \in Proc, Start(p) \/ Crash(p) PROVE Alone'
  <2>1. \A q \in Proc \ {p} : pc'[q] = pc[q]
    BY <1>2, OthersKeep
  <2>2. ~Busy(p)'
    BY <1>2 DEF Start, Crash, Busy, TypeOK
  <2> QED
    BY <2>1, <2>2 DEF Alone, Busy
<1>3. CASE UNCHANGED vars
  BY <1>3 DEF Alone, Busy, vars
<1> QED
  BY <1>1, <1>2, <1>3 DEF Next

\* p stays within its call, and counts on no path that it is giving back.
LEMMA ConductStep ==
  ASSUME SerialUse, TypeOK, NEW p \in Proc, Step(p), StageFits(p), GaveUp(p)
  PROVE  StageFits(p)' /\ GaveUp(p)'
<1> DEFINE s == call[p].stage
<1>1. /\ call \in [Proc -> CallRecord] /\ pc \in [Proc -> Location]
      /\ holds \in [Proc -> SUBSET Path]
  BY DEF TypeOK
<1> USE DEF LockStages, ReadStages, SweepStages
<1>2. CASE Return(p)
  BY <1>1, <1>2 DEF Return, NoCall, StageFits, GaveUp, Busy
<1>3. ASSUME NEW loc, GoTo(p, loc), loc \notin {"idle", "down"},
             loc \in {"probe", "unlink"} => s \in ReadStages,
             loc \in {"open", "write"} => s \in LockStages,
             loc \in {"recover", "rename"} => s = loc,
             loc = "termUnlink" => s \in SweepStages \cup {"unlock"},
             loc \notin {"read", "termRead", "sweep"}
      PROVE  StageFits(p)' /\ GaveUp(p)'
  BY <1>1, <1>3 DEF GoTo, StageFits, GaveUp, Busy
<1>4. ASSUME NEW t \in LockStages, pc'[p] = "read",
             call' = [call EXCEPT ![p].stage = t], UNCHANGED holds
      PROVE  StageFits(p)' /\ GaveUp(p)'
  BY <1>1, <1>4, StageOnly DEF StageFits, GaveUp, Busy
<1>5. CASE ReadLockRecord(p)
  <2>1. s \in ReadStages
    BY <1>5 DEF ReadLockRecord, StageFits
  <2>2. CASE OnOwn(p)
    BY <1>2, <1>3, <2>1, <2>2 DEF OnOwn, Grant, GrantAgain, ReturnOnly
  <2>3. CASE OnNotLocked(p)
    BY <1>1, <1>2, <1>3, <1>4, <2>1, <2>3 DEF OnNotLocked, ReturnOnly
  <2> QED
    BY <1>2, <1>3, <1>5, <2>1, <2>2, <2>3 DEF ReadLockRecord, OnForeign, ReturnOnly
<1>6. CASE ProbeOwner(p)
  BY <1>2, <1>3, <1>6 DEF ProbeOwner, OnForeign, ReturnOnly, StageFits
<1>7. CASE RemoveStale(p)
  BY <1>1, <1>2, <1>3, <1>4, <1>7
     DEF RemoveStale, OnNotLocked, ReturnOnly, StageFits
<1>8. CASE OpenExclusive(p)
  BY <1>1, <1>2, <1>3, <1>4, <1>8 DEF OpenExclusive, ReturnOnly, StageFits
<1>9. CASE WriteRecord(p) \/ RecoverUnlink(p) \/ Rename(p)
  BY <1>2, <1>9 DEF WriteRecord, RecoverUnlink, Rename, Grant, ReturnOnly
<1>10. CASE TerminateRead(p) \/ TerminateUnlink(p)
  <2>1. s \in SweepStages \cup {"unlock"}
    BY <1>10 DEF TerminateRead, TerminateUnlink, StageFits
  <2>2. CASE AfterTerminate(p) /\ UNCHANGED holds
    BY <1>1, <1>2, <2>1, <2>2 DEF AfterTerminate, StageFits, GaveUp, Busy
  <2> QED
    BY <1>3, <1>10, <2>1, <2>2 DEF TerminateRead, TerminateUnlink
<1>11. CASE Sweep(p)
  BY <1>1, <1>2, <1>11, PathOnly DEF Sweep, NoCall, StageFits, GaveUp, Busy
<1> QED
  BY <1>5, <1>6, <1>7, <1>8, <1>9, <1>10, <1>11 DEF Step

LEMMA ConductBegin ==
  ASSUME SerialUse, TypeOK, NEW p \in Proc, Begin(p), StageFits(p), GaveUp(p)
  PROVE  StageFits(p)' /\ GaveUp(p)'
<1> USE DEF LockStages, ReadStages, SweepStages
<1>1. holds \in [Proc -> SUBSET Path]
  BY DEF TypeOK
<1>2. CASE \E d \in Path, s \in {"exclusive", "save", "query"} :
               Enter(p, "read", s, d, AnyPath) /\ UNCHANGED holds
  BY <1>2, EnterShape DEF StageFits, GaveUp, Busy
<1>3. CASE \E d \in Path : Enter(p, "read", "recover", d, AnyPath) /\ GiveUp(p, {d})
  BY <1>1, <1>3, EnterShape DEF StageFits, GaveUp, GiveUp, Busy
<1>4. CASE \E d \in Path : Enter(p, "termRead", "unlock", d, AnyPath) /\ GiveUp(p, {d})
  BY <1>1, <1>4, EnterShape DEF StageFits, GaveUp, GiveUp, Busy
<1>5. CASE \E c \in {"cleanup", "exit"} :
               Enter(p, "sweep", c, AnyPath, AnyPath) /\ GiveUp(p, Path)
  BY <1>1, <1>5, EnterShape DEF StageFits, GaveUp, GiveUp, Busy
<1>6. CASE \E d \in Path : FileDestroy(p, d)
  BY <1>6, DestroySerial DEF StageFits, GaveUp, Busy
<1> QED
  BY <1>2, <1>3, <1>4, <1>5, <1>6, BeginSerial

LEMMA ConductNext ==
  ASSUME SerialUse, TypeOK, \A p \in Proc : StageFits(p) /\ GaveUp(p), [Next]_vars
  PROVE  \A p \in Proc : (StageFits(p) /\ GaveUp(p))'
<1>1. ASSUME NEW p \in Proc, Start(p) \/ Crash(p) PROVE StageFits(p)' /\ GaveUp(p)'
  BY <1>1 DEF Start, Crash, TypeOK, NoCall, StageFits, GaveUp, Busy, SweepStages
<1>2. ASSUME NEW p \in Proc, Start(p) \/ Begin(p) \/ Step(p) \/ Crash(p),
             NEW q \in Proc, q # p
      PROVE  StageFits(q)' /\ GaveUp(q)'
  BY <1>2, OthersKeep DEF StageFits, GaveUp, Busy
<1>3. CASE UNCHANGED vars
  BY <1>3 DEF StageFits, GaveUp, Busy, vars
<1> QED
  BY <1>1, <1>2, <1>3, ConductStep, ConductBegin DEF Next

LEMMA TheDeadHoldNothingStep ==
  ASSUME SerialUse, TypeOK, \A p \in Proc : StageFits(p) /\ GaveUp(p),
         TheDeadHoldNothing, [Next]_vars
  PROVE  TheDeadHoldNothing'
<1>1. ASSUME NEW p \in Proc, Start(p) \/ Begin(p) \/ Step(p) \/ Crash(p),
             pc'[p] = "down"
      PROVE  holds'[p] = {}
  <2>1. CASE Start(p) \/ Crash(p)
    BY <1>1, <2>1 DEF Start, Crash, TypeOK
  <2>2. ~Begin(p)
    BY <1>1, BeginSerial, DestroySerial, EnterShape DEF SerialUse
  <2>3. CASE Sweep(p)
    BY <1>1, <2>3 DEF Sweep, Return, TypeOK, GaveUp, SweepStages
  <2>4. CASE Step(p) /\ ~Sweep(p)
    <3>1. pc'[p] # "down"
      BY <2>4 DEF Step, ReadLockRecord, ProbeOwner, RemoveStale, OpenExclusive,
             WriteRecord, TerminateRead, TerminateUnlink, RecoverUnlink, Rename,
             OnOwn, OnNotLocked, OnForeign, AfterTerminate, Grant, GrantAgain,
             ReturnOnly, Return, GoTo, TypeOK
    <3> QED
      BY <1>1, <3>1
  <2> QED
    BY <1>1, <2>1, <2>2, <2>3, <2>4
<1>2. ASSUME NEW p \in Proc, Start(p) \/ Begin(p) \/ Step(p) \/ Crash(p),
             NEW q \in Proc, q # p, pc'[q] = "down"
      PROVE  holds'[q] = {}
  BY <1>2, OthersKeep DEF TheDeadHoldNothing
<1>3. CASE UNCHANGED vars
  BY <1>3 DEF TheDeadHoldNothing, vars
<1> QED
  BY <1>1, <1>2, <1>3 DEF Next, TheDeadHoldNothing

-----------------------------------------------------------------------------
(* The lock of a holder stays on the disk.                                 *)

LEMMA BornKept == ASSUME NEW p \in Proc, Begin(p) \/ Step(p) \/ Crash(p)
                  PROVE  born' = born
  BY BeginShape
     DEF FileDestroy, Enter, RenameLock, Crash, Step, ReadLockRecord,
         ProbeOwner, RemoveStale, OpenExclusive, WriteRecord, TerminateRead,
         TerminateUnlink, Sweep, RecoverUnlink, Rename

\* Only a removal takes a record away, and no removal hits one that counts.
LEMMA HeldStays ==
  ASSUME SerialUse, TypeOK, SerialInv, NEW p \in Proc,
         Begin(p) \/ Step(p) \/ Crash(p),
         NEW q \in Proc, NEW d \in holds[q]
  PROVE  dir'[d] = dir[d]
<1> USE DEF SerialInv
<1>1. d \in Path
  BY DEF TypeOK
<1>2. /\ HasRecord(d) /\ dir[d].by = Me(q) /\ dir[d].st = "full"
      /\ dir[d] # NoFile /\ pc[q] # "down"
  BY DEF HolderOnDisk, IsOwnedByCurrentProcess, HasRecord, TheDeadHoldNothing
<1>3. dir[d].by \in Live
  BY <1>2 DEF Live
<1>4. CASE dir'[d] = NoFile
  <2>1. CASE Begin(p)
    <3>1. ASSUME NEW e \in Path, FileDestroy(p, e) PROVE dir'[d] = dir[d]
      <4>1. dir' = [dir EXCEPT ![e] = NoFile] /\ e # d
        BY <3>1, DestroySerial
      <4> QED
        BY <1>1, <4>1 DEF TypeOK
    <3> QED
      BY <1>1, <1>4, <2>1, <3>1, BeginSerial DEF Enter
  <2>2. CASE RemoveStale(p)
    BY <1>1, <1>2, <1>3, <2>2 DEF RemoveStale, StillSo, TypeOK
  <2>3. CASE TerminateUnlink(p) \/ RecoverUnlink(p)
    <3>1. CASE d = call[p].path
      <4>1. p = q
        BY <1>2, <2>3, <3>1
           DEF TerminateUnlink, RecoverUnlink, StillSo, IsOwnedByCurrentProcess, Me
      <4>2. call[p].path \notin holds[p]
        BY <2>3 DEF TerminateUnlink, RecoverUnlink, StageFits, GaveUp
      <4> QED
        BY <3>1, <4>1, <4>2
    <3>2. CASE d # call[p].path
      BY <1>1, <2>3, <3>2 DEF TerminateUnlink, RecoverUnlink, TypeOK
    <3> QED
      BY <3>1, <3>2
  <2>4. CASE WriteRecord(p) \/ Crash(p)
    BY <1>1, <1>2, <2>4 DEF WriteRecord, Crash, Closed, HasOpen
  <2>5. CASE OpenExclusive(p)
    BY <1>1, <1>2, <2>5 DEF OpenExclusive, TypeOK
  <2>6. CASE ReadLockRecord(p) \/ ProbeOwner(p) \/ TerminateRead(p) \/ Sweep(p)
    BY <2>6 DEF ReadLockRecord, ProbeOwner, TerminateRead, Sweep
  <2>7. ~Rename(p)
    BY DEF NobodyRenames, Rename
  <2> QED
    BY <2>1, <2>2, <2>3, <2>4, <2>5, <2>6, <2>7 DEF Step
<1>5. ~HasOpen(p, d)
  BY <1>2 DEF HasOpen
<1> QED
  BY <1>1, <1>2, <1>4, <1>5, OnlyMine

\* Who is told that it holds a path has its record there.
LEMMA NewlyHeld ==
  ASSUME SerialUse, TypeOK, SerialInv, NEW p \in Proc,
         Begin(p) \/ Step(p) \/ Crash(p), NEW d \in holds'[p], d \notin holds[p]
  PROVE  HasRecord(d)' /\ dir'[d].by = Me(p)
<1> USE DEF SerialInv
<1>1. holds \in [Proc -> SUBSET Path] /\ call[p].path \in Path
  BY DEF TypeOK, CallRecord
<1>2. ~Begin(p)
  BY <1>1, BeginSerial, DestroySerial DEF GiveUp
<1>3. CASE ReadLockRecord(p)
  <2>1. ~OnNotLocked(p) /\ ~OnForeign(p) /\ ~GoTo(p, "unlink") /\ ~GoTo(p, "probe")
    BY DEF OnNotLocked, OnForeign, ReturnOnly, GoTo
  <2>2. IsOwnedByCurrentProcess(p, call[p].path) /\ OnOwn(p) /\ dir' = dir
    BY <1>3, <2>1 DEF ReadLockRecord
  <2>3. d = call[p].path
    BY <1>1, <2>2 DEF OnOwn, Grant, GrantAgain, ReturnOnly, GoTo
  <2> QED
    BY <2>2, <2>3 DEF IsOwnedByCurrentProcess, HasRecord
<1>4. CASE WriteRecord(p)
  <2>1. Grant(p) /\ HasOpen(p, call[p].path) /\ dir' = Closed(p, "full")
    BY <1>4 DEF WriteRecord, StillSo, SerialUse
  <2>2. d = call[p].path
    BY <1>1, <2>1 DEF Grant
  <2>3. dir'[d] = [by |-> Me(p), st |-> "full"]
    BY <1>1, <2>1, <2>2 DEF Closed
  <2>4. [by |-> Me(p), st |-> "full"] # NoFile
    BY <1>4, MeType, ProcAssumption DEF WriteRecord, File
  <2> QED
    BY <2>3, <2>4 DEF HasRecord
<1>5. CASE \/ ProbeOwner(p) \/ RemoveStale(p) \/ OpenExclusive(p)
           \/ RecoverUnlink(p) \/ Sweep(p) \/ TerminateRead(p)
           \/ TerminateUnlink(p)
  BY <1>5 DEF ProbeOwner, RemoveStale, OpenExclusive, RecoverUnlink, Sweep,
              TerminateRead, TerminateUnlink, OnForeign, OnNotLocked,
              ReturnOnly, GoTo
<1>6. ~Rename(p) /\ ~Crash(p)
  BY <1>1 DEF NobodyRenames, Rename, Crash
<1> QED
  BY <1>2, <1>3, <1>4, <1>5, <1>6 DEF Step

LEMMA HolderOnDiskStep ==
  ASSUME SerialUse, TypeOK, SerialInv, [Next]_vars
  PROVE  HolderOnDisk'
<1>1. ASSUME NEW p \in Proc, Start(p) PROVE HolderOnDisk'
  <2>1. holds[p] = {} /\ holds' = holds /\ dir' = dir
    BY <1>1 DEF Start, SerialInv, TheDeadHoldNothing
  <2>2. \A q \in Proc \ {p} : Me(q)' = Me(q)
    BY <1>1, OthersKeep DEF Me
  <2> QED
    BY <2>1, <2>2
       DEF SerialInv, HolderOnDisk, IsOwnedByCurrentProcess, HasRecord
<1>2. ASSUME NEW p \in Proc, Begin(p) \/ Step(p) \/ Crash(p),
             NEW q \in Proc, NEW d \in holds'[q]
      PROVE  IsOwnedByCurrentProcess(q, d)'
  <2>1. born' = born /\ Me(q)' = Me(q)
    BY <1>2, BornKept DEF Me
  <2>2. CASE d \in holds[q]
    <3>1. dir'[d] = dir[d]
      BY <1>2, <2>2, HeldStays
    <3> QED
      BY <2>1, <2>2, <3>1
         DEF SerialInv, HolderOnDisk, IsOwnedByCurrentProcess, HasRecord
  <2>3. CASE d \notin holds[q]
    <3>1. q = p
      BY <1>2, <2>3, OthersKeep
    <3> QED
      BY <1>2, <2>1, <2>3, <3>1, NewlyHeld DEF IsOwnedByCurrentProcess
  <2> QED
    BY <2>2, <2>3
<1>3. CASE UNCHANGED vars
  BY <1>3 DEF SerialInv, HolderOnDisk, IsOwnedByCurrentProcess, HasRecord, Me, vars
<1> QED
  BY <1>1, <1>2, <1>3 DEF Next, HolderOnDisk

-----------------------------------------------------------------------------
(* What a call has found out stays so until it acts on it.                 *)

LEMMA StillSoStep ==
  ASSUME SerialUse, TypeOK, SerialInv, NEW p \in Proc, Step(p)
  PROVE  StillSo(p)'
<1> DEFINE d == call[p].path
<1>1. /\ pc \in [Proc -> Location] /\ d \in Path /\ dir \in [Path -> File \cup {NoFile}]
      /\ pc[p] # "down" /\ StillSo(p) /\ StageFits(p)
  BY Running DEF TypeOK, CallRecord, SerialInv
<1>2. born' = born /\ Me(p)' = Me(p)
  BY BornKept DEF Me
<1>3. CASE pc'[p] \notin {"probe", "unlink", "open", "write", "termUnlink", "recover"}
  BY <1>3 DEF StillSo
<1>4. CASE Return(p)
  BY <1>1, <1>3, <1>4 DEF Return
<1>5. ASSUME OnNotLocked(p), dir'[d] = NoFile PROVE StillSo(p)'
  <2>1. \/ pc'[p] \in {"open", "recover"} /\ call' = call
        \/ pc'[p] \in {"read", "idle"}
    BY <1>1, <1>5 DEF OnNotLocked, ReturnOnly, Return, GoTo
  <2> QED
    BY <1>3, <1>5, <2>1 DEF StillSo
<1>6. CASE ReadLockRecord(p)
  <2>1. dir' = dir
    BY <1>6 DEF ReadLockRecord
  <2>2. CASE dir[d] = NoFile /\ OnNotLocked(p)
    BY <1>5, <2>1, <2>2
  <2>3. CASE IsOwnedByCurrentProcess(p, d) /\ OnOwn(p)
    <3>1. Return(p) \/ (GoTo(p, "recover") /\ pc'[p] = "recover") \/ GoTo(p, "rename")
      BY <1>1, <2>3 DEF OnOwn, Grant, GrantAgain, ReturnOnly, GoTo
    <3> QED
      BY <1>1, <1>2, <1>3, <1>4, <2>1, <2>3, <3>1
         DEF GoTo, StillSo, IsOwnedByCurrentProcess, HasRecord
  <2>4. CASE ~HasRecord(d) /\ GoTo(p, "unlink")
    BY <1>1, <2>1, <2>4 DEF GoTo, StillSo, HasRecord
  <2>5. CASE /\ HasRecord(d) /\ ~IsOwnedByCurrentProcess(p, d) /\ GoTo(p, "probe")
             /\ seen' = [seen EXCEPT ![p] = dir[d].by[1]]
    BY <1>1, <1>2, <2>1, <2>5
       DEF GoTo, StillSo, HasRecord, IsOwnedByCurrentProcess, TypeOK
  <2> QED
    BY <1>4, <1>6, <2>2, <2>3, <2>4, <2>5 DEF ReadLockRecord, OnForeign, ReturnOnly
<1>7. CASE ProbeOwner(p)
  <2>1. HasRecord(d) /\ dir[d].by[1] = seen[p] /\ dir' = dir
    BY <1>1, <1>7 DEF ProbeOwner, StillSo
  <2>2. CASE ~IsProcessAlive(seen[p]) /\ GoTo(p, "unlink")
    <3>1. dir[d].by \notin Live'
      <4> SUFFICES ASSUME NEW q \in Proc, pc'[q] # "down", dir[d].by = Me(q)'
                   PROVE  FALSE
        BY DEF Live
      <4>1. q = seen[p]
        BY <2>1 DEF Me
      <4>2. pc[q] # "down"
        BY <1>1, <2>2 DEF GoTo
      <4> QED
        BY <2>2, <4>1, <4>2 DEF IsProcessAlive
    <3> QED
      BY <1>1, <2>1, <2>2, <3>1 DEF GoTo, StillSo, HasRecord
  <2> QED
    BY <1>4, <1>7, <2>2 DEF ProbeOwner, OnForeign, ReturnOnly
<1>8. CASE RemoveStale(p)
  BY <1>1, <1>5, <1>8 DEF RemoveStale
<1>9. CASE OpenExclusive(p)
  <2>1. CASE GoTo(p, "write") /\ dir' = [dir EXCEPT ![d] = [by |-> Me(p), st |-> "open"]]
    <3>1. [by |-> Me(p), st |-> "open"] # NoFile
      BY <1>1, MeType, ProcAssumption DEF File
    <3> QED
      BY <1>1, <1>2, <2>1, <3>1 DEF GoTo, StillSo, HasOpen
  <2>2. CASE pc' = [pc EXCEPT ![p] = "read"]
    BY <1>1, <1>3, <2>2
  <2> QED
    BY <1>4, <1>9, <2>1, <2>2 DEF OpenExclusive, ReturnOnly
<1>10. CASE WriteRecord(p) \/ RecoverUnlink(p) \/ Rename(p)
  BY <1>4, <1>10 DEF WriteRecord, RecoverUnlink, Rename, Grant, ReturnOnly
<1>11. CASE TerminateRead(p)
  <2>1. CASE IsOwnedByCurrentProcess(p, d) /\ GoTo(p, "termUnlink") /\ dir' = dir
    BY <1>1, <1>2, <2>1 DEF GoTo, StillSo, IsOwnedByCurrentProcess, HasRecord
  <2>2. CASE AfterTerminate(p)
    BY <1>1, <1>3, <1>4, <2>2 DEF AfterTerminate
  <2> QED
    BY <1>11, <2>1, <2>2 DEF TerminateRead
<1>12. CASE TerminateUnlink(p)
  BY <1>1, <1>3, <1>4, <1>12 DEF TerminateUnlink, AfterTerminate
<1>13. CASE Sweep(p)
  BY <1>1, <1>3, <1>4, <1>13 DEF Sweep
<1> QED
  BY <1>6, <1>7, <1>8, <1>9, <1>10, <1>11, <1>12, <1>13 DEF Step

\* A process that starts or crashes changes nothing another one looks at.
LEMMA StillSoOthers ==
  ASSUME SerialUse, TypeOK, SerialInv, NEW p \in Proc, Start(p) \/ Crash(p),
         NEW q \in Proc, q # p
  PROVE  StillSo(q)'
<1> DEFINE d == call[q].path
<1>1. /\ UNCHANGED <<pc[q], call[q], seen[q], born[q]>> /\ Me(q)' = Me(q)
      /\ d \in Path /\ StillSo(q)
  BY OthersKeep DEF TypeOK, CallRecord, SerialInv, Me
<1>2. CASE ~Busy(q)
  BY <1>1, <1>2 DEF Busy, StillSo
<1>3. CASE Busy(q)
  <2>1. dir'[d] = dir[d]
    <3>1. CASE Start(p)
      BY <3>1 DEF Start
    <3>2. CASE Crash(p)
      <4>1. ~HasOpen(p, d)
        BY <1>1, <1>3, <3>2 DEF Crash, SerialInv, OneOpenFile, Alone, Busy
      <4> QED
        BY <1>1, <3>2, <4>1 DEF Crash, Closed
    <3> QED
      BY <3>1, <3>2
  <2>2. HasRecord(d) /\ dir[d].by \notin Live => dir[d].by \notin Live'
    <3> SUFFICES ASSUME HasRecord(d), dir[d].by \notin Live, NEW r \in Proc,
                        pc'[r] # "down", dir[d].by = Me(r)'
                 PROVE  FALSE
      BY DEF Live
    <3>1. r # p
      <4>1. CASE Start(p)
        BY <1>1, <4>1, StartIsNew DEF SerialInv, HasRecord
      <4>2. CASE Crash(p)
        BY <4>2 DEF Crash, TypeOK
      <4> QED
        BY <4>1, <4>2
    <3>2. pc[r] # "down" /\ Me(r) = Me(r)'
      BY <3>1, OthersKeep DEF Me
    <3> QED
      BY <3>2 DEF Live
  <2> QED
    BY <1>1, <2>1, <2>2 DEF StillSo, HasRecord, HasOpen, IsOwnedByCurrentProcess
<1> QED
  BY <1>2, <1>3

LEMMA StillSoNext == ASSUME SerialUse, TypeOK, SerialInv, [Next]_vars
                     PROVE  \A p \in Proc : StillSo(p)'
<1>1. ASSUME NEW p \in Proc, Start(p) \/ Crash(p) PROVE \A q \in Proc : StillSo(q)'
  <2>1. StillSo(p)'
    BY <1>1 DEF Start, Crash, TypeOK, StillSo
  <2> QED
    BY <1>1, <2>1, StillSoOthers
<1>2. ASSUME NEW p \in Proc, Begin(p) \/ Step(p) PROVE \A q \in Proc : StillSo(q)'
  <2>1. ASSUME NEW q \in Proc, q # p PROVE StillSo(q)'
    <3>1. ~Busy(q) /\ pc'[q] = pc[q]
      BY <1>2, <2>1, OthersIdle, OthersKeep DEF SerialInv
    <3> QED
      BY <3>1 DEF Busy, StillSo
  <2>2. CASE Begin(p)
    <3>1. pc'[p] \in {"idle", "read", "termRead", "sweep"}
      BY <2>2, BeginSerial, DestroySerial, EnterShape
    <3> QED
      BY <2>1, <3>1 DEF StillSo
  <2> QED
    BY <1>2, <2>1, <2>2, StillSoStep
<1>3. CASE UNCHANGED vars
  BY <1>3 DEF SerialInv, StillSo, HasRecord, HasOpen, IsOwnedByCurrentProcess,
              Live, Me, vars
<1> QED
  BY <1>1, <1>2, <1>3 DEF Next

-----------------------------------------------------------------------------
(* The theorems.                                                           *)

LEMMA SerialInvariant == ASSUME SerialUse
                         PROVE  Spec => [](TypeOK /\ SerialInv)
<1>1. Init => SerialInv
  BY ProcAssumption
     DEF Init, SerialInv, MadeByTheStarted, OneOpenFile, NobodyRenames, Alone,
         TheDeadHoldNothing, HolderOnDisk, StageFits, GaveUp, StillSo, HasOpen,
         Busy, NoCall, SweepStages
<1>2. ASSUME TypeOK, SerialInv, [Next]_vars PROVE SerialInv'
  <2>1. "rename" \notin Calls
    BY DEF SerialUse
  <2>2. \A p \in Proc : (StageFits(p) /\ GaveUp(p))'
    BY <1>2, ConductNext DEF SerialInv
  <2>3. TheDeadHoldNothing'
    BY <1>2, TheDeadHoldNothingStep DEF SerialInv
  <2>4. MadeByTheStarted' /\ OneOpenFile' /\ NobodyRenames' /\ Alone'
    BY <1>2, <2>1, MadeByTheStartedStep, OneOpenFileStep, NobodyRenamesStep,
       AloneStep DEF SerialInv
  <2>5. HolderOnDisk' /\ \A p \in Proc : StillSo(p)'
    BY <1>2, HolderOnDiskStep, StillSoNext
  <2> QED
    BY <2>2, <2>3, <2>4, <2>5 DEF SerialInv
<1> QED
  BY <1>1, <1>2, TypeCorrect, PTL DEF Spec

\* Calls that do not overlap: who was told that it holds a path has its own
\* record at the path, whoever crashes, comes back, or reuses a pid.
THEOREM HoldersHaveTheirLocks == ASSUME SerialUse
                                 PROVE  Spec => []HolderOnDisk
<1>1. SerialInv => HolderOnDisk
  BY DEF SerialInv
<1> QED
  BY <1>1, SerialInvariant, PTL

\* Calls that do not overlap: no path ever has two holders.
THEOREM HoldersExclude == ASSUME SerialUse
                          PROVE  Spec => []MutualExclusion
<1>1. HolderOnDisk => MutualExclusion
  BY DEF HolderOnDisk, MutualExclusion, IsOwnedByCurrentProcess, Me
<1> QED
  BY <1>1, HoldersHaveTheirLocks, PTL

\* Calls that do not overlap: a lock is refused only because of a complete
\* record of somebody else whose pid is in use or whose host is another one.
THEOREM RefusalsAreJustified == ASSUME SerialUse
                                PROVE  Spec => NoFalseRefusal
<1> DEFINE Just(p) == LET d == call[p].path IN
                        /\ HasRecord(d)
                        /\ dir[d].by # Me(p)
                        /\ \/ HostOf[dir[d].by[1]] # HostOf[p]
                           \/ IsProcessAlive(dir[d].by[1])
<1>1. ASSUME TypeOK, SerialInv, [Next]_vars, NEW p \in Proc, Refused(p)
      PROVE  Just(p)
  <2> DEFINE d == call[p].path
  <2>1. /\ Busy(p) /\ pc'[p] = "idle" /\ d \notin holds'[p] /\ d \in Path
        /\ call[p].stage \in {"exclusive", "save", "retry"}
        /\ StageFits(p) /\ StillSo(p)
        /\ pc \in [Proc -> Location] /\ holds \in [Proc -> SUBSET Path]
    BY <1>1 DEF Refused, SerialInv, StageFits, TypeOK, CallRecord
  <2>2. ASSUME NEW q \in Proc, Start(q) \/ Begin(q) \/ Step(q) \/ Crash(q)
        PROVE  q = p /\ Step(p)
    <3>1. q = p
      BY <1>1, <2>1, <2>2, OthersKeep DEF Busy
    <3>2. ~Start(p) /\ ~Begin(p) /\ ~Crash(p)
      BY <2>1, BeginIdle DEF Busy, Start, Crash
    <3> QED
      BY <2>2, <3>1, <3>2
  <2>3. Step(p)
    BY <1>1, <2>1, <2>2 DEF Next, Busy, vars
  <2>4. ~Grant(p) /\ ~GrantAgain(p) /\ ~GoTo(p, "open") /\ ~GoTo(p, "unlink")
        /\ ~GoTo(p, "probe")
    BY <2>1 DEF Grant, GrantAgain, GoTo
  <2>5. ~OnNotLocked(p)
    BY <2>1, <2>4 DEF OnNotLocked
  <2>6. CASE ReadLockRecord(p)
    BY <2>1, <2>4, <2>5, <2>6
       DEF ReadLockRecord, OnOwn, IsForeignHost, Me
  <2>7. CASE ProbeOwner(p)
    BY <2>1, <2>4, <2>7 DEF ProbeOwner, StillSo
  <2>8. CASE OpenExclusive(p)
    <3>1. dir[d] = NoFile /\ ~GoTo(p, "write") /\ pc'[p] # "read"
      BY <2>1, <2>8 DEF OpenExclusive, StillSo, GoTo
    <3> QED
      BY <2>1, <2>8, <3>1 DEF OpenExclusive, SerialUse
  <2>9. ~RemoveStale(p) /\ ~WriteRecord(p)
    BY <2>4, <2>5 DEF RemoveStale, WriteRecord, SerialUse
  <2>10. ~RecoverUnlink(p) /\ ~Rename(p) /\ ~Sweep(p)
    BY <1>1, <2>1 DEF RecoverUnlink, Rename, Sweep, StageFits, SerialInv,
                      NobodyRenames, SweepStages
  <2>11. ~TerminateRead(p) /\ ~TerminateUnlink(p)
    BY <2>1 DEF TerminateRead, TerminateUnlink, StageFits, SweepStages
  <2> QED
    BY <2>3, <2>6, <2>7, <2>8, <2>9, <2>10, <2>11 DEF Step
<1>2. TypeOK /\ SerialInv /\ [Next]_vars =>
        [\A p \in Proc : Refused(p) => Just(p)]_vars
  BY <1>1
<1> QED
  BY <1>2, SerialInvariant, PTL DEF NoFalseRefusal, Spec

LEMMA SameLive ==
  ASSUME born' = born, \A q \in Proc : pc'[q] = "down" <=> pc[q] = "down"
  PROVE  Live' = Live
  BY DEF Live, Me

LEMMA DeadLeaves ==
  ASSUME NEW p \in Proc, born' = born, pc'[p] = "down",
         \A q \in Proc \ {p} : pc'[q] = pc[q]
  PROVE  Live' = Live \ {Me(p)}
  BY DEF Live, Me

\* Nobody starts, ends or is told anything.
LEMMA SameRelies ==
  ASSUME Live' = Live, \A q \in Proc : pc[q] # "down" => holds'[q] = holds[q]
  PROVE  Relies' = Relies
<1>1. \A u \in Live : holds'[u[1]] = holds[u[1]]
  BY DEF Live, Me
<1> QED
  BY <1>1 DEF Relies

\* What p is told, or gives up, is what its incarnation relies on.
LEMMA ReliesOf ==
  ASSUME TypeOK, NEW p \in Proc, pc[p] # "down", Live' = Live,
         NEW S, holds' = [holds EXCEPT ![p] = S]
  PROVE  /\ Relies' = [Relies EXCEPT ![Me(p)] = S]
         /\ Relies[Me(p)] = holds[p]
<1>1. Me(p) \in Live /\ Me(p) \in Incarnation /\ Me(p)[1] = p
  BY MeType DEF Live, Me
<1>2. \A u \in Live \ {Me(p)} : u[1] # p /\ holds'[u[1]] = holds[u[1]]
  BY DEF Live, Me, TypeOK
<1>3. holds'[p] = S
  BY DEF TypeOK
<1> QED
  BY <1>1, <1>2, <1>3 DEF Relies

\* An incarnation that ends relies on nothing.
LEMMA ReliesGone ==
  ASSUME NEW p \in Proc, Live' = Live \ {Me(p)},
         \A q \in Proc \ {p} : holds'[q] = holds[q]
  PROVE  Relies' = [Relies EXCEPT ![Me(p)] = {}]
<1>1. \A u \in Live \ {Me(p)} : holds'[u[1]] = holds[u[1]]
  BY DEF Live, Me
<1> QED
  BY <1>1 DEF Relies

\* None of these ends a process.
LEMMA ConductEnds ==
  ASSUME pc \in [Proc -> Location], NEW p \in Proc,
         \/ OnOwn(p) \/ OnNotLocked(p) \/ OnForeign(p) \/ ReturnOnly(p)
         \/ AfterTerminate(p) \/ GoTo(p, "unlink") \/ GoTo(p, "probe")
         \/ GoTo(p, "termUnlink")
  PROVE  pc'[p] # "down"
  BY DEF OnOwn, OnNotLocked, OnForeign, AfterTerminate, Grant, GrantAgain,
         ReturnOnly, Return, GoTo

\* These tell nobody anything.
LEMMA ConductHolds ==
  ASSUME NEW p \in Proc,
         \/ OnNotLocked(p) \/ OnForeign(p) \/ ReturnOnly(p)
         \/ GoTo(p, "unlink") \/ GoTo(p, "probe") \/ GoTo(p, "termUnlink")
  PROVE  holds' = holds
  BY DEF OnNotLocked, OnForeign, ReturnOnly, GoTo

LEMMA SameHolder ==
  ASSUME \A d \in Path : \/ dir'[d] = dir[d]
                         \/ ~HasRecord(d) /\ ~HasRecord(d)'
  PROVE  Holder' = Holder
  BY DEF Holder, HasRecord

\* A removed file leaves the path free.
LEMMA Removed ==
  ASSUME dir \in [Path -> File \cup {NoFile}], NEW d \in Path,
         dir' = [dir EXCEPT ![d] = NoFile]
  PROVE  /\ Holder' = [Holder EXCEPT ![d] = NoFile]
         /\ ~HasRecord(d) => Holder' = Holder
<1>1. dir'[d] = NoFile /\ \A e \in Path \ {d} : dir'[e] = dir[e]
  OBVIOUS
<1> QED
  BY <1>1 DEF Holder, HasRecord

\* A lock that nobody relies on is not in the way of removing its file.
LEMMA RemovedIsRelease ==
  ASSUME TypeOK, NEW d \in Path, HasRecord(d), Live' = Live, Relies' = Relies,
         dir' = [dir EXCEPT ![d] = NoFile],
         d \notin Relies[dir[d].by]
  PROVE  Lease!LNext
<1>1. Holder[d] = dir[d].by /\ Holder[d] \in Incarnation
  BY DEF Holder, HasRecord, TypeOK, File
<1>2. Holder' = [Holder EXCEPT ![d] = NoFile]
  BY Removed DEF TypeOK
<1>3. Holder[d] # NoFile
  BY <1>1, ProcAssumption
<1> QED
  BY <1>1, <1>2, <1>3 DEF Lease!LNext, Lease!Release

\* What a step of p means to the lease.
LEMMA LeaseOfStep ==
  ASSUME SerialUse, TypeOK, SerialInv, NEW p \in Proc, Step(p)
  PROVE  [Lease!LNext]_(Lease!lvars)
<1> DEFINE d == call[p].path
<1>1. /\ d \in Path /\ dir \in [Path -> File \cup {NoFile}]
      /\ pc \in [Proc -> Location] /\ born' = born
      /\ StageFits(p) /\ GaveUp(p) /\ StillSo(p)
      /\ pc[p] # "down" /\ Me(p) \in Live /\ Me(p) \in Incarnation
  BY BornKept, Running, MeType DEF TypeOK, CallRecord, SerialInv, Live
<1>2. \A q \in Proc \ {p} : pc'[q] = pc[q]
  BY OthersKeep
<1>3. pc'[p] # "down" => Live' = Live
  BY <1>1, <1>2, SameLive
<1>4. ASSUME UNCHANGED Holder, UNCHANGED Live, holds' = holds
      PROVE  UNCHANGED Lease!lvars
  BY <1>4, SameRelies DEF Lease!lvars
<1>5. CASE ReadLockRecord(p) \/ ProbeOwner(p) \/ TerminateRead(p)
  <2>1. pc'[p] # "down"
    BY <1>1, <1>5, ConductEnds DEF ReadLockRecord, ProbeOwner, TerminateRead
  <2>2. UNCHANGED Holder /\ UNCHANGED Live
    BY <1>3, <1>5, <2>1, SameHolder
       DEF ReadLockRecord, ProbeOwner, TerminateRead
  <2>3. CASE holds' = holds
    BY <1>4, <2>2, <2>3
  <2>4. CASE holds' # holds
    <3>1. IsOwnedByCurrentProcess(p, d) /\ OnOwn(p)
      BY <1>5, <2>4, ConductHolds DEF ReadLockRecord, ProbeOwner, TerminateRead
    <3>2. holds' = [holds EXCEPT ![p] = holds[p] \cup {d}]
      BY <2>4, <3>1 DEF OnOwn, Grant, GrantAgain, ReturnOnly, GoTo
    <3>3. Holder[d] = Me(p)
      BY <1>1, <3>1 DEF Holder, IsOwnedByCurrentProcess
    <3>4. Relies' = [Relies EXCEPT ![Me(p)] = Relies[Me(p)] \cup {d}]
      BY <1>1, <2>2, <3>2, ReliesOf
    <3>5. Holder' = [Holder EXCEPT ![d] = Me(p)]
      BY <1>1, <2>2, <3>3 DEF Holder
    <3> QED
      BY <1>1, <2>2, <3>3, <3>4, <3>5 DEF Lease!LNext, Lease!Acquire
  <2> QED
    BY <2>3, <2>4
<1>6. CASE RemoveStale(p)
  <2>1. /\ pc'[p] # "down" /\ dir' = [dir EXCEPT ![d] = NoFile]
        /\ holds' = holds
    BY <1>1, <1>6, ConductEnds, ConductHolds DEF RemoveStale
  <2>2. CASE HasRecord(d)
    <3>1. dir[d].by \in Incarnation \ Live
      BY <1>1, <1>6, <2>2 DEF RemoveStale, StillSo, HasRecord, File
    <3>2. d \notin Relies[dir[d].by]
      BY <3>1 DEF Relies
    <3>3. Relies' = Relies
      BY <1>3, <2>1, SameRelies
    <3> QED
      BY <1>1, <1>3, <2>1, <2>2, <3>2, <3>3, RemovedIsRelease
  <2>3. CASE ~HasRecord(d)
    BY <1>1, <1>3, <1>4, <2>1, <2>3, Removed
  <2> QED
    BY <2>2, <2>3
<1>7. CASE OpenExclusive(p)
  <2>1. pc'[p] # "down" /\ holds' = holds
    BY <1>1, <1>7 DEF OpenExclusive, GoTo, ReturnOnly, Return
  <2>2. \A e \in Path : dir'[e] = dir[e] \/ (~HasRecord(e) /\ ~HasRecord(e)')
    BY <1>1, <1>7 DEF OpenExclusive, HasRecord
  <2> QED
    BY <1>3, <1>4, <2>1, <2>2, SameHolder
<1>8. CASE WriteRecord(p)
  <2>1. /\ HasOpen(p, d) /\ dir' = Closed(p, "full") /\ pc'[p] # "down"
        /\ holds' = [holds EXCEPT ![p] = holds[p] \cup {d}]
    BY <1>1, <1>8 DEF WriteRecord, StillSo, SerialUse, Grant, Return
  <2>2. \A e \in Path \ {d} : dir'[e] = dir[e]
    BY <1>1, <2>1 DEF Closed, SerialInv, OneOpenFile
  <2>3. dir'[d] = [by |-> Me(p), st |-> "full"] /\ dir'[d] # NoFile
    BY <1>1, <2>1, ProcAssumption DEF Closed, File
  <2>4. Holder[d] = NoFile
    BY <1>1, <2>1 DEF Holder, HasRecord, HasOpen
  <2>5. Holder' = [Holder EXCEPT ![d] = Me(p)]
    <3>1. PICK c \in Path : c = d
      BY <1>1
    <3>2. HasRecord(c)' /\ dir'[c].by = Me(p)
      BY <2>3, <3>1 DEF HasRecord
    <3>3. \A e \in Path \ {c} : HasRecord(e)' = HasRecord(e) /\ dir'[e] = dir[e]
      BY <2>2, <3>1 DEF HasRecord
    <3> QED
      BY <3>1, <3>2, <3>3 DEF Holder
  <2>6. Relies' = [Relies EXCEPT ![Me(p)] = Relies[Me(p)] \cup {d}]
    BY <1>1, <1>3, <2>1, ReliesOf
  <2> QED
    BY <1>1, <1>3, <2>1, <2>4, <2>5, <2>6 DEF Lease!LNext, Lease!Acquire
<1>9. CASE TerminateUnlink(p) \/ RecoverUnlink(p)
  <2>0. /\ pc'[p] # "down" /\ dir' = [dir EXCEPT ![d] = NoFile]
        /\ holds' = holds
    BY <1>1, <1>9, ConductEnds, ConductHolds DEF TerminateUnlink, RecoverUnlink
  <2>1. dir[d] = NoFile \/ IsOwnedByCurrentProcess(p, d)
    BY <1>1, <1>9 DEF TerminateUnlink, RecoverUnlink, StillSo
  <2>2. CASE IsOwnedByCurrentProcess(p, d)
    <3>1. HasRecord(d) /\ dir[d].by = Me(p)
      BY <2>2 DEF IsOwnedByCurrentProcess
    <3>2. d \notin holds[p]
      BY <1>1, <1>9 DEF TerminateUnlink, RecoverUnlink, StageFits, GaveUp
    <3>3. d \notin Relies[Me(p)]
      BY <1>1, <3>2 DEF Relies, Me
    <3>4. Relies' = Relies
      BY <1>3, <2>0, SameRelies
    <3> QED
      BY <1>1, <1>3, <2>0, <3>1, <3>3, <3>4, RemovedIsRelease
  <2>3. CASE dir[d] = NoFile
    BY <1>1, <1>3, <1>4, <2>0, <2>3, Removed DEF HasRecord
  <2> QED
    BY <2>1, <2>2, <2>3
<1>11. CASE Sweep(p)
  <2>1. dir' = dir /\ Holder' = Holder /\ holds' = holds
    BY <1>11, SameHolder DEF Sweep
  <2>2. CASE pc'[p] = "down"
    <3>1. Live' = Live \ {Me(p)}
      BY <1>1, <1>2, <2>2, DeadLeaves
    <3>2. Relies' = [Relies EXCEPT ![Me(p)] = {}]
      BY <2>1, <3>1, ReliesGone
    <3> QED
      BY <1>1, <2>1, <3>1, <3>2 DEF Lease!LNext, Lease!Leave
  <2> QED
    BY <1>3, <1>4, <2>1, <2>2
<1>10. ~Rename(p)
  BY DEF SerialInv, NobodyRenames, Rename
<1> QED
  BY <1>5, <1>6, <1>7, <1>8, <1>9, <1>10, <1>11 DEF Step

\* A call begins with giving up the paths that it is going to release, if any.
LEMMA BeginHolds ==
  ASSUME TypeOK, NEW p \in Proc, Begin(p)
  PROVE  \E S \in SUBSET Path : holds' = [holds EXCEPT ![p] = holds[p] \ S]
<1>1. CASE holds' = holds
  <2>1. holds' = [holds EXCEPT ![p] = holds[p] \ {}]
    BY <1>1 DEF TypeOK
  <2> QED
    BY <2>1
<1>2. CASE \E S \in SUBSET Path : GiveUp(p, S)
  BY <1>2 DEF GiveUp
<1>3. ASSUME NEW d \in Path PROVE {d} \in SUBSET Path
  OBVIOUS
<1> QED
  BY <1>1, <1>2, <1>3 DEF Begin, ExclusiveLock, Save, GetLockStatus, Recover,
     RenameLock, ExclusiveUnLock, FileDestroy, CleanUpOnExit

\* Calls that do not overlap: the lock files implement the lease.
THEOREM FilesImplementLease == ASSUME SerialUse
                               PROVE  Spec => ImplementsLease
<1>1. Init => Lease!LInit
  <2>1. Init => Live = {}
    BY DEF Init, Live
  <2> QED
    BY <2>1 DEF Init, Lease!LInit, Holder, HasRecord, Relies
<1>2. ASSUME TypeOK, SerialInv, [Next]_vars PROVE [Lease!LNext]_(Lease!lvars)
  <2>1. ASSUME NEW p \in Proc, Start(p) PROVE [Lease!LNext]_(Lease!lvars)
    <3>1. Live' = Live \cup {<<p, born[p] + 1>>}
      BY <1>2, <2>1 DEF Start, Live, Me, TypeOK
    <3>2. <<p, born[p] + 1>> \in Incarnation \ Live
      BY <1>2, <2>1, ProcAssumption DEF Start, TypeOK, Incarnation, Live, Me
    <3>3. Holder' = Holder
      BY <2>1, SameHolder DEF Start
    <3>4. holds' = holds /\ holds[p] = {}
      BY <1>2, <2>1 DEF Start, SerialInv, TheDeadHoldNothing
    <3>5. Relies' = Relies
      BY <3>1, <3>2, <3>4 DEF Relies
    <3> QED
      BY <3>1, <3>2, <3>3, <3>5 DEF Lease!LNext, Lease!Join
  <2>2. ASSUME NEW p \in Proc, Begin(p) PROVE [Lease!LNext]_(Lease!lvars)
    <3>1. ASSUME NEW d \in Path, FileDestroy(p, d)
          PROVE  [Lease!LNext]_(Lease!lvars)
      <4>1. /\ UNCHANGED <<pc, born, holds>>
            /\ dir' = [dir EXCEPT ![d] = NoFile]
            /\ \A q \in Proc : d \notin holds[q]
        BY <1>2, <3>1, DestroySerial
      <4>2. Live' = Live /\ Relies' = Relies
        BY <4>1 DEF Live, Me, Relies
      <4>3. CASE HasRecord(d)
        <5>1. dir[d].by \in Incarnation /\ dir[d].by[1] \in Proc
          BY <1>2, <4>3 DEF TypeOK, HasRecord, File, Incarnation
        <5>2. d \notin Relies[dir[d].by]
          BY <4>1, <5>1 DEF Relies
        <5> QED
          BY <1>2, <4>1, <4>2, <4>3, <5>2, RemovedIsRelease
      <4>4. CASE ~HasRecord(d)
        <5>1. Holder' = Holder
          BY <1>2, <4>1, <4>4, Removed DEF TypeOK
        <5> QED
          BY <4>2, <5>1 DEF Lease!lvars
      <4> QED
        BY <4>3, <4>4
    <3>2. CASE ~ \E d \in Path : FileDestroy(p, d)
      <4>1. dir' = dir /\ born' = born /\ pc[p] = "idle"
        BY <2>2, <3>2, BeginSerial, BeginIdle DEF Enter
      <4>2. \A q \in Proc : pc'[q] = "down" <=> pc[q] = "down"
        <5>1. pc'[p] \in {"read", "termRead", "sweep"}
          BY <1>2, <2>2, <3>2, BeginSerial, EnterShape
        <5> QED
          BY <1>2, <2>2, <4>1, <5>1, OthersKeep
      <4>3. Live' = Live /\ Holder' = Holder
        BY <4>1, <4>2, SameLive, SameHolder
      <4>4. PICK S \in SUBSET Path : holds' = [holds EXCEPT ![p] = holds[p] \ S]
        BY <1>2, <2>2, BeginHolds
      <4>5. Relies' = [Relies EXCEPT ![Me(p)] = Relies[Me(p)] \ S]
        BY <1>2, <4>1, <4>3, <4>4, ReliesOf
      <4>6. Me(p) \in Live /\ Me(p) \in Incarnation
        BY <1>2, <4>1, MeType DEF Live
      <4> QED
        BY <4>3, <4>5, <4>6 DEF Lease!LNext, Lease!GiveUp
    <3> QED
      BY <3>1, <3>2
  <2>3. ASSUME NEW p \in Proc, Crash(p) PROVE [Lease!LNext]_(Lease!lvars)
    <3>1. Live' = Live \ {Me(p)}
      BY <1>2, <2>3, DeadLeaves, OthersKeep DEF Crash, TypeOK
    <3>2. Me(p) \in Live /\ Me(p) \in Incarnation
      BY <1>2, <2>3, MeType DEF Crash, Live
    <3>3. \A d \in Path : dir'[d] = dir[d] \/ (~HasRecord(d) /\ ~HasRecord(d)')
      BY <2>3 DEF Crash, Closed, HasOpen, HasRecord
    <3>4. Holder' = Holder
      BY <3>3, SameHolder
    <3>5. Relies' = [Relies EXCEPT ![Me(p)] = {}]
      BY <1>2, <2>3, <3>1, ReliesGone DEF Crash, TypeOK
    <3> QED
      BY <3>1, <3>2, <3>4, <3>5 DEF Lease!LNext, Lease!Leave
  <2>4. CASE UNCHANGED vars
    BY <2>4 DEF vars, Lease!lvars, Live, Holder, HasRecord, Me, Relies
  <2> QED
    BY <1>2, <2>1, <2>2, <2>3, <2>4, LeaseOfStep DEF Next
<1> QED
  BY <1>1, <1>2, SerialInvariant, PTL DEF ImplementsLease, Lease!LSpec, Spec
=============================================================================
