------------------------- MODULE ContainerLockProofs -------------------------
(***************************************************************************)
(* Theorems about ContainerLock, for any processes, hosts, containers and  *)
(* files and every interleaving of the walks: what an answer of a          *)
(* container call is worth.  What is said of one path comes from           *)
(* EditLockProofs.                                                         *)
(***************************************************************************)
EXTENDS ContainerLock, EditLockProofs

\* Where a walk is while it is at a path, and what it calls there.
Places(op) == IF op = "lock"
              THEN {"read", "probe", "unlink", "open", "write"}
              ELSE IF op = "status" THEN {"read", "probe", "unlink"}
              ELSE IF op = "unlock" THEN {"termRead", "termUnlink"} ELSE {}

Stages(op) == IF op = "lock" THEN {"exclusive", "save", "retry"}
              ELSE IF op = "status" THEN {"query"}
              ELSE IF op = "unlock" THEN {"unlock"} ELSE {}

AtPath(p, op) == pc[p] \in Places(op) /\ call[p].stage \in Stages(op)

AtNoPath(p) == pc[p] \in {"down", "idle"} /\ call[p].stage = "none"

WalkFits(p) == /\ pc[p] = "down" => walk[p].op = "none"
               /\ AtPath(p, walk[p].op) \/ AtNoPath(p)

\* The walk has still to come to f.
Pending(p, f) == \/ f \in walk[p].files
                 \/ BoxOf[f] \in walk[p].todo
                 \/ Busy(p) /\ f = call[p].path

\* What the walk has done with a file that it came to.
Settled(p, f) ==
    /\ walk[p].op = "lock" /\ walk[p].ok => f \in holds[p]
    /\ walk[p].op = "unlock" => ~IsOwnedByCurrentProcess(p, f)
    /\ walk[p].op = "status" /\ walk[p].ok => ~IsOwnedByCurrentProcess(p, f)

Looking == {"lock", "unlock", "status"}

\* A file that was there all through the call is there now, and the walk comes
\* to it or has been there.
Sees(p) == walk[p].op \in Looking =>
               \A f \in walk[p].was :
                   f \in exists /\ (Pending(p, f) \/ Settled(p, f))

\* The inductive invariant.
WalkInv == CTypeOK /\ \A p \in Proc : WalkFits(p) /\ Sees(p)

-----------------------------------------------------------------------------
(* Walks do at a path what EditLock does.                                  *)

LEMMA ResolveType ==
  ASSUME CTypeOK, NEW f \in Path, NEW d \in Resolve(f)
  PROVE  d \in Path /\ (f \in exists => d = f)
<1>1. BoxOf[f] \in Box
  BY ContainerAssumption
<1>2. CASE BoxOf[f] \notin CellView \/ f \in exists
  BY <1>2 DEF Resolve
<1>3. CASE BoxOf[f] \in CellView /\ f \notin exists
  <2>1. CASE PrimaryOf[BoxOf[f]] # NoPath
    <3>1. d = PrimaryOf[BoxOf[f]]
      BY <1>3, <2>1 DEF Resolve
    <3> QED
      BY <1>3, <2>1, <3>1, ContainerAssumption
  <2>2. CASE PrimaryOf[BoxOf[f]] = NoPath
    BY <1>3, <2>2 DEF Resolve, CTypeOK
  <2> QED
    BY <2>1, <2>2
<1> QED
  BY <1>2, <1>3

\* What a process does in a step: start, end, begin with a path, go on there.
Acts(p) == Start(p) \/ Begin(p) \/ Step(p) \/ Crash(p)

LEMMA LookAtBegins ==
  ASSUME CTypeOK, NEW p \in Proc, LookAt(p)
  PROVE  Begin(p)
<1>1. PICK f \in walk[p].files : \E d \in Resolve(f) :
          ExclusiveLock(p, d) \/ ExclusiveUnLock(p, d) \/ GetLockStatus(p, d)
  BY DEF LookAt
<1>2. PICK d \in Resolve(f) :
          ExclusiveLock(p, d) \/ ExclusiveUnLock(p, d) \/ GetLockStatus(p, d)
  BY <1>1
<1>3. f \in Path
  BY DEF CTypeOK, WalkRecord
<1>4. d \in Path
  BY <1>3, ResolveType
<1> QED
  BY <1>2, <1>4 DEF Begin

LEMMA DestroyBegins ==
  ASSUME CTypeOK, NEW p \in Proc, DestroyLock(p)
  PROVE  \E f \in Path : FileDestroy(p, f) /\ Begin(p)
<1>1. PICK f \in walk[p].files : FileDestroy(p, f)
  BY DEF DestroyLock
<1>2. f \in Path
  BY DEF CTypeOK, WalkRecord
<1> QED
  BY <1>1, <1>2 DEF Begin

LEMMA WalkActs ==
  ASSUME CTypeOK, NEW p \in Proc,
         \/ CStart(p) \/ CCrash(p) \/ DestroyLock(p) \/ LookAt(p)
         \/ LockStep(p) \/ UnlockStep(p) \/ StatusStep(p)
  PROVE  Acts(p)
  BY LookAtBegins, DestroyBegins
     DEF Acts, CStart, CCrash, LockStep, UnlockStep, StatusStep

LEMMA WalkStays ==
  ASSUME NEW p \in Proc,
         \/ LockObj(p) \/ UnlockObj(p) \/ HasLockedFiles(p)
         \/ DestroyData(p) \/ ListFiles(p) \/ WalkReturns(p)
  PROVE  UNCHANGED vars
  BY DEF LockObj, UnlockObj, HasLockedFiles, Walks, DestroyData, ListFiles,
         WalkReturns

LEMMA WalkNext == ASSUME CTypeOK, [CNext]_cvars
                  PROVE  [Next]_vars
  BY WalkActs, WalkStays DEF CNext, Next, Acts, Appear, Vanish, cvars

-----------------------------------------------------------------------------
(* The walks keep their types.                                             *)

LEMMA NoWalkType == NoWalk \in WalkRecord
  BY DEF NoWalk, WalkRecord

LEMMA WalksType ==
  ASSUME CTypeOK, NEW p \in Proc, NEW op \in Looking,
         NEW first \in SUBSET Box, NEW B \in SUBSET Box, NEW S \in SUBSET Path,
         Walks(p, op, first, B, S)
  PROVE  walk' \in [Proc -> WalkRecord] /\ exists' = exists
<1>1. exists \cap (FilesIn(B) \cup S) \in SUBSET Path
  BY DEF FilesIn
<1>2. [op |-> op, first |-> first, todo |-> B, files |-> S,
       ok |-> TRUE, was |-> exists \cap (FilesIn(B) \cup S)] \in WalkRecord
  BY <1>1 DEF WalkRecord, Looking
<1> QED
  BY <1>2 DEF Walks, CTypeOK

LEMMA BoxesType ==
  ASSUME NEW b \in Box, NEW recursive \in BOOLEAN
  PROVE  Boxes(b, recursive) \in SUBSET Box
  BY ContainerAssumption DEF Boxes

\* Every call starts such a walk.
LEMMA CallWalks ==
  ASSUME NEW p \in Proc, LockObj(p) \/ UnlockObj(p) \/ HasLockedFiles(p)
  PROVE  \E op \in Looking, first \in SUBSET Box, B \in SUBSET Box,
            S \in SUBSET Path : Walks(p, op, first, B, S)
<1>1. ASSUME NEW op \in Looking, NEW f \in Path, Walks(p, op, {}, {}, {f})
      PROVE  \E first \in SUBSET Box, B \in SUBSET Box, S \in SUBSET Path :
                 Walks(p, op, first, B, S)
  <2>1. {} \in SUBSET Box /\ {f} \in SUBSET Path
    OBVIOUS
  <2> QED
    BY <1>1, <2>1
<1>2. ASSUME NEW op \in Looking, NEW b \in Box, NEW recursive \in BOOLEAN,
             Walks(p, op, {b}, Boxes(b, recursive), {})
      PROVE  \E first \in SUBSET Box, B \in SUBSET Box, S \in SUBSET Path :
                 Walks(p, op, first, B, S)
  <2>1. {b} \in SUBSET Box /\ {} \in SUBSET Path
    OBVIOUS
  <2> QED
    BY <1>2, <2>1, BoxesType
<1>3. TRUE \in BOOLEAN
  OBVIOUS
<1> QED
  BY <1>1, <1>2, <1>3 DEF LockObj, UnlockObj, HasLockedFiles, Looking

LEMMA GoesType ==
  ASSUME NEW f, exists \in SUBSET Path, NEW W \in [Proc -> WalkRecord],
         Goes(f, W)
  PROVE  /\ walk' \in [Proc -> WalkRecord] /\ exists' \in SUBSET Path
         /\ \A q \in Proc :
               /\ walk'[q].op = W[q].op /\ walk'[q].todo = W[q].todo
               /\ walk'[q].files = W[q].files /\ walk'[q].ok = W[q].ok
               /\ walk'[q].was = W[q].was \ {f}
<1>1. ASSUME NEW w \in WalkRecord, NEW v, v = [w EXCEPT !.was = w.was \ {f}]
      PROVE  /\ v \in WalkRecord
             /\ v.op = w.op /\ v.todo = w.todo
             /\ v.files = w.files /\ v.ok = w.ok
             /\ v.was = w.was \ {f}
  BY <1>1 DEF WalkRecord
<1>2. ASSUME NEW q \in Proc
      PROVE  W[q] \in WalkRecord /\ walk'[q] = [W[q] EXCEPT !.was = W[q].was \ {f}]
  BY DEF Goes
<1> QED
  BY <1>1, <1>2 DEF Goes

\* The walk of a process that destroys a file.
DestroyWalk(f) == [NoWalk EXCEPT !.op = "destroy", !.files = {f}]

LEMMA DestroyWalkType ==
  ASSUME NEW f \in Path
  PROVE  /\ DestroyWalk(f) \in WalkRecord
         /\ DestroyWalk(f).op = "destroy" /\ DestroyWalk(f).was = {}
  BY DEF DestroyWalk, NoWalk, WalkRecord

LEMMA ListedType ==
  ASSUME NEW w \in WalkRecord, NEW b, exists \in SUBSET Path, NEW v, v = Listed(w, b)
  PROVE  /\ v \in WalkRecord
         /\ v.op = w.op /\ v.ok = w.ok /\ v.was = w.was
         /\ v.todo = w.todo \ {b} /\ v.files = FilesOf(b) \cap exists
<1> DEFINE todo == w.todo \ {b}
           files == FilesOf(b) \cap exists
<1>1. todo \in SUBSET Box /\ files \in SUBSET Path
  BY DEF WalkRecord
<1>2. v = [w EXCEPT !.first = {}, !.todo = todo, !.files = files]
  BY DEF Listed
<1> HIDE DEF todo, files
<1>3. v = [op |-> w.op, first |-> {}, todo |-> todo, files |-> files,
           ok |-> w.ok, was |-> w.was]
  BY <1>2 DEF WalkRecord
<1>4. /\ v \in WalkRecord
      /\ v.op = w.op /\ v.ok = w.ok /\ v.was = w.was
      /\ v.todo = todo /\ v.files = files
  BY <1>1, <1>3 DEF WalkRecord
<1> QED
  BY <1>4 DEF todo, files

LEMMA EndedType ==
  ASSUME NEW w \in WalkRecord, NEW ok \in BOOLEAN, NEW v, v = Ended(w, ok)
  PROVE  /\ v \in WalkRecord
         /\ v.op = w.op /\ v.ok = ok /\ v.was = w.was
  BY DEF WalkRecord, Ended

LEMMA LookedType ==
  ASSUME NEW w \in WalkRecord, NEW f, NEW v, v = [w EXCEPT !.files = w.files \ {f}]
  PROVE  /\ v \in WalkRecord
         /\ v.op = w.op /\ v.todo = w.todo /\ v.ok = w.ok /\ v.was = w.was
         /\ v.files = w.files \ {f}
  BY DEF WalkRecord

LEMMA AnswerType ==
  ASSUME NEW w \in WalkRecord, NEW ok \in BOOLEAN, NEW v, v = [w EXCEPT !.ok = ok]
  PROVE  /\ v \in WalkRecord
         /\ v.op = w.op /\ v.todo = w.todo /\ v.files = w.files
         /\ v.was = w.was /\ v.ok = ok
  BY DEF WalkRecord

-----------------------------------------------------------------------------
(* One path.                                                               *)

LEMMA PlaceOf ==
  ASSUME NEW p \in Proc, NEW op
  PROVE  /\ AtPath(p, op) => Busy(p) /\ op \in Looking
         /\ AtNoPath(p) => ~Busy(p)
  BY DEF AtPath, AtNoPath, Places, Busy, Looking

\* What a step of the walk's call does: it goes on or is at its end.
Onward(p, op) == AtPath(p, op)' /\ call'[p].path = call[p].path

LEMMA GoToPlace ==
  ASSUME TypeOK, NEW p \in Proc, NEW op, NEW loc, AtPath(p, op),
         GoTo(p, loc), loc \in Places(op)
  PROVE  Onward(p, op) /\ holds[p] \subseteq holds'[p]
  BY DEF TypeOK, GoTo, AtPath, Onward

LEMMA StagePlace ==
  ASSUME TypeOK, NEW p \in Proc, NEW op, NEW loc, NEW s,
         pc' = [pc EXCEPT ![p] = loc], call' = [call EXCEPT ![p].stage = s],
         holds' = holds, loc \in Places(op), s \in Stages(op)
  PROVE  Onward(p, op) /\ holds[p] \subseteq holds'[p]
  BY StageOnly DEF TypeOK, AtPath, Onward

LEMMA ReturnPlace ==
  ASSUME TypeOK, NEW p \in Proc, Return(p)
  PROVE  pc'[p] = "idle" /\ AtNoPath(p)'
  BY DEF TypeOK, Return, AtNoPath, NoCall

LEMMA EndPlace ==
  ASSUME TypeOK, NEW p \in Proc, ReturnOnly(p) \/ Grant(p) \/ GrantAgain(p)
  PROVE  pc'[p] = "idle" /\ AtNoPath(p)' /\ holds[p] \subseteq holds'[p]
  BY ReturnPlace DEF TypeOK, ReturnOnly, Grant, GrantAgain

\* A walk that takes locks.
LEMMA LockPlace ==
  ASSUME TypeOK, NEW p \in Proc, AtPath(p, "lock"), Step(p)
  PROVE  /\ Onward(p, "lock") \/ (pc'[p] = "idle" /\ AtNoPath(p)')
         /\ holds[p] \subseteq holds'[p]
<1>1. /\ pc[p] \in {"read", "probe", "unlink", "open", "write"}
      /\ call[p].stage \in {"exclusive", "save", "retry"}
      /\ Places("lock") = {"read", "probe", "unlink", "open", "write"}
      /\ Stages("lock") = {"exclusive", "save", "retry"}
  BY DEF AtPath, Places, Stages
<1>2. CASE OnOwn(p)
  BY <1>1, <1>2, EndPlace DEF OnOwn
<1>3. CASE OnNotLocked(p)
  BY <1>1, <1>3, StagePlace, GoToPlace DEF OnNotLocked
<1>4. CASE ReturnOnly(p) \/ Grant(p)
  BY <1>4, EndPlace
<1>5. CASE GoTo(p, "unlink") \/ GoTo(p, "probe") \/ GoTo(p, "write")
  BY <1>1, <1>5, GoToPlace
<1>6. CASE /\ pc' = [pc EXCEPT ![p] = "read"]
           /\ call' = [call EXCEPT ![p].stage = "retry"]
           /\ holds' = holds
  BY <1>1, <1>6, StagePlace
<1>7. \/ ReadLockRecord(p) \/ ProbeOwner(p) \/ RemoveStale(p)
      \/ OpenExclusive(p) \/ WriteRecord(p)
  BY <1>1 DEF Step, TerminateRead, TerminateUnlink, Sweep, RecoverUnlink, Rename
<1> QED
  BY <1>2, <1>3, <1>4, <1>5, <1>6, <1>7
     DEF ReadLockRecord, ProbeOwner, RemoveStale, OpenExclusive, WriteRecord,
         OnForeign

\* A walk that looks for locks.
LEMMA StatusPlace ==
  ASSUME TypeOK, NEW p \in Proc, AtPath(p, "status"), Step(p)
  PROVE  Onward(p, "status") \/ (pc'[p] = "idle" /\ AtNoPath(p)')
<1>1. /\ pc[p] \in {"read", "probe", "unlink"}
      /\ call[p].stage = "query"
      /\ Places("status") = {"read", "probe", "unlink"}
  BY DEF AtPath, Places, Stages
<1>2. ReadLockRecord(p) \/ ProbeOwner(p) \/ RemoveStale(p)
  BY <1>1 DEF Step, OpenExclusive, WriteRecord, TerminateRead,
              TerminateUnlink, Sweep, RecoverUnlink, Rename
<1>3. CASE ReturnOnly(p)
  BY <1>3, EndPlace
<1>4. CASE GoTo(p, "unlink") \/ GoTo(p, "probe")
  BY <1>1, <1>4, GoToPlace
<1> QED
  BY <1>1, <1>2, <1>3, <1>4
     DEF ReadLockRecord, ProbeOwner, RemoveStale, OnOwn, OnNotLocked, OnForeign

\* A walk that gives locks back.
LEMMA UnlockPlace ==
  ASSUME TypeOK, NEW p \in Proc, AtPath(p, "unlock"), Step(p)
  PROVE  Onward(p, "unlock") \/ (pc'[p] = "idle" /\ AtNoPath(p)')
<1>1. /\ pc[p] \in {"termRead", "termUnlink"}
      /\ call[p].stage = "unlock"
      /\ Places("unlock") = {"termRead", "termUnlink"}
  BY DEF AtPath, Places, Stages
<1>2. TerminateRead(p) \/ TerminateUnlink(p)
  BY <1>1 DEF Step, ReadLockRecord, ProbeOwner, RemoveStale, OpenExclusive,
              WriteRecord, Sweep, RecoverUnlink, Rename
<1> QED
  BY <1>1, <1>2, GoToPlace, ReturnPlace
     DEF TerminateRead, TerminateUnlink, AfterTerminate

\* When a call for one path is at its end, what it answers is so.
LEMMA GrantedHolds ==
  ASSUME TypeOK, NEW p \in Proc, AtPath(p, "lock"), Step(p), Granted(p)
  PROVE  call[p].path \in holds'[p]
<1>1. call[p].stage \in {"exclusive", "save", "retry"}
  BY DEF AtPath, Stages
<1>2. CASE Grant(p) \/ GrantAgain(p)
  BY <1>2 DEF TypeOK, Grant, GrantAgain
<1>3. CASE pc[p] = "read" /\ IsOwnedByCurrentProcess(p, call[p].path)
  <2>1. ReadLockRecord(p)
    BY <1>3 DEF Step, ProbeOwner, RemoveStale, OpenExclusive, WriteRecord,
                TerminateRead, TerminateUnlink, Sweep, RecoverUnlink, Rename
  <2>2. OnOwn(p)
    BY <1>3, <2>1 DEF ReadLockRecord, IsOwnedByCurrentProcess, HasRecord,
                      IsForeignHost, Me
  <2> QED
    BY <1>1, <1>2, <2>2 DEF OnOwn
<1> QED
  BY <1>2, <1>3 DEF Granted

\* A look that finds no lock leaves none, and neither does giving it back.
LEMMA NotLockedIsFree ==
  ASSUME TypeOK, NEW p \in Proc, AtPath(p, "status"), Step(p), NotLocked(p)
  PROVE  dir'[call[p].path] = NoFile
<1>1. pc[p] \in {"read", "unlink"} /\ call[p].path \in Path
  BY DEF NotLocked, TypeOK, CallRecord
<1>2. ReadLockRecord(p) \/ RemoveStale(p)
  BY <1>1 DEF Step, ProbeOwner, OpenExclusive, WriteRecord, TerminateRead,
              TerminateUnlink, Sweep, RecoverUnlink, Rename
<1> QED
  BY <1>1, <1>2 DEF NotLocked, TypeOK, ReadLockRecord, RemoveStale

LEMMA UnlockedIsFree ==
  ASSUME TypeOK, NEW p \in Proc, AtPath(p, "unlock"), Step(p), pc'[p] = "idle",
         NEW d, d = call[p].path
  PROVE  ~IsOwnedByCurrentProcess(p, d)'
<1>1. pc[p] \in {"termRead", "termUnlink"} /\ d \in Path
  BY DEF AtPath, Places, TypeOK, CallRecord
<1>2. TerminateRead(p) \/ TerminateUnlink(p)
  BY <1>1 DEF Step, ReadLockRecord, ProbeOwner, RemoveStale, OpenExclusive,
              WriteRecord, Sweep, RecoverUnlink, Rename
<1>3. CASE TerminateRead(p)
  <2>1. ~GoTo(p, "termUnlink")
    BY DEF GoTo, TypeOK
  <2> QED
    BY <1>3, <2>1
       DEF TerminateRead, IsOwnedByCurrentProcess, HasRecord, Me
<1>4. CASE TerminateUnlink(p)
  BY <1>1, <1>4
     DEF TerminateUnlink, TypeOK, IsOwnedByCurrentProcess, HasRecord
<1> QED
  BY <1>2, <1>3, <1>4

LEMMA NobodyRenamesHere ==
  ASSUME \A p \in Proc : WalkFits(p)
  PROVE  NobodyRenames
<1> SUFFICES ASSUME NEW p \in Proc
             PROVE  pc[p] # "rename" /\ call[p].stage # "rename"
  BY DEF NobodyRenames
<1>1. CASE AtNoPath(p)
  BY <1>1 DEF AtNoPath
<1>2. ASSUME NEW op, AtPath(p, op)
      PROVE  pc[p] # "rename" /\ call[p].stage # "rename"
  BY <1>2 DEF AtPath, Places, Stages
<1> QED
  BY <1>1, <1>2 DEF WalkFits

\* Who has no lock gets none from others, or without writing.
LEMMA OthersGiveNone ==
  ASSUME TypeOK, NobodyRenames, NEW p \in Proc, NEW q \in Proc, q # p, Acts(p),
         NEW d \in Path, ~IsOwnedByCurrentProcess(q, d)
  PROVE  ~IsOwnedByCurrentProcess(q, d)'
<1>1. Me(q)' = Me(q) /\ Me(q) # Me(p)
  BY OthersKeep DEF Acts, Me
<1>2. dir'[d] = dir[d] \/ dir'[d] = NoFile \/ dir'[d].by = Me(p)
  BY OnlyMine DEF Acts, Start
<1> QED
  BY <1>1, <1>2 DEF IsOwnedByCurrentProcess, HasRecord

LEMMA NoneWithoutWriting ==
  ASSUME TypeOK, NobodyRenames, NEW p \in Proc, Begin(p) \/ Step(p),
         pc[p] \notin {"open", "write"},
         NEW d \in Path, ~IsOwnedByCurrentProcess(p, d)
  PROVE  ~IsOwnedByCurrentProcess(p, d)'
<1>1. ~OpenExclusive(p) /\ ~WriteRecord(p)
  BY DEF OpenExclusive, WriteRecord
<1>2. ~Crash(p) \/ dir'[d] = NoFile \/ dir'[d].st # "full" \/ dir'[d] = dir[d]
  BY DEF Crash, Closed, HasOpen, TypeOK
<1>3. dir'[d] = dir[d] \/ dir'[d] = NoFile \/ dir'[d].st # "full"
  BY <1>1, <1>2, OnlyMine
<1>4. dir'[d] # NoFile => Me(p)' = Me(p)
  BY DirStep DEF Me
<1> QED
  BY <1>3, <1>4 DEF IsOwnedByCurrentProcess, HasRecord

-----------------------------------------------------------------------------
(* One walk.                                                               *)

\* The walk of q goes on as it was, or has lost sight of files that are gone.
Kept(q) == /\ walk'[q].op = walk[q].op /\ walk'[q].todo = walk[q].todo
           /\ walk'[q].files = walk[q].files /\ walk'[q].ok = walk[q].ok
           /\ walk'[q].was \subseteq walk[q].was
           /\ \A f \in walk'[q].was : f \in exists => f \in exists'

LEMMA StillGood ==
  ASSUME NEW q \in Proc, WalkFits(q), Sees(q), UNCHANGED vars, Kept(q)
  PROVE  WalkFits(q)' /\ Sees(q)'
  BY DEF WalkFits, AtPath, AtNoPath, Sees, Pending, Settled, Kept, Busy,
         IsOwnedByCurrentProcess, HasRecord, Me, vars

LEMMA OthersGood ==
  ASSUME CTypeOK, \A r \in Proc : WalkFits(r), NEW p \in Proc, Acts(p),
         NEW q \in Proc, q # p, Sees(q), Kept(q)
  PROVE  WalkFits(q)' /\ Sees(q)'
<1>1. /\ pc'[q] = pc[q] /\ call'[q] = call[q] /\ holds'[q] = holds[q]
      /\ TypeOK /\ NobodyRenames /\ walk[q] \in WalkRecord
  BY OthersKeep, NobodyRenamesHere DEF Acts, CTypeOK
<1>2. WalkFits(q)'
  BY <1>1 DEF WalkFits, AtPath, AtNoPath, Kept
<1>3. ASSUME NEW f \in walk'[q].was, walk[q].op \in Looking
      PROVE  f \in exists' /\ (Pending(q, f)' \/ Settled(q, f)')
  <2>1. f \in walk[q].was /\ f \in Path
    BY <1>1 DEF Kept, WalkRecord
  <2>2. f \in exists /\ f \in exists' /\ (Pending(q, f) \/ Settled(q, f))
    BY <1>3, <2>1 DEF Sees, Kept
  <2>3. CASE Pending(q, f)
    BY <1>1, <2>2, <2>3 DEF Pending, Kept, Busy
  <2>4. CASE Settled(q, f)
    <3>1. ~IsOwnedByCurrentProcess(q, f) => ~IsOwnedByCurrentProcess(q, f)'
      BY <1>1, <2>1, OthersGiveNone
    <3> QED
      BY <1>1, <2>2, <2>4, <3>1 DEF Settled, Kept
  <2> QED
    BY <2>2, <2>3, <2>4
<1>4. Sees(q)'
  BY <1>3 DEF Sees, Kept
<1> QED
  BY <1>2, <1>4

\* The walks of the others stand still.
Others(p) == \A q \in Proc \ {p} : walk'[q] = walk[q]

\* Enough to show for a step of p.
LEMMA MineGood ==
  ASSUME WalkInv, NEW p \in Proc, Acts(p) \/ UNCHANGED vars,
         CTypeOK', exists' = exists, Others(p), WalkFits(p)', Sees(p)'
  PROVE  WalkInv'
<1>1. ASSUME NEW q \in Proc, q # p PROVE WalkFits(q)' /\ Sees(q)'
  <2>1. Kept(q)
    BY <1>1 DEF Others, Kept
  <2> QED
    BY <1>1, <2>1, OthersGood, StillGood DEF WalkInv
<1> QED
  BY <1>1 DEF WalkInv

LEMMA WalksKeep ==
  ASSUME WalkInv, NEW p \in Proc,
         LockObj(p) \/ UnlockObj(p) \/ HasLockedFiles(p)
  PROVE  WalkInv'
<1>1. PICK op \in Looking, first \in SUBSET Box, B \in SUBSET Box,
           S \in SUBSET Path : Walks(p, op, first, B, S)
  BY CallWalks
<1>2. /\ walk' \in [Proc -> WalkRecord] /\ exists' = exists /\ UNCHANGED vars
      /\ walk \in [Proc -> WalkRecord] /\ exists \in SUBSET Path
  BY <1>1, WalksType DEF WalkInv, Walks, CTypeOK
<1>3. CTypeOK'
  BY <1>2 DEF WalkInv, CTypeOK, TypeOK, vars, HasRecord
<1>4. /\ walk'[p].op = op /\ walk'[p].todo = B /\ walk'[p].files = S
      /\ walk'[p].was = exists \cap (FilesIn(B) \cup S)
      /\ Others(p)
  BY <1>1, <1>2 DEF Walks, Others
<1>5. pc[p] = "idle" /\ WalkFits(p)
  BY <1>1 DEF WalkInv, Walks, MayWalk
<1>6. WalkFits(p)'
  BY <1>2, <1>5, PlaceOf DEF WalkFits, AtNoPath, vars, Busy
<1>7. Sees(p)'
  BY <1>2, <1>4 DEF Sees, Pending, FilesIn
<1> QED
  BY <1>2, <1>3, <1>4, <1>6, <1>7, MineGood

LEMMA ListKeeps == ASSUME WalkInv, NEW p \in Proc, ListFiles(p)
                   PROVE  WalkInv'
<1>1. PICK b \in walk[p].todo : walk' = [walk EXCEPT ![p] = Listed(walk[p], b)]
  BY DEF ListFiles
<1> DEFINE v == Listed(walk[p], b)
<1>2. /\ walk \in [Proc -> WalkRecord] /\ exists \in SUBSET Path
      /\ UNCHANGED <<vars, exists>>
  BY DEF WalkInv, CTypeOK, ListFiles
<1>3. /\ v \in WalkRecord
      /\ v.op = walk[p].op /\ v.ok = walk[p].ok /\ v.was = walk[p].was
      /\ v.todo = walk[p].todo \ {b} /\ v.files = FilesOf(b) \cap exists
  BY <1>2, ListedType
<1> HIDE DEF v
<1>4. walk' \in [Proc -> WalkRecord] /\ walk'[p] = v /\ Others(p)
  BY <1>1, <1>2, <1>3 DEF Others, v
<1>5. CTypeOK'
  BY <1>2, <1>4 DEF WalkInv, CTypeOK, TypeOK, vars, HasRecord
<1>6. /\ pc[p] = "idle" /\ walk[p].op \in Looking /\ walk[p].files = {}
      /\ WalkFits(p) /\ Sees(p)
  BY DEF WalkInv, ListFiles, Between, Looking
<1>7. WalkFits(p)'
  BY <1>2, <1>3, <1>4, <1>6 DEF WalkFits, AtPath, AtNoPath, vars
<1>8. Sees(p)'
  <2>1. ASSUME NEW f \in walk[p].was
        PROVE  f \in exists /\ (Pending(p, f)' \/ Settled(p, f)')
    <3>1. f \in Path /\ f \in exists /\ (Pending(p, f) \/ Settled(p, f))
      BY <1>2, <1>6, <2>1 DEF Sees, WalkRecord
    <3>2. CASE Pending(p, f)
      BY <1>2, <1>3, <1>4, <1>6, <3>1, <3>2 DEF Pending, Busy, FilesOf, vars
    <3>3. CASE Settled(p, f)
      BY <1>2, <1>3, <1>4, <3>1, <3>3
         DEF Settled, vars, IsOwnedByCurrentProcess, HasRecord, Me
    <3> QED
      BY <3>1, <3>2, <3>3
  <2> QED
    BY <1>2, <1>3, <1>4, <2>1 DEF Sees
<1> QED
  BY <1>2, <1>4, <1>5, <1>7, <1>8, MineGood

LEMMA ActsType ==
  ASSUME TypeOK, NEW p \in Proc, Acts(p)
  PROVE  TypeOK'
  BY NextType DEF Acts, Next

LEMMA LookKeeps == ASSUME WalkInv, NEW p \in Proc, LookAt(p)
                   PROVE  WalkInv'
<1>1. PICK f \in walk[p].files :
          /\ \E d \in Resolve(f) :
                \/ walk[p].op = "lock" /\ ExclusiveLock(p, d)
                \/ walk[p].op = "unlock" /\ ExclusiveUnLock(p, d)
                \/ walk[p].op = "status" /\ GetLockStatus(p, d)
          /\ walk' = [walk EXCEPT ![p].files = walk[p].files \ {f}]
  BY DEF LookAt
<1>2. PICK d \in Resolve(f) :
          \/ walk[p].op = "lock" /\ ExclusiveLock(p, d)
          \/ walk[p].op = "unlock" /\ ExclusiveUnLock(p, d)
          \/ walk[p].op = "status" /\ GetLockStatus(p, d)
  BY <1>1
<1> DEFINE v == [walk[p] EXCEPT !.files = walk[p].files \ {f}]
<1>3. /\ walk \in [Proc -> WalkRecord] /\ exists' = exists /\ f \in Path
      /\ TypeOK /\ Begin(p)
  BY LookAtBegins DEF WalkInv, CTypeOK, LookAt, WalkRecord
<1>4. /\ v \in WalkRecord
      /\ v.op = walk[p].op /\ v.todo = walk[p].todo /\ v.ok = walk[p].ok
      /\ v.was = walk[p].was /\ v.files = walk[p].files \ {f}
  BY <1>3, LookedType
<1>5. walk' = [walk EXCEPT ![p] = v]
  BY <1>1
<1> HIDE DEF v
<1>6. walk' \in [Proc -> WalkRecord] /\ walk'[p] = v /\ Others(p)
  BY <1>3, <1>4, <1>5 DEF Others
<1>7. CTypeOK'
  BY <1>3, <1>6, ActsType DEF WalkInv, CTypeOK, Acts
<1>8. /\ pc[p] = "idle" /\ walk[p].op \in Looking
      /\ WalkFits(p) /\ Sees(p) /\ NobodyRenames
  BY NobodyRenamesHere DEF WalkInv, LookAt, Between, Looking
<1>9. AtPath(p, walk[p].op)' /\ call'[p].path = d
  <2>1. CASE walk[p].op = "lock" /\ ExclusiveLock(p, d)
    BY <1>3, <1>6, <1>4, <2>1, EnterShape
       DEF ExclusiveLock, AtPath, Places, Stages
  <2>2. CASE walk[p].op = "unlock" /\ ExclusiveUnLock(p, d)
    BY <1>3, <1>6, <1>4, <2>2, EnterShape
       DEF ExclusiveUnLock, AtPath, Places, Stages
  <2>3. CASE walk[p].op = "status" /\ GetLockStatus(p, d)
    BY <1>3, <1>6, <1>4, <2>3, EnterShape
       DEF GetLockStatus, AtPath, Places, Stages
  <2> QED
    BY <1>2, <2>1, <2>2, <2>3
<1>10. Busy(p)' /\ WalkFits(p)'
  BY <1>4, <1>6, <1>9 DEF WalkFits, AtPath, Places, Busy
<1>11. Sees(p)'
  <2>1. ASSUME NEW g \in walk[p].was
        PROVE  g \in exists /\ (Pending(p, g)' \/ Settled(p, g)')
    <3>1. g \in Path /\ g \in exists /\ (Pending(p, g) \/ Settled(p, g))
      BY <1>3, <1>8, <2>1 DEF Sees, WalkRecord
    <3>2. CASE g = f
      <4>1. d = g
        BY <1>2, <1>3, <3>1, <3>2, ResolveType DEF WalkInv
      <4> QED
        BY <1>9, <1>10, <3>1, <4>1 DEF Pending
    <3>3. CASE g # f /\ Pending(p, g)
      BY <1>4, <1>6, <1>8, <3>1, <3>3 DEF Pending, Busy
    <3>4. CASE Settled(p, g)
      <4>1. ~IsOwnedByCurrentProcess(p, g) => ~IsOwnedByCurrentProcess(p, g)'
        BY <1>3, <1>8, <3>1, NoneWithoutWriting
      <4>2. walk[p].op = "lock" => holds' = holds
        BY <1>2 DEF ExclusiveLock
      <4> QED
        BY <1>4, <1>6, <3>1, <3>4, <4>1, <4>2 DEF Settled
    <3> QED
      BY <3>1, <3>2, <3>3, <3>4
  <2> QED
    BY <1>3, <1>4, <1>6, <2>1 DEF Sees
<1> QED
  BY <1>3, <1>6, <1>7, <1>10, <1>11, MineGood DEF Acts

\* Where a step of a call for one path leaves the walk.
Answers(p) ==
    pc'[p] = "idle" => \A d \in Path : d = call[p].path =>
        /\ walk[p].op = "lock" /\ walk'[p].ok => d \in holds'[p]
        /\ walk[p].op = "unlock" => ~IsOwnedByCurrentProcess(p, d)'
        /\ walk[p].op = "status" /\ walk'[p].ok => ~IsOwnedByCurrentProcess(p, d)'

GoesOn(p) == \/ Onward(p, walk[p].op)
             \/ pc'[p] = "idle" /\ AtNoPath(p)'

Goal(p) == \/ /\ walk'[p].todo = walk[p].todo
              /\ walk'[p].files = walk[p].files
           \/ walk[p].op = "status" /\ ~walk'[p].ok

LEMMA StepKeeps ==
  ASSUME WalkInv, NEW p \in Proc, Step(p), exists' = exists, Others(p),
         walk' \in [Proc -> WalkRecord],
         walk'[p].op = walk[p].op, walk'[p].was = walk[p].was,
         walk'[p].ok => walk[p].ok,
         AtPath(p, walk[p].op), GoesOn(p), Goal(p), Answers(p),
         walk[p].op = "lock" => holds[p] \subseteq holds'[p]
  PROVE  WalkInv'
<1>1. /\ TypeOK /\ NobodyRenames /\ Sees(p)
      /\ walk[p] \in WalkRecord /\ walk[p].op \in Looking
  BY NobodyRenamesHere, PlaceOf DEF WalkInv, CTypeOK
<1>2. CTypeOK'
  BY <1>1, ActsType DEF WalkInv, CTypeOK, Acts
<1>3. WalkFits(p)'
  BY <1>1 DEF GoesOn, Onward, WalkFits, AtPath, AtNoPath, Places
<1>4. CASE walk[p].op = "status" /\ ~walk'[p].ok
  BY <1>1, <1>4, <1>2, <1>3, MineGood DEF Sees, Settled, Acts
<1>5. CASE /\ walk'[p].todo = walk[p].todo
           /\ walk'[p].files = walk[p].files
  <2>1. ASSUME NEW f \in walk[p].was
        PROVE  f \in exists /\ (Pending(p, f)' \/ Settled(p, f)')
    <3>1. f \in Path /\ f \in exists /\ (Pending(p, f) \/ Settled(p, f))
      BY <1>1, <2>1 DEF Sees, WalkRecord
    <3>2. CASE f \in walk[p].files \/ BoxOf[f] \in walk[p].todo
      BY <1>5, <3>1, <3>2 DEF Pending
    <3>3. CASE f = call[p].path
      <4>1. CASE Onward(p, walk[p].op)
        <5>1. Busy(p)' /\ call'[p].path = f
          BY <3>3, <4>1 DEF Onward, AtPath, Places, Busy
        <5> QED
          BY <3>1, <5>1 DEF Pending
      <4>2. CASE pc'[p] = "idle"
        BY <3>1, <3>3, <4>2 DEF Answers, Settled
      <4> QED
        BY <4>1, <4>2 DEF GoesOn
    <3>4. CASE Settled(p, f)
      <4>1. CASE walk[p].op = "lock"
        BY <3>1, <3>4, <4>1 DEF Settled
      <4>2. CASE walk[p].op \in {"unlock", "status"}
        <5>1. pc[p] \notin {"open", "write"}
          BY <4>2 DEF AtPath, Places
        <5>2. ~IsOwnedByCurrentProcess(p, f) => ~IsOwnedByCurrentProcess(p, f)'
          BY <1>1, <3>1, <5>1, NoneWithoutWriting
        <5> QED
          BY <3>1, <3>4, <4>2, <5>2 DEF Settled
      <4> QED
        BY <1>1, <4>1, <4>2 DEF Looking
    <3> QED
      BY <3>1, <3>2, <3>3, <3>4 DEF Pending
  <2>2. Sees(p)'
    BY <2>1 DEF Sees
  <2> QED
    BY <1>2, <1>3, <2>2, MineGood DEF Acts
<1> QED
  BY <1>4, <1>5 DEF Goal

\* A step comes from a call that is under way, so the walk is at a path.
LEMMA StepPlace ==
  ASSUME WalkInv, NEW p \in Proc, Step(p)
  PROVE  /\ AtPath(p, walk[p].op) /\ TypeOK /\ walk[p] \in WalkRecord
         /\ walk \in [Proc -> WalkRecord]
  BY StepBusy, PlaceOf DEF WalkInv, WalkFits, CTypeOK

LEMMA LockKeeps == ASSUME WalkInv, NEW p \in Proc, LockStep(p)
                   PROVE  WalkInv'
<1>1. /\ walk[p].op = "lock" /\ Step(p) /\ exists' = exists
      /\ AtPath(p, "lock") /\ TypeOK /\ walk[p] \in WalkRecord
      /\ walk \in [Proc -> WalkRecord]
  BY StepPlace DEF LockStep
<1>2. GoesOn(p) /\ holds[p] \subseteq holds'[p]
  BY <1>1, LockPlace DEF GoesOn
<1>3. CASE ~PathEnds(p) /\ UNCHANGED walk
  <2>1. pc'[p] # "idle"
    BY <1>1, <1>3, StepBusy DEF PathEnds
  <2> QED
    BY <1>1, <1>2, <1>3, <2>1, StepKeeps DEF Goal, Answers, Others
<1>4. ASSUME NEW ok \in BOOLEAN, PathEnds(p),
             IF ok THEN Granted(p) ELSE Denied(p),
             walk' = [walk EXCEPT ![p].ok = LoopOk(p, ok)]
      PROVE  WalkInv'
  <2> DEFINE all == LoopOk(p, ok)
             v == [walk[p] EXCEPT !.ok = all]
  <2>1. all \in BOOLEAN /\ (all => ok /\ walk[p].ok)
    BY <1>1 DEF LoopOk, WalkRecord
  <2>2. walk' = [walk EXCEPT ![p] = v]
    BY <1>4
  <2>3. /\ v \in WalkRecord
        /\ v.op = walk[p].op /\ v.todo = walk[p].todo /\ v.files = walk[p].files
        /\ v.was = walk[p].was /\ v.ok = all
    <3> HIDE DEF all
    <3> QED BY <1>1, <2>1, AnswerType
  <2> HIDE DEF v
  <2>4. walk' \in [Proc -> WalkRecord] /\ walk'[p] = v /\ Others(p)
    BY <1>1, <2>2, <2>3 DEF Others
  <2>5. Answers(p)
    BY <1>1, <1>4, <2>1, <2>3, <2>4, GrantedHolds DEF Answers
  <2>6. Goal(p)
    BY <2>3, <2>4 DEF Goal
  <2> QED
    BY <1>1, <1>2, <2>1, <2>3, <2>4, <2>5, <2>6, StepKeeps
<1> QED
  BY <1>3, <1>4 DEF LockStep

LEMMA UnlockKeeps == ASSUME WalkInv, NEW p \in Proc, UnlockStep(p)
                     PROVE  WalkInv'
<1>1. /\ walk[p].op = "unlock" /\ Step(p) /\ UNCHANGED <<exists, walk>>
      /\ AtPath(p, "unlock") /\ TypeOK /\ walk \in [Proc -> WalkRecord]
  BY StepPlace DEF UnlockStep
<1>2. GoesOn(p)
  BY <1>1, UnlockPlace DEF GoesOn
<1>3. Answers(p)
  BY <1>1, UnlockedIsFree DEF Answers
<1> QED
  BY <1>1, <1>2, <1>3, StepKeeps DEF Goal, Others

LEMMA StatusKeeps == ASSUME WalkInv, NEW p \in Proc, StatusStep(p)
                     PROVE  WalkInv'
<1>1. /\ walk[p].op = "status" /\ Step(p) /\ exists' = exists
      /\ AtPath(p, "status") /\ TypeOK /\ walk[p] \in WalkRecord
      /\ walk \in [Proc -> WalkRecord]
  BY StepPlace DEF StatusStep
<1>2. GoesOn(p)
  BY <1>1, StatusPlace DEF GoesOn
<1>3. CASE PathEnds(p) /\ ~NotLocked(p)
  <2> DEFINE v == Ended(walk[p], FALSE)
  <2>1. v \in WalkRecord /\ v.op = walk[p].op /\ v.ok = FALSE /\ v.was = walk[p].was
    BY <1>1, EndedType
  <2>2. walk' = [walk EXCEPT ![p] = v]
    BY <1>3 DEF StatusStep
  <2> HIDE DEF v
  <2>3. walk' \in [Proc -> WalkRecord] /\ walk'[p] = v /\ Others(p)
    BY <1>1, <2>1, <2>2 DEF Others
  <2>4. Goal(p) /\ Answers(p)
    BY <1>1, <2>1, <2>3 DEF Goal, Answers
  <2> QED
    BY <1>1, <1>2, <2>1, <2>3, <2>4, StepKeeps
<1>4. CASE ~(PathEnds(p) /\ ~NotLocked(p))
  <2>1. UNCHANGED walk
    BY <1>4 DEF StatusStep
  <2>2. pc'[p] = "idle" => dir'[call[p].path] = NoFile
    BY <1>1, <1>4, NotLockedIsFree, StepBusy DEF PathEnds
  <2>3. Answers(p)
    BY <1>1, <2>2 DEF Answers, IsOwnedByCurrentProcess, HasRecord
  <2> QED
    BY <1>1, <1>2, <2>1, <2>3, StepKeeps DEF Goal, Others
<1> QED
  BY <1>3, <1>4

-----------------------------------------------------------------------------
(* Processes and files that come and go.                                   *)

\* The walk of p is over.
LEMMA NoWalkKeeps ==
  ASSUME WalkInv, NEW p \in Proc, Acts(p) \/ UNCHANGED vars, exists' = exists,
         walk' = [walk EXCEPT ![p] = NoWalk], AtNoPath(p)'
  PROVE  WalkInv'
<1>1. /\ walk' \in [Proc -> WalkRecord] /\ walk'[p] = NoWalk /\ Others(p)
      /\ NoWalk.op = "none"
  BY NoWalkType DEF WalkInv, CTypeOK, Others, NoWalk
<1>2. TypeOK'
  <2>1. CASE Acts(p)
    BY <2>1, ActsType DEF WalkInv, CTypeOK
  <2>2. CASE UNCHANGED vars
    BY <2>2, NextType DEF WalkInv, CTypeOK
  <2> QED
    BY <2>1, <2>2
<1>3. CTypeOK'
  BY <1>1, <1>2 DEF WalkInv, CTypeOK
<1>4. WalkFits(p)' /\ Sees(p)'
  BY <1>1 DEF WalkFits, Sees, Looking
<1> QED
  BY <1>1, <1>3, <1>4, MineGood

LEMMA EndsKeep ==
  ASSUME WalkInv, NEW p \in Proc, CCrash(p) \/ DestroyLock(p) \/ WalkReturns(p)
  PROVE  WalkInv'
<1>1. WalkFits(p) /\ TypeOK /\ CTypeOK
  BY DEF WalkInv, CTypeOK
<1>2. CASE CCrash(p)
  <2>1. AtNoPath(p)'
    BY <1>1, <1>2 DEF CCrash, Crash, TypeOK, AtNoPath, NoCall
  <2> QED
    BY <1>2, <2>1, NoWalkKeeps DEF CCrash, Acts
<1>3. CASE DestroyLock(p)
  <2>1. PICK f \in Path : FileDestroy(p, f) /\ Begin(p)
    BY <1>1, <1>3, DestroyBegins
  <2>2. AtNoPath(p)'
    BY <1>1, <1>3, <2>1, PlaceOf
       DEF DestroyLock, FileDestroy, WalkFits, AtNoPath, AtPath, Places
  <2> QED
    BY <1>3, <2>1, <2>2, NoWalkKeeps DEF DestroyLock, Acts
<1>4. CASE WalkReturns(p)
  <2>1. AtNoPath(p)'
    BY <1>1, <1>4, PlaceOf
       DEF WalkReturns, Returns, Between, WalkFits, AtNoPath, Busy, vars
  <2> QED
    BY <1>4, <2>1, NoWalkKeeps DEF WalkReturns
<1> QED
  BY <1>2, <1>3, <1>4

LEMMA StartKeeps == ASSUME WalkInv, NEW p \in Proc, CStart(p)
                    PROVE  WalkInv'
<1>1. /\ Acts(p) /\ UNCHANGED <<exists, walk>> /\ TypeOK /\ WalkFits(p)
      /\ pc[p] = "down" /\ pc'[p] = "idle" /\ call' = call
  BY DEF WalkInv, CTypeOK, CStart, Acts, Start, TypeOK
<1>2. CTypeOK' /\ Others(p)
  BY <1>1, ActsType DEF WalkInv, CTypeOK, Others
<1>3. WalkFits(p)' /\ Sees(p)'
  BY <1>1, PlaceOf DEF WalkFits, Sees, AtNoPath, Looking, Busy
<1> QED
  BY <1>1, <1>2, <1>3, MineGood

LEMMA FilesKeep ==
  ASSUME WalkInv, NEW f \in Path, Appear(f) \/ Vanish(f)
  PROVE  WalkInv'
<1>1. /\ UNCHANGED vars /\ exists \in SUBSET Path /\ TypeOK
      /\ walk \in [Proc -> WalkRecord]
  BY DEF WalkInv, CTypeOK, Appear, Vanish
<1>2. TypeOK'
  BY <1>1, NextType
<1>3. /\ walk' \in [Proc -> WalkRecord] /\ exists' \in SUBSET Path
      /\ \A q \in Proc : Kept(q)
  <2>1. CASE Appear(f)
    BY <1>1, <2>1 DEF Appear, Kept
  <2>2. CASE Vanish(f)
    <3>1. Goes(f, walk)
      BY <2>2 DEF Vanish
    <3>2. /\ walk' \in [Proc -> WalkRecord] /\ exists' \in SUBSET Path
          /\ \A q \in Proc :
                /\ walk'[q].op = walk[q].op /\ walk'[q].todo = walk[q].todo
                /\ walk'[q].files = walk[q].files /\ walk'[q].ok = walk[q].ok
                /\ walk'[q].was = walk[q].was \ {f}
      BY <1>1, <3>1, GoesType
    <3>3. exists' = exists \ {f}
      BY <3>1 DEF Goes
    <3> QED
      BY <3>2, <3>3 DEF Kept
  <2> QED
    BY <2>1, <2>2
<1>4. \A q \in Proc : WalkFits(q)' /\ Sees(q)'
  BY <1>1, <1>3, StillGood DEF WalkInv
<1> QED
  BY <1>2, <1>3, <1>4 DEF WalkInv, CTypeOK

LEMMA DestroyKeeps == ASSUME WalkInv, NEW p \in Proc, DestroyData(p)
                      PROVE  WalkInv'
<1>1. PICK f \in Volatile \cap exists :
          Goes(f, [walk EXCEPT ![p] = DestroyWalk(f)])
  BY DEF DestroyData, DestroyWalk
<1> DEFINE W == [walk EXCEPT ![p] = DestroyWalk(f)]
<1>2. /\ UNCHANGED vars /\ exists \in SUBSET Path /\ TypeOK /\ f \in Path
      /\ walk \in [Proc -> WalkRecord] /\ pc[p] = "idle" /\ WalkFits(p)
  BY ContainerAssumption DEF WalkInv, CTypeOK, DestroyData, MayWalk
<1>3. /\ W \in [Proc -> WalkRecord] /\ W[p] = DestroyWalk(f)
      /\ \A q \in Proc \ {p} : W[q] = walk[q]
  BY <1>2, DestroyWalkType
<1> HIDE DEF W
<1>4. /\ walk' \in [Proc -> WalkRecord] /\ exists' \in SUBSET Path
      /\ \A q \in Proc :
            /\ walk'[q].op = W[q].op /\ walk'[q].todo = W[q].todo
            /\ walk'[q].files = W[q].files /\ walk'[q].ok = W[q].ok
            /\ walk'[q].was = W[q].was \ {f}
  BY <1>1, <1>2, <1>3, GoesType DEF W
<1>5. \A q \in Proc \ {p} : Kept(q)
  BY <1>1, <1>3, <1>4 DEF Kept, Goes
<1>6. \A q \in Proc \ {p} : WalkFits(q)' /\ Sees(q)'
  BY <1>2, <1>5, StillGood DEF WalkInv
<1>7. walk'[p].op = "destroy"
  BY <1>2, <1>3, <1>4, DestroyWalkType
<1>8. WalkFits(p)' /\ Sees(p)'
  BY <1>2, <1>7, PlaceOf DEF WalkFits, AtNoPath, Sees, Looking, Busy, vars
<1>9. TypeOK'
  BY <1>2, NextType
<1> QED
  BY <1>4, <1>6, <1>8, <1>9 DEF WalkInv, CTypeOK

-----------------------------------------------------------------------------
(* The theorems.                                                           *)

LEMMA WalkInductive == CSpec => []WalkInv
<1>1. CInit => WalkInv
  <2> SUFFICES ASSUME CInit PROVE WalkInv
    OBVIOUS
  <2>1. CTypeOK
    BY InitType, NoWalkType, ContainerAssumption DEF CInit, CTypeOK
  <2>2. \A p \in Proc : WalkFits(p) /\ Sees(p)
    BY DEF CInit, Init, WalkFits, AtNoPath, Sees, Looking, NoWalk, NoCall
  <2> QED
    BY <2>1, <2>2 DEF WalkInv
<1>2. WalkInv /\ [CNext]_cvars => WalkInv'
  <2> SUFFICES ASSUME WalkInv, [CNext]_cvars PROVE WalkInv'
    OBVIOUS
  <2>1. CASE UNCHANGED cvars
    <3>1. UNCHANGED vars /\ UNCHANGED <<exists, walk>>
      BY <2>1 DEF cvars
    <3>2. CTypeOK'
      BY <3>1, NextType DEF WalkInv, CTypeOK
    <3>3. \A q \in Proc : WalkFits(q)' /\ Sees(q)'
      BY <3>1, StillGood DEF WalkInv, Kept
    <3> QED
      BY <3>2, <3>3 DEF WalkInv
  <2>2. ASSUME NEW f \in Path, Appear(f) \/ Vanish(f) PROVE WalkInv'
    BY <2>2, FilesKeep
  <2>3. ASSUME NEW p \in Proc,
               \/ CStart(p) \/ CCrash(p)
               \/ LockObj(p) \/ UnlockObj(p) \/ HasLockedFiles(p)
               \/ DestroyData(p) \/ DestroyLock(p)
               \/ ListFiles(p) \/ LookAt(p)
               \/ LockStep(p) \/ UnlockStep(p) \/ StatusStep(p)
               \/ WalkReturns(p)
        PROVE  WalkInv'
    BY <2>3, StartKeeps, EndsKeep, WalksKeep, DestroyKeeps, ListKeeps,
       LookKeeps, LockKeeps, UnlockKeeps, StatusKeeps
  <2> QED
    BY <2>1, <2>2, <2>3 DEF CNext
<1> QED
  BY <1>1, <1>2, PTL DEF CSpec

\* Every variable keeps its type, those of EditLock included.
THEOREM WalksTypeCorrect == CSpec => []CTypeOK
<1>1. WalkInv => CTypeOK
  BY DEF WalkInv
<1> QED
  BY <1>1, WalkInductive, PTL

\* What happens at the paths while containers are walked is what EditLock says.
THEOREM WalksAreCalls == CSpec => Spec
<1>1. CInit => Init
  BY DEF CInit
<1>2. WalkInv /\ [CNext]_cvars => [Next]_vars
  BY WalkNext DEF WalkInv
<1> QED
  BY <1>1, <1>2, WalkInductive, PTL DEF CSpec, Spec

\* When a call returns, it has nothing to come to any more.
LEMMA NothingPending ==
  ASSUME WalkInv, NEW p \in Proc, NEW op \in Looking, Returns(p, op),
         NEW f \in walk[p].was
  PROVE  Settled(p, f)
<1>1. ~Busy(p) /\ Sees(p) /\ walk[p].op = op
  BY DEF WalkInv, Returns, Between, Busy
<1> QED
  BY <1>1 DEF Returns, Sees, Pending

\* After unlockObj the caller has no lock in the object, also when an earlier
\* lockObj failed half way, however the calls of all processes overlap at the
\* paths and whichever system call fails (unlockObj, hasLockedFiles).
THEOREM UnlockIsForAll == CSpec => NothingLeft
<1>1. ASSUME WalkInv, NEW p \in Proc,
             Returns(p, "unlock") \/ (Returns(p, "status") /\ walk[p].ok),
             NEW f \in walk[p].was
      PROVE  ~IsOwnedByCurrentProcess(p, f)
  BY <1>1, NothingPending DEF Settled, Returns, Looking
<1>2. WalkInv /\ [CNext]_cvars =>
          [\A p \in Proc :
              /\ walk'[p].op = "none" /\ pc'[p] # "down"
              /\ \/ Returns(p, "unlock")
                 \/ Returns(p, "status") /\ walk[p].ok
              => \A f \in walk[p].was : ~IsOwnedByCurrentProcess(p, f)]_cvars
  BY <1>1
<1> QED
  BY <1>2, WalkInductive, PTL DEF NothingLeft, CSpec

\* When calls for single paths do not overlap, a lockObj that answers true has
\* its record at every file of the object, for any number of processes and
\* containers and every interleaving of the walks (lockObj).
THEOREM AnswerIsForAll == ASSUME SerialUse
                          PROVE  CSpec => TrueMeansAll
<1>1. ASSUME WalkInv, SerialInv, NEW p \in Proc, Returns(p, "lock"),
             walk[p].ok, NEW f \in walk[p].was
      PROVE  IsOwnedByCurrentProcess(p, f)
  <2>1. f \in holds[p]
    BY <1>1, NothingPending DEF Settled, Returns, Looking
  <2> QED
    BY <1>1, <2>1 DEF SerialInv, HolderOnDisk
<1>2. WalkInv /\ SerialInv /\ [CNext]_cvars =>
          [\A p \in Proc :
              /\ Returns(p, "lock") /\ walk'[p].op = "none" /\ pc'[p] # "down"
              /\ walk[p].ok
              => \A f \in walk[p].was : IsOwnedByCurrentProcess(p, f)]_cvars
  BY <1>1
<1>3. Spec => [](TypeOK /\ SerialInv)
  BY SerialInvariant
<1> QED
  BY <1>2, <1>3, WalkInductive, WalksAreCalls, PTL DEF TrueMeansAll, CSpec
=============================================================================
