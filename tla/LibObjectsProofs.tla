-------------------------- MODULE LibObjectsProofs --------------------------
(***************************************************************************)
(* Theorems about LibObjects, for any number of processes, cells, views    *)
(* and files: the variables keep their types, a missing directory has      *)
(* nothing in it, no lock file is left behind under a path that its owner  *)
(* no longer goes by, and a cache is of a file that is there and does no   *)
(* harm to it.                                                             *)
(***************************************************************************)
EXTENDS LibObjects, TLAPS

\* The steps of calls about one cell view.
OneView == {"truncate", "write", "create", "rest", "link", "copy", "fill", "pour"}

\* Such a call names the cell view, and a copy has a file to read from and one
\* to write to.
CallOK == \A s \in Session :
             /\ call[s].at \in OneView => \E v \in CellView : call[s].of = {v}
             /\ call[s].at \in {"fill", "pour"} => call[s].from \in 1 .. MaxInode
             /\ call[s].at = "pour" => call[s].to \in 1 .. MaxInode

TypeInv == TypeOK /\ CallOK

\* The path that fileDestroy unlinks is the one the plug-in keeps, if any.
RestOf(s) == call[s].at = "rest" =>
                paths[s][TheFile(s)] \in {NoName, call[s].path}

\* NoOrphanLock for one process, with the path that is kept for the file.
KeptOf(s) == session[s].is # "dead" =>
                \A v \in CellView, p \in Name : lockOf[v][p] = s =>
                   \E n \in Name : <<v, n>> \in held[s] /\ paths[s][<<v, n>>] = p

\* The call that removes what is in a directory has its caller's lock files left.
LockEntry(v, n) == [of |-> v, is |-> "lock", name |-> n]

LeftOf(s) == \A v \in CellView, n \in Name :
                Emptying(s, v) /\ lockOf[v][n] = s => LockEntry(v, n) \in call[s].left

LockInv == \A s \in Session : KeptOf(s) /\ RestOf(s) /\ LeftOf(s)

-----------------------------------------------------------------------------
(* Calls and names.                                                        *)

LEMMA IdleType == Idle \in CallRecord /\ Idle.at = "idle"
<1>1. AnyName \in Name /\ (CHOOSE t \in Type : TRUE) \in Type
  BY NameAssumption DEF AnyName
<1>2. 0 \in 0 .. MaxInode
  BY NameAssumption
<1> QED BY <1>1, <1>2 DEF Idle, CallRecord, Steps

LEMMA IdleFields == Idle.name \in Name /\ Idle.path \in Name /\ Idle.type \in Type
BY IdleType DEF CallRecord

\* What a directory entry is of, and which of them the cache is.
LEMMA EntryFields ==
    ASSUME NEW x \in Entry
    PROVE  x.of \in CellView /\ x.name \in Name
<1>1. AnyName \in Name
  BY NameAssumption DEF AnyName
<1> QED BY <1>1 DEF Entry

LEMMA CacheEntry ==
    /\ \A v \in CellView : CacheOf(v) \in Entry
    /\ \A x \in Entry, v \in CellView :
          x = CacheOf(v) <=> x.of = v /\ x.is = "cache"
BY DEF Entry, CacheOf

LEMMA TheViewType ==
    ASSUME TypeInv, NEW s \in Session, call[s].at \in OneView
    PROVE  TheView(s) \in CellView /\ call[s].of = {TheView(s)}
BY DEF TypeInv, CallOK, TheView

\* Only the call of s changes.
Moves(s) == /\ call' \in [Session -> CallRecord]
            /\ \A r \in Session \ {s} : call'[r] = call[r]

LEMMA EnterMoves ==
    ASSUME TypeInv, NEW s \in Session, NEW at \in Steps, NEW V \in SUBSET CellView,
           NEW n \in Name, NEW p \in Name, NEW t \in Type, Enter(s, at, V, n, p, t)
    PROVE  /\ Moves(s)
           /\ call'[s].at = at /\ call'[s].of = V
           /\ call'[s].name = n /\ call'[s].path = p
<1>1. [at |-> at, of |-> V, name |-> n, path |-> p, type |-> t, from |-> 0,
       to |-> 0, left |-> {}] \in CallRecord
  BY NameAssumption DEF CallRecord
<1>2. call \in [Session -> CallRecord]
  BY DEF TypeInv, TypeOK
<1> QED BY <1>1, <1>2 DEF Enter, Moves

\* A call that starts about one cell view.
LEMMA EnterCallOK ==
    ASSUME TypeInv, NEW s \in Session, Moves(s),
           call'[s].at \notin {"fill", "pour"},
           call'[s].at \in OneView => \E v \in CellView : call'[s].of = {v}
    PROVE  CallOK'
BY DEF TypeInv, CallOK, Moves

LEMMA ReturnMoves ==
    ASSUME TypeInv, NEW s \in Session, Return(s)
    PROVE  Moves(s) /\ call'[s].at = "idle" /\ CallOK'
<1>1. Moves(s) /\ call'[s].at = "idle"
  BY IdleType DEF TypeInv, TypeOK, Return, Moves
<1> QED BY <1>1, EnterCallOK DEF OneView

\* From one step of a call about a cell view to another.
LEMMA GoToMoves ==
    ASSUME TypeInv, NEW s \in Session, NEW at \in OneView, NEW i \in 0 .. MaxInode,
           NEW j \in 0 .. MaxInode, at \in {"fill", "pour"} => i # 0,
           at = "pour" => j # 0, call[s].at \in OneView, GoTo(s, at, i, j)
    PROVE  Moves(s) /\ call'[s].at = at /\ CallOK'
<1>1. call[s] \in CallRecord /\ call \in [Session -> CallRecord]
  BY DEF TypeInv, TypeOK
<1>2. [at |-> at, of |-> call[s].of, name |-> call[s].name, path |-> call[s].path,
       type |-> call[s].type, from |-> i, to |-> j, left |-> call[s].left]
          \in CallRecord
  BY <1>1 DEF CallRecord, OneView, Steps
<1>3. /\ Moves(s)
      /\ call'[s].at = at /\ call'[s].of = call[s].of
      /\ call'[s].from = i /\ call'[s].to = j
  BY <1>1, <1>2 DEF GoTo, Moves
<1>4. \E v \in CellView : call[s].of = {v}
  BY DEF TypeInv, CallOK
<1>5. (i \in 1 .. MaxInode \/ i = 0) /\ (j \in 1 .. MaxInode \/ j = 0)
  BY NameAssumption
<1> QED BY <1>3, <1>4, <1>5 DEF TypeInv, CallOK, Moves

LEMMA ResolveType ==
    ASSUME TypeOK, NEW v \in CellView, NEW n \in Name
    PROVE  Resolve(v, n) \subseteq Name
<1>1. tag[v] # NoType => PrimaryOf[tag[v]] \in Name \cup {NoName}
  BY NameAssumption DEF TypeOK
<1> QED BY <1>1, NameAssumption DEF Resolve

LEMMA FileType == \A f \in File : f[1] \in CellView /\ f[2] \in Name /\ f = <<f[1], f[2]>>
BY DEF File

LEMMA BuildFilePathType ==
    ASSUME TypeOK, NEW s \in Session, NEW f \in File
    PROVE  BuildFilePath(s, f) \subseteq Name
<1>1. paths[s][f] \in Name \cup {NoName}
  BY DEF TypeOK
<1>2. Resolve(f[1], f[2]) \subseteq Name
  BY FileType, ResolveType
<1> QED BY <1>1, <1>2 DEF BuildFilePath

-----------------------------------------------------------------------------
(* Every step keeps the types.  DiskType is the part of TypeOK about the   *)
(* directory and the lock files, MemoryType the part about the processes.  *)

DiskType == /\ cells \subseteq Cell
            /\ dirs \subseteq CellView
            /\ tag \in [CellView -> Type \cup {NoType}]
            /\ writing \in [CellView -> SUBSET Session]
            /\ file \in [CellView -> [Name -> 0 .. MaxInode]]
            /\ oacache \in [CellView -> 0 .. MaxInode]
            /\ content \in [1 .. MaxInode -> 0 .. MaxInode]
            /\ next \in 0 .. MaxInode
            /\ lockOf \in [CellView -> [Name -> Session \cup {Nobody}]]
            /\ \A v \in dirs : v[1] \in cells
            /\ \A v \in CellView \ dirs : Gone(v)

MemoryType == /\ session \in [Session -> SessionRecord]
              /\ paths \in [Session -> [File -> Name \cup {NoName}]]
              /\ held \in [Session -> SUBSET File]

LEMMA Parts ==
    TypeInv <=> /\ DiskType /\ MemoryType /\ CallOK
                /\ call \in [Session -> CallRecord] /\ raced \subseteq CellView
BY DEF TypeInv, TypeOK, DiskType, MemoryType

LEMMA Together ==
    ASSUME DiskType', MemoryType', CallOK', call' \in [Session -> CallRecord],
           raced' \subseteq CellView
    PROVE  TypeInv'
BY DEF TypeInv, TypeOK, DiskType, MemoryType

LEMMA SameDisk ==
    ASSUME DiskType, UNCHANGED <<disk, lockOf>>
    PROVE  DiskType'
BY DEF DiskType, disk, Gone

LEMMA SameMemory ==
    ASSUME MemoryType, UNCHANGED memory
    PROVE  MemoryType'
BY DEF MemoryType, memory

LEMMA SameCall ==
    ASSUME TypeInv, UNCHANGED call
    PROVE  CallOK' /\ call' \in [Session -> CallRecord]
BY DEF TypeInv, TypeOK, CallOK

LEMMA MovesType ==
    ASSUME NEW s \in Session, Moves(s)
    PROVE  call' \in [Session -> CallRecord]
BY DEF Moves

LEMMA OverlapsType ==
    ASSUME raced \subseteq CellView, NEW V \in SUBSET CellView, Overlaps(V)
    PROVE  raced' \subseteq CellView
BY DEF Overlaps

\* In a call about one cell view.
LEMMA InView ==
    ASSUME TypeInv, NEW s \in Session, NEW at \in OneView, In(s, at)
    PROVE  /\ call[s].at \in OneView
           /\ TheView(s) \in CellView /\ call[s] \in CallRecord
           /\ TheFile(s) \in File /\ TheFile(s) = <<TheView(s), call[s].name>>
<1>1. call[s] \in CallRecord
  BY DEF TypeInv, TypeOK
<1>2. TheView(s) \in CellView
  BY TheViewType DEF In
<1> QED BY <1>1, <1>2 DEF In, TheFile, File, CallRecord

LEMMA BecomeType ==
    ASSUME MemoryType, NEW s \in Session, NEW is \in {"open", "closed", "dead"},
           Become(s, is)
    PROVE  /\ session' \in [Session -> SessionRecord]
           /\ session'[s].is = is
           /\ \A r \in Session \ {s} : session'[r] = session[r]
<1>1. [is |-> is, uses |-> session[s].uses] \in SessionRecord
  BY DEF MemoryType, SessionRecord
<1> QED BY <1>1 DEF Become, MemoryType

LEMMA SessionTypes ==
    ASSUME TypeInv, NEW s \in Session, Open(s) \/ LibPreClose(s) \/ Crash(s)
    PROVE  TypeInv'
<1>1. DiskType' /\ raced' \subseteq CellView
  BY Parts, SameDisk DEF Open, LibPreClose, Crash
<1>2. MemoryType'
  <2>1. MemoryType BY Parts
  <2>2. NoPaths \in [File -> Name \cup {NoName}]
    BY DEF NoPaths
  <2>4. session' \in [Session -> SessionRecord]
    BY <2>1, BecomeType DEF Open, LibPreClose, Crash
  <2>5. paths' \in [Session -> [File -> Name \cup {NoName}]]
    BY <2>1, <2>2 DEF Open, LibPreClose, Crash, MemoryType
  <2>7. held' \in [Session -> SUBSET File]
    BY <2>1 DEF Open, LibPreClose, Crash, MemoryType
  <2> QED BY <2>4, <2>5, <2>7 DEF MemoryType
<1>3. CallOK' /\ call' \in [Session -> CallRecord]
  <2>1. CASE UNCHANGED call
    BY <2>1, SameCall
  <2>2. CASE Return(s)
    BY <2>2, ReturnMoves, MovesType
  <2>3. UNCHANGED call \/ Return(s)
    BY DEF Open, LibPreClose, Crash
  <2> QED BY <2>1, <2>2, <2>3
<1> QED BY <1>1, <1>2, <1>3, Together

LEMMA CreateTypes ==
    ASSUME TypeInv, NEW s \in Session, Creates(s)
    PROVE  TypeInv'
<1>1. ASSUME NEW c \in Cell, CellCreate(s, c)
      PROVE  TypeInv'
  <2>1. DiskType'
    BY <1>1, Parts DEF CellCreate, DiskType, Gone
  <2> QED BY <1>1, <2>1, SameMemory, SameCall, Together, Parts DEF CellCreate
<1>2. ASSUME NEW v \in CellView, NEW t \in Type, CellViewCreate(s, v, t)
      PROVE  TypeInv'
  <2>1. DiskType'
    BY <1>2, Parts DEF CellViewCreate, DiskType, Gone
  <2>2. MemoryType'
    BY <1>2, SameMemory, Parts DEF CellViewCreate
  <2>3. Moves(s) /\ call'[s].at = "truncate" /\ call'[s].of = {v}
    BY <1>2, EnterMoves, IdleFields DEF CellViewCreate, EnterView, Steps
  <2> QED BY <1>2, <2>1, <2>2, <2>3, MovesType, EnterCallOK, Together, Parts DEF CellViewCreate
<1>3. ASSUME NEW f \in File, FileCreate(s, f)
      PROVE  TypeInv'
  <2>1. PICK p \in Resolve(f[1], f[2]) : EnterFile(s, "create", f, p)
    BY <1>3 DEF FileCreate
  <2>2. p \in Name /\ f[1] \in CellView /\ f[2] \in Name
    BY <2>1, FileType, ResolveType DEF TypeInv
  <2>3. Moves(s) /\ call'[s].at = "create" /\ call'[s].of = {f[1]}
    BY <2>1, <2>2, EnterMoves, IdleFields DEF EnterFile, Steps
  <2>4. CallOK' BY <2>2, <2>3, EnterCallOK
  <2>5. raced' \subseteq CellView
    BY <1>3, <2>2, OverlapsType, Parts DEF FileCreate
  <2> QED BY <1>3, <2>3, <2>4, <2>5, SameDisk, SameMemory, MovesType, Together, Parts DEF FileCreate
<1> QED BY <1>1, <1>2, <1>3 DEF Creates

LEMMA FindTypes ==
    ASSUME TypeInv, NEW s \in Session, Finds(s)
    PROVE  TypeInv'
<1>2. ASSUME NEW f \in File, GetPath(s, f)
      PROVE  TypeInv'
  <2>1. MemoryType'
    BY <1>2, BuildFilePathType, Parts DEF GetPath, CacheFilePath, MemoryType, TypeInv
  <2> QED BY <1>2, <2>1, SameDisk, SameCall, Together, Parts DEF GetPath
<1>3. ASSUME NEW f \in File, GetLockStatus(s, f)
      PROVE  TypeInv'
  <2>1. PICK p \in Resolve(f[1], f[2]) :
            lockOf' = [lockOf EXCEPT ![f[1]][p] = Nobody]
    BY <1>3 DEF GetLockStatus
  <2>2. p \in Name /\ f[1] \in CellView
    BY <2>1, FileType, ResolveType DEF TypeInv
  <2>3. DiskType /\ UNCHANGED disk
    BY <1>3, Parts DEF GetLockStatus
  <2>4. lockOf' \in [CellView -> [Name -> Session \cup {Nobody}]]
    BY <2>1, <2>2, <2>3 DEF DiskType
  <2>5. \A v \in CellView : lockOf[v] = Unlocked => lockOf'[v] = Unlocked
    BY <2>1, <2>2, <2>3 DEF DiskType, Unlocked
  <2>6. DiskType'
    BY <2>3, <2>4, <2>5 DEF DiskType, disk, Gone
  <2> QED BY <1>3, <2>6, SameMemory, SameCall, Together, Parts DEF GetLockStatus
<1> QED BY <1>2, <1>3 DEF Finds

\* The call knows the entries that are to go; nothing on the disk changes yet.
LEMMA RemoveMoves ==
    ASSUME TypeInv, NEW s \in Session, NEW at \in {"rmview", "rmcell"},
           NEW V \in SUBSET CellView, Remove(s, at, V)
    PROVE  /\ Moves(s) /\ call'[s].at = at /\ call'[s].of = V
           /\ call'[s].left = {x \in Entry : x.of \in V /\ There(x)}
<1> DEFINE left == {x \in Entry : x.of \in V /\ There(x)}
<1>1. Idle \in CallRecord /\ call \in [Session -> CallRecord]
  BY IdleType DEF TypeInv, TypeOK
<1>2. call' = [call EXCEPT ![s] = [Idle EXCEPT !.at = at, !.of = V, !.left = left]]
  BY DEF Remove
<1>3. left \in SUBSET Entry
  OBVIOUS
<1> HIDE DEF left
<1>4. [Idle EXCEPT !.at = at, !.of = V, !.left = left] \in CallRecord
  BY <1>1, <1>3 DEF CallRecord, Steps
<1>5. /\ Moves(s) /\ call'[s].at = at /\ call'[s].of = V /\ call'[s].left = left
  BY <1>1, <1>2, <1>3, <1>4 DEF Moves, CallRecord
<1> QED BY <1>5 DEF left

LEMMA DestroyTypes ==
    ASSUME TypeInv, NEW s \in Session, Destroys(s)
    PROVE  TypeInv'
<1>1. ASSUME NEW V \in SUBSET CellView, NEW at \in {"rmview", "rmcell"},
             Remove(s, at, V)
      PROVE  TypeInv'
  <2>1. DiskType' /\ MemoryType' /\ raced' \subseteq CellView
    BY <1>1, OverlapsType, SameDisk, SameMemory, Parts DEF Remove
  <2>2. Moves(s) /\ call'[s].at = at
    BY <1>1, RemoveMoves
  <2>3. CallOK'
    BY <1>1, <2>2, EnterCallOK DEF OneView
  <2> QED BY <2>1, <2>2, <2>3, MovesType, Together
<1>2. ASSUME NEW c \in Cell, CellDestroy(s, c)
      PROVE  TypeInv'
  BY <1>1, <1>2 DEF CellDestroy
<1>3. ASSUME NEW v \in CellView, CellViewDestroy(s, v)
      PROVE  TypeInv'
  BY <1>1, <1>3 DEF CellViewDestroy
<1>4. ASSUME NEW f \in File, FileDestroy(s, f)
      PROVE  TypeInv'
  <2>1. PICK p \in BuildFilePath(s, f) :
            file' = [file EXCEPT ![f[1]][p] = 0] /\ EnterFile(s, "rest", f, p)
    BY <1>4 DEF FileDestroy
  <2>2. p \in Name /\ f[1] \in CellView /\ f[2] \in Name
    BY <2>1, FileType, BuildFilePathType DEF TypeInv
  <2>3. Moves(s) /\ call'[s].at = "rest" /\ call'[s].of = {f[1]}
    BY <2>1, <2>2, EnterMoves, IdleFields DEF EnterFile, Steps
  <2>4. CallOK' BY <2>2, <2>3, EnterCallOK
  <2>5. raced' \subseteq CellView
    BY <1>4, <2>2, OverlapsType, Parts DEF FileDestroy
  <2>6. DiskType BY Parts
  <2>7. file' \in [CellView -> [Name -> 0 .. MaxInode]]
    BY <2>1, <2>2, <2>6, NameAssumption DEF DiskType
  <2>8. \A v \in CellView : file[v] = Nothing => file'[v] = Nothing
    BY <2>1, <2>2, <2>6 DEF DiskType, Nothing
  <2>9. DiskType'
    BY <1>4, <2>6, <2>7, <2>8 DEF FileDestroy, DiskType, Gone
  <2>10. MemoryType'
    BY <1>4, SameMemory, Parts DEF FileDestroy
  <2> QED BY <2>3, <2>4, <2>5, <2>9, <2>10, MovesType, Together
<1> QED BY <1>2, <1>3, <1>4 DEF Destroys

LEMMA LockTypes ==
    ASSUME TypeInv, NEW s \in Session, Locks(s)
    PROVE  TypeInv'
<1>0. DiskType /\ MemoryType /\ raced \subseteq CellView
  BY Parts
<1>1. PICK f \in File : Lock(s, f) \/ Unlock(s, f)
  BY DEF Locks
<1>2. PICK p \in BuildFilePath(s, f) :
         /\ \/ CacheFilePath(s, f, p)
            \/ UNCHANGED paths
         /\ \/ lockOf' = [lockOf EXCEPT ![f[1]][p] = s] /\ f[1] \in dirs
            \/ lockOf' = [lockOf EXCEPT ![f[1]][p] = Nobody]
            \/ lockOf' = lockOf
  BY <1>1 DEF Lock, Unlock
<1>3. p \in Name /\ f[1] \in CellView
  BY <1>2, FileType, BuildFilePathType DEF TypeInv
<1>4. /\ lockOf' \in [CellView -> [Name -> Session \cup {Nobody}]]
      /\ \A v \in CellView \ dirs : lockOf[v] = Unlocked => lockOf'[v] = Unlocked
  <2>1. CASE lockOf' = [lockOf EXCEPT ![f[1]][p] = s] /\ f[1] \in dirs
    BY <1>0, <1>3, <2>1 DEF DiskType
  <2>2. CASE lockOf' = [lockOf EXCEPT ![f[1]][p] = Nobody]
    <3>1. lockOf' \in [CellView -> [Name -> Session \cup {Nobody}]]
      BY <1>0, <1>3, <2>2 DEF DiskType
    <3>2. \A v \in CellView : lockOf[v] = Unlocked => lockOf'[v] = Unlocked
      BY <1>0, <1>3, <2>2 DEF DiskType, Unlocked
    <3> QED BY <3>1, <3>2
  <2>3. CASE lockOf' = lockOf
    BY <1>0, <2>3 DEF DiskType
  <2> QED BY <1>2, <2>1, <2>2, <2>3
<1>6. UNCHANGED <<disk, session, call, raced>>
  BY <1>1 DEF Lock, Unlock
<1>7. DiskType'
  BY <1>0, <1>4, <1>6 DEF DiskType, disk, Gone
<1>8. paths' \in [Session -> [File -> Name \cup {NoName}]]
  <2>1. CASE CacheFilePath(s, f, p)
    BY <1>0, <1>3, <2>1 DEF CacheFilePath, MemoryType
  <2>2. CASE UNCHANGED paths
    BY <1>0, <2>2 DEF MemoryType
  <2> QED BY <1>2, <2>1, <2>2
<1>9. held' \in [Session -> SUBSET File]
  <2>1. /\ held[s] \subseteq File /\ f \in File
        /\ held \in [Session -> SUBSET File]
    BY <1>0 DEF MemoryType
  <2>2. \/ held' = [held EXCEPT ![s] = @ \cup {f}]
        \/ held' = [held EXCEPT ![s] = @ \ {f}]
        \/ held' = held
    BY <1>1 DEF Lock, Unlock
  <2> QED BY <2>1, <2>2
<1>10. MemoryType'
  BY <1>0, <1>6, <1>8, <1>9 DEF MemoryType
<1> QED BY <1>0, <1>6, <1>7, <1>10, SameCall, Together

LEMMA CacheTypes ==
    ASSUME TypeInv, NEW s \in Session, Caches(s)
    PROVE  TypeInv'
<1>1. ASSUME NEW f \in File, FileGetCache(s, f)
      PROVE  TypeInv'
  <2>1. PICK p \in BuildFilePath(s, f) : EnterFile(s, "link", f, p)
    BY <1>1 DEF FileGetCache
  <2>2. p \in Name /\ f[1] \in CellView /\ f[2] \in Name
    BY <2>1, FileType, BuildFilePathType DEF TypeInv
  <2>3. Moves(s) /\ call'[s].at = "link" /\ call'[s].of = {f[1]}
    BY <2>1, <2>2, EnterMoves, IdleFields DEF EnterFile, Steps
  <2>4. CallOK' BY <2>2, <2>3, EnterCallOK
  <2>5. raced' \subseteq CellView
    BY <1>1, <2>2, Parts DEF FileGetCache, Meets
  <2> QED BY <1>1, <2>3, <2>4, <2>5, SameDisk, SameMemory, MovesType, Together, Parts
          DEF FileGetCache
<1>2. ASSUME NEW v \in CellView, FileReleaseCache(s, v)
      PROVE  TypeInv'
  <2>1. DiskType'
    BY <1>2, NameAssumption, Parts DEF FileReleaseCache, UnlinkCache, DiskType, Gone
  <2> QED BY <1>2, <2>1, SameMemory, SameCall, Together, Parts DEF FileReleaseCache
<1> QED BY <1>1, <1>2 DEF Caches

\* One entry goes from the disk, and from those that the call has left.
LEMMA UnlinkMoves ==
    ASSUME TypeInv, NEW s \in Session, NEW x \in Entry, Unlink(s, x)
    PROVE  /\ Moves(s)
           /\ call'[s].at = call[s].at /\ call'[s].of = call[s].of
           /\ call'[s].left = call[s].left \ {x}
<1>1. call[s] \in CallRecord /\ call \in [Session -> CallRecord]
  BY DEF TypeInv, TypeOK
<1>2. call' = [call EXCEPT ![s] = [call[s] EXCEPT !.left = call[s].left \ {x}]]
  BY DEF Unlink
<1>3. call[s].left \ {x} \in SUBSET Entry
  BY <1>1 DEF CallRecord
<1>4. [call[s] EXCEPT !.left = call[s].left \ {x}] \in CallRecord
  BY <1>1, <1>3 DEF CallRecord
<1> QED BY <1>1, <1>2, <1>4 DEF Moves, CallRecord

LEMMA UnlinkTypes ==
    ASSUME TypeInv, NEW s \in Session, NEW x \in Entry, Unlink(s, x)
    PROVE  TypeInv'
<1>0. DiskType /\ MemoryType /\ raced \subseteq CellView
  BY Parts
<1>1. x.of \in CellView /\ x.name \in Name /\ 0 \in 0 .. MaxInode
  BY EntryFields, NameAssumption
<1>2. /\ tag' \in [CellView -> Type \cup {NoType}]
      /\ writing' \in [CellView -> SUBSET Session]
      /\ oacache' \in [CellView -> 0 .. MaxInode]
  BY <1>0, <1>1 DEF Unlink, DiskType
<1>3. file' \in [CellView -> [Name -> 0 .. MaxInode]]
  <2>1. CASE file' = [file EXCEPT ![x.of][x.name] = 0]
    BY <1>0, <1>1, <2>1 DEF DiskType
  <2>2. CASE file' = file
    BY <1>0, <2>2 DEF DiskType
  <2> QED BY <2>1, <2>2 DEF Unlink
<1>4. lockOf' \in [CellView -> [Name -> Session \cup {Nobody}]]
  <2>1. CASE lockOf' = [lockOf EXCEPT ![x.of][x.name] = Nobody]
    BY <1>0, <1>1, <2>1 DEF DiskType
  <2>2. CASE lockOf' = lockOf
    BY <1>0, <2>2 DEF DiskType
  <2> QED BY <2>1, <2>2 DEF Unlink
<1>5. \A v \in CellView : Gone(v) => Gone(v)'
  <2> SUFFICES ASSUME NEW v \in CellView, Gone(v) PROVE Gone(v)'
    OBVIOUS
  <2>1. file'[v] = Nothing
    BY <1>0, <1>1 DEF Unlink, Gone, DiskType, Nothing
  <2>2. lockOf'[v] = Unlocked
    BY <1>0, <1>1 DEF Unlink, Gone, DiskType, Unlocked
  <2>3. tag'[v] = NoType /\ writing'[v] = {} /\ oacache'[v] = 0
    BY <1>0, <1>1 DEF Unlink, Gone, DiskType
  <2> QED BY <2>1, <2>2, <2>3 DEF Gone
<1>6. dirs' \subseteq dirs /\ \A v \in dirs \ dirs' : Gone(v)
  BY DEF Unlink, IsEmpty
<1>7. DiskType'
  BY <1>0, <1>2, <1>3, <1>4, <1>5, <1>6 DEF Unlink, DiskType
<1>8. MemoryType' /\ UNCHANGED raced
  BY <1>0, SameMemory DEF Unlink
<1>9. Moves(s) /\ CallOK'
  BY UnlinkMoves, EnterCallOK DEF Unlink, Emptying, OneView
<1> QED BY <1>0, <1>7, <1>8, <1>9, MovesType, Together

LEMMA ForgetTypes ==
    ASSUME MemoryType, NEW s \in Session, Forget(s), UNCHANGED session
    PROVE  MemoryType'
<1>1. held' \in [Session -> SUBSET File]
  BY DEF Forget, MemoryType
<1>2. PICK forgotten \in SUBSET {f \in File : f[1] \in call[s].of} :
         paths' = [paths EXCEPT ![s] = [f \in File |->
                     IF f \in forgotten THEN NoName ELSE @[f]]]
  BY DEF Forget
<1>3. paths' \in [Session -> [File -> Name \cup {NoName}]]
  BY <1>2 DEF MemoryType
<1> QED BY <1>1, <1>3 DEF MemoryType

LEMMA RemovedTypes ==
    ASSUME TypeInv, NEW s \in Session, CellViewRemoved(s) \/ RemoveCell(s)
    PROVE  TypeInv'
<1>0. DiskType /\ MemoryType /\ raced \subseteq CellView
  BY Parts
<1>1. MemoryType' /\ UNCHANGED raced /\ Return(s)
  BY <1>0, ForgetTypes DEF CellViewRemoved, RemoveCell
<1>2. DiskType'
  <2>1. CASE CellViewRemoved(s)
    BY <1>0, <2>1, SameDisk DEF CellViewRemoved
  <2>2. CASE RemoveCell(s)
    <3>1. cells' \subseteq cells /\ \A v \in dirs : v[1] \in cells'
      BY <1>0, <2>2 DEF RemoveCell, DiskType
    <3> QED BY <1>0, <2>2, <3>1 DEF RemoveCell, DiskType, Gone
  <2> QED BY <2>1, <2>2
<1> QED BY <1>0, <1>1, <1>2, ReturnMoves, MovesType, Together

LEMMA CopyTypes ==
    ASSUME TypeInv, NEW s \in Session, CopyTo(s) \/ Pour(s)
    PROVE  TypeInv'
<1>0. DiskType /\ MemoryType /\ raced \subseteq CellView
  BY Parts
<1>1. /\ TheView(s) \in CellView /\ call[s].at \in OneView
      /\ call[s].from \in 1 .. MaxInode
  BY InView DEF CopyTo, Pour, In, OneView, TypeInv, CallOK
<1>2. 0 \in 0 .. MaxInode /\ MaxInode \in Nat
  BY NameAssumption
<1>3. CASE CopyTo(s)
  <2>1. /\ oacache' \in [CellView -> 0 .. MaxInode]
        /\ content' \in [1 .. MaxInode -> 0 .. MaxInode]
        /\ next' \in 0 .. MaxInode
        /\ \A v \in CellView \ dirs : oacache'[v] = oacache[v]
        /\ \/ Return(s)
           \/ \E j \in 1 .. MaxInode : GoTo(s, "pour", call[s].from, j)
    <3>1. CASE oacache' = [oacache EXCEPT ![TheView(s)] = next + 1]
                  /\ NewInode(0) /\ TheView(s) \in dirs
                  /\ GoTo(s, "pour", call[s].from, next + 1)
      <4>1. next + 1 \in 1 .. MaxInode
        BY <1>0, <1>2, <3>1 DEF NewInode, DiskType
      <4> QED BY <1>0, <1>1, <1>2, <3>1, <4>1 DEF NewInode, DiskType
    <3>2. CASE /\ content' = [content EXCEPT ![oacache[TheView(s)]] = 0]
               /\ oacache[TheView(s)] # 0
               /\ GoTo(s, "pour", call[s].from, oacache[TheView(s)])
               /\ UNCHANGED <<oacache, next>>
      BY <1>0, <1>1, <1>2, <3>2 DEF DiskType
    <3>3. CASE UNCHANGED <<oacache, content, next>> /\ Return(s)
      BY <1>0, <3>3 DEF DiskType
    <3> QED BY <1>3, <3>1, <3>2, <3>3 DEF CopyTo
  <2>2. DiskType'
    BY <1>0, <1>3, <2>1 DEF CopyTo, DiskType, Gone
  <2>3. MemoryType' /\ UNCHANGED raced
    BY <1>0, <1>3, SameMemory DEF CopyTo
  <2>4. Moves(s) /\ CallOK'
    <3>1. CASE Return(s)
      BY <3>1, ReturnMoves
    <3>2. ASSUME NEW j \in 1 .. MaxInode, GoTo(s, "pour", call[s].from, j)
          PROVE  Moves(s) /\ CallOK'
      <4>1. j \in 0 .. MaxInode /\ j # 0 /\ call[s].from \in 0 .. MaxInode
            /\ call[s].from # 0
        BY <1>1, <1>2
      <4> QED BY <1>1, <3>2, <4>1, GoToMoves DEF OneView
    <3> QED BY <2>1, <3>1, <3>2
  <2> QED BY <1>0, <2>2, <2>3, <2>4, MovesType, Together
<1>4. CASE Pour(s)
  <2>1. content' \in [1 .. MaxInode -> 0 .. MaxInode]
    BY <1>0, <1>1, <1>4 DEF Pour, DiskType
  <2>2. DiskType'
    BY <1>0, <1>4, <2>1 DEF Pour, DiskType, Gone
  <2>3. MemoryType' /\ raced' \subseteq CellView
    BY <1>0, <1>1, <1>4, SameMemory DEF Pour
  <2> QED BY <1>0, <1>4, <2>2, <2>3, ReturnMoves, MovesType, Together DEF Pour
<1> QED BY <1>3, <1>4

LEMMA ContinueTypes ==
    ASSUME TypeInv, NEW s \in Session, Continue(s)
    PROVE  TypeInv'
<1>0. DiskType /\ MemoryType /\ raced \subseteq CellView
  BY Parts
<1>1. CASE TruncateTag(s)
  <2>1. TheView(s) \in CellView /\ call[s].at \in OneView
    BY <1>1, InView DEF TruncateTag, OneView
  <2>2. DiskType'
    <3>1. CASE TheView(s) \in dirs
      <4>1. /\ tag' = [tag EXCEPT ![TheView(s)] = NoType]
            /\ writing' = [writing EXCEPT ![TheView(s)] = @ \cup {s}]
            /\ UNCHANGED <<cells, dirs, file, oacache, content, next, lockOf>>
        BY <1>1, <3>1 DEF TruncateTag
      <4>2. writing' \in [CellView -> SUBSET Session]
        BY <1>0, <2>1, <4>1 DEF DiskType
      <4>3. \A v \in CellView \ dirs : tag'[v] = tag[v] /\ writing'[v] = writing[v]
        BY <1>0, <2>1, <3>1, <4>1 DEF DiskType
      <4> QED BY <1>0, <2>1, <4>1, <4>2, <4>3 DEF DiskType, Gone
    <3>2. CASE TheView(s) \notin dirs
      BY <1>0, <1>1, <3>2 DEF TruncateTag, DiskType, Gone
    <3> QED BY <3>1, <3>2
  <2>3. MemoryType' /\ UNCHANGED raced
    BY <1>0, <1>1, SameMemory DEF TruncateTag
  <2>4. Moves(s) /\ CallOK'
    <3>1. GoTo(s, "write", 0, 0) \/ Return(s)
      BY <1>1 DEF TruncateTag
    <3>2. 0 \in 0 .. MaxInode
      BY NameAssumption
    <3> QED BY <2>1, <3>1, <3>2, GoToMoves, ReturnMoves DEF OneView
  <2> QED BY <1>0, <2>2, <2>3, <2>4, MovesType, Together
<1>2. CASE WriteTag(s)
  <2>1. TheView(s) \in CellView /\ call[s] \in CallRecord
    BY <1>2, InView DEF WriteTag, OneView
  <2>2. /\ tag' \in [CellView -> Type \cup {NoType}]
        /\ writing' \in [CellView -> SUBSET Session]
    BY <1>0, <1>2, <2>1 DEF WriteTag, DiskType, CallRecord
  <2>3. \A v \in CellView : tag[v] = NoType /\ writing[v] = {}
                            => tag'[v] = NoType /\ writing'[v] = {}
    BY <1>0, <1>2, <2>1 DEF WriteTag, DiskType
  <2>4. DiskType'
    BY <1>0, <1>2, <2>2, <2>3 DEF WriteTag, DiskType, Gone
  <2>5. MemoryType' /\ UNCHANGED raced
    BY <1>0, <1>2, SameMemory DEF WriteTag
  <2> QED BY <1>0, <1>2, <2>4, <2>5, ReturnMoves, MovesType, Together DEF WriteTag
<1>3. ASSUME NEW x \in Entry, Unlink(s, x)
      PROVE  TypeInv'
  BY <1>3, UnlinkTypes
<1>4. CASE CellViewRemoved(s) \/ RemoveCell(s)
  BY <1>4, RemovedTypes
<1>5. CASE CreateFile(s)
  <2>1. /\ TheView(s) \in CellView /\ call[s].path \in Name
        /\ TheView(s)[1] \in Cell
    BY <1>5, InView DEF CreateFile, OneView, CallRecord, CellView
  <2>2. cells' \subseteq Cell /\ dirs' \subseteq CellView
    BY <1>0, <1>5, <2>1 DEF CreateFile, DiskType
  <2>3. /\ file' \in [CellView -> [Name -> 0 .. MaxInode]]
        /\ content' \in [1 .. MaxInode -> 0 .. MaxInode]
        /\ next' \in 0 .. MaxInode
        /\ \A v \in CellView \ dirs' : file'[v] = file[v]
    <3>1. CASE file[TheView(s)][call[s].path] = 0
      <4>1. next + 1 \in 1 .. MaxInode
        BY <1>0, <1>5, <3>1, NameAssumption DEF CreateFile, NewInode, DiskType
      <4>2. /\ file' = [file EXCEPT ![TheView(s)][call[s].path] = next + 1]
            /\ content' = [content EXCEPT ![next + 1] = next + 1]
            /\ next' = next + 1 /\ TheView(s) \in dirs'
        BY <1>5, <3>1 DEF CreateFile, NewInode
      <4>3. file' \in [CellView -> [Name -> 0 .. MaxInode]]
        BY <1>0, <2>1, <4>1, <4>2 DEF DiskType
      <4>4. content' \in [1 .. MaxInode -> 0 .. MaxInode]
        BY <1>0, <4>1, <4>2 DEF DiskType
      <4>5. \A v \in CellView \ dirs' : file'[v] = file[v]
        BY <1>0, <2>1, <4>2 DEF DiskType
      <4> QED BY <4>1, <4>2, <4>3, <4>4, <4>5
    <3>2. CASE file[TheView(s)][call[s].path] # 0
      BY <1>0, <1>5, <3>2 DEF CreateFile, DiskType
    <3> QED BY <3>1, <3>2
  <2>4. \A v \in dirs' : v[1] \in cells'
    BY <1>0, <1>5 DEF CreateFile, DiskType
  <2>5. \A v \in CellView \ dirs' : v \in CellView \ dirs
    BY <1>5 DEF CreateFile
  <2>6. UNCHANGED <<tag, writing, oacache, lockOf>>
    BY <1>5 DEF CreateFile
  <2>7. DiskType'
    BY <1>0, <2>2, <2>3, <2>4, <2>5, <2>6 DEF DiskType, Gone
  <2>8. MemoryType' /\ UNCHANGED raced
    BY <1>0, <1>5, SameMemory DEF CreateFile
  <2> QED BY <1>0, <1>5, <2>7, <2>8, ReturnMoves, MovesType, Together DEF CreateFile
<1>6. CASE DestroyRest(s)
  <2>1. /\ TheView(s) \in CellView /\ call[s].path \in Name /\ TheFile(s) \in File
    BY <1>6, InView DEF DestroyRest, OneView, CallRecord
  <2>2. oacache' \in [CellView -> 0 .. MaxInode]
    BY <1>0, <1>6, <2>1, NameAssumption DEF DestroyRest, UnlinkCache, DiskType
  <2>3. lockOf' \in [CellView -> [Name -> Session \cup {Nobody}]]
    BY <1>0, <1>6, <2>1 DEF DestroyRest, DiskType
  <2>4. \A v \in CellView : /\ oacache[v] = 0 => oacache'[v] = 0
                            /\ lockOf[v] = Unlocked => lockOf'[v] = Unlocked
    BY <1>0, <1>6, <2>1 DEF DestroyRest, UnlinkCache, DiskType, Unlocked
  <2>5. DiskType'
    BY <1>0, <1>6, <2>2, <2>3, <2>4 DEF DestroyRest, DiskType, Gone
  <2>6. paths' \in [Session -> [File -> Name \cup {NoName}]]
    BY <1>0, <1>6, <2>1 DEF DestroyRest, MemoryType
  <2>7. held' \in [Session -> SUBSET File]
    BY <1>0, <1>6 DEF DestroyRest, MemoryType
  <2>8. MemoryType' /\ UNCHANGED raced
    BY <1>0, <1>6, <2>6, <2>7 DEF DestroyRest, MemoryType
  <2> QED BY <1>0, <1>6, <2>5, <2>8, ReturnMoves, MovesType, Together DEF DestroyRest
<1>7. CASE Link(s)
  <2>1. TheView(s) \in CellView /\ call[s].path \in Name
    BY <1>7, InView DEF Link, OneView, CallRecord
  <2>2. oacache' \in [CellView -> 0 .. MaxInode]
    BY <1>0, <1>7, <2>1 DEF Link, DiskType
  <2>3. TheView(s) \in dirs
    BY <1>0, <1>7, <2>1 DEF Link, DiskType, Gone, Nothing
  <2>4. DiskType'
    BY <1>0, <1>7, <2>2, <2>3 DEF Link, DiskType, Gone
  <2>5. MemoryType' /\ UNCHANGED raced
    BY <1>0, <1>7, SameMemory DEF Link
  <2> QED BY <1>0, <1>7, <2>4, <2>5, ReturnMoves, MovesType, Together DEF Link
<1>8. CASE LinkFails(s)
  <2>1. DiskType' /\ MemoryType' /\ UNCHANGED raced
    BY <1>0, <1>8, SameDisk, SameMemory DEF LinkFails
  <2>2. 0 \in 0 .. MaxInode
    BY NameAssumption
  <2>3. Moves(s) /\ CallOK'
    BY <1>8, <2>2, InView, GoToMoves DEF LinkFails, OneView
  <2> QED BY <1>0, <2>1, <2>3, MovesType, Together
<1>9. CASE CopyFrom(s)
  <2>1. DiskType' /\ MemoryType' /\ UNCHANGED raced
    BY <1>0, <1>9, SameDisk, SameMemory DEF CopyFrom
  <2>2. /\ call[s].at \in OneView
        /\ file[TheView(s)][call[s].path] \in 0 .. MaxInode /\ 0 \in 0 .. MaxInode
    BY <1>0, <1>9, InView, NameAssumption DEF CopyFrom, OneView, DiskType, CallRecord
  <2>3. Moves(s) /\ CallOK'
    BY <1>9, <2>2, GoToMoves, ReturnMoves DEF CopyFrom, OneView
  <2> QED BY <1>0, <2>1, <2>3, MovesType, Together
<1>10. CASE CopyTo(s) \/ Pour(s)
  BY <1>10, CopyTypes
<1> QED BY <1>1, <1>2, <1>3, <1>4, <1>5, <1>6, <1>7, <1>8, <1>9, <1>10 DEF Continue

LEMMA NextTypes == TypeInv /\ [Next]_vars => TypeInv'
<1>1. ASSUME TypeInv, NEW s \in Session, Begin(s)
      PROVE  TypeInv'
  BY <1>1, CreateTypes, FindTypes, DestroyTypes, LockTypes, CacheTypes DEF Begin
<1>2. ASSUME TypeInv, UNCHANGED vars
      PROVE  TypeInv'
  <2>1. UNCHANGED <<disk, lockOf>> /\ UNCHANGED memory /\ UNCHANGED <<call, raced>>
    BY <1>2 DEF vars
  <2> QED BY <1>2, <2>1, Parts, SameDisk, SameMemory, SameCall, Together
<1> QED BY <1>1, <1>2, SessionTypes, ContinueTypes DEF Next

LEMMA InitTypes == Init => TypeInv
<1> SUFFICES ASSUME Init PROVE TypeInv
  OBVIOUS
<1>0. 0 \in 0 .. MaxInode
  BY NameAssumption
<1>1. DiskType
  BY <1>0 DEF Init, DiskType, NoTypes, Nothing, Unlocked, Gone
<1>2. MemoryType
  <2>1. PICK r \in Roles :
           session = [s \in Session |-> [is |-> "closed", uses |-> r[s]]]
    BY DEF Init
  <2>2. r \in [Session -> SUBSET Groups]
    BY NameAssumption
  <2>3. session \in [Session -> SessionRecord]
    BY <2>1, <2>2 DEF SessionRecord
  <2> QED BY <2>3 DEF Init, MemoryType, NoPaths, NoTypes
<1>3. CallOK /\ call \in [Session -> CallRecord] /\ raced \subseteq CellView
  BY IdleType DEF Init, CallOK, OneView
<1> QED BY <1>1, <1>2, <1>3, Parts

\* Directories, files, locks and what the plug-ins keep of them are what they
\* are said to be, a cell view with a directory has one for its cell, and one
\* without has nothing in it: no call puts a file where rmdir has been.
THEOREM TypeCorrect == Spec => []TypeOK
<1>1. TypeInv => TypeOK
  BY DEF TypeInv
<1> QED BY <1>1, InitTypes, NextTypes, PTL DEF Spec

-----------------------------------------------------------------------------
(* A step is one of one process; a process makes calls while the library is *)
(* open in it.                                                              *)

ClosedIdle == \A s \in Session : session[s].is = "closed" => call[s].at = "idle"

Alone(s) == \A r \in Session \ {s} : session'[r] = session[r] /\ call'[r] = call[r]

LEMMA CallAlone ==
    ASSUME TypeInv, NEW s \in Session, Begin(s) \/ Continue(s)
    PROVE  /\ UNCHANGED session /\ IsOpen(s)
           /\ \A r \in Session \ {s} : call'[r] = call[r]
<1>1. CASE Begin(s)
  <2>1. UNCHANGED session
    BY <1>1 DEF Begin, Creates, Finds, Destroys, Locks, Caches, CellCreate,
       CellViewCreate, FileCreate, GetPath, GetLockStatus, CellDestroy,
       CellViewDestroy, FileDestroy, Remove, Lock, Unlock, FileGetCache,
       FileReleaseCache, memory
  <2>2. UNCHANGED call \/ \E new : call' = [call EXCEPT ![s] = new]
    BY <1>1 DEF Begin, Creates, Finds, Destroys, Locks, Caches, CellCreate,
       CellViewCreate, FileCreate, GetPath, GetLockStatus, CellDestroy,
       CellViewDestroy, FileDestroy, Remove, Lock, Unlock, FileGetCache,
       FileReleaseCache, EnterView, EnterFile, Enter
  <2> QED BY <1>1, <2>1, <2>2 DEF Begin, MayCall, TypeInv, TypeOK
<1>2. CASE Continue(s)
  <2>1. ASSUME NEW x \in Entry, Unlink(s, x)
        PROVE  /\ UNCHANGED session /\ IsOpen(s)
               /\ \A r \in Session \ {s} : call'[r] = call[r]
    BY <2>1, UnlinkMoves DEF Unlink, memory, Emptying, Moves
  <2>2. CASE \/ TruncateTag(s) \/ WriteTag(s) \/ CellViewRemoved(s) \/ RemoveCell(s)
             \/ CreateFile(s) \/ DestroyRest(s) \/ Link(s) \/ LinkFails(s)
             \/ CopyFrom(s) \/ CopyTo(s) \/ Pour(s)
    <3>1. UNCHANGED session /\ IsOpen(s)
      BY <2>2 DEF TruncateTag, WriteTag, CellViewRemoved, RemoveCell, CreateFile,
         DestroyRest, Link, LinkFails, CopyFrom, CopyTo, Pour, memory, In
    <3>2. Return(s) \/ \E at, i, j : GoTo(s, at, i, j)
      BY <2>2 DEF TruncateTag, WriteTag, CellViewRemoved, RemoveCell, CreateFile,
         DestroyRest, Link, LinkFails, CopyFrom, CopyTo, Pour
    <3> QED BY <3>1, <3>2 DEF Return, GoTo, TypeInv, TypeOK
  <2> QED BY <1>2, <2>1, <2>2 DEF Continue
<1> QED BY <1>1, <1>2

LEMMA AloneStep ==
    ASSUME TypeInv, NEW s \in Session,
           Open(s) \/ LibPreClose(s) \/ Crash(s) \/ Begin(s) \/ Continue(s)
    PROVE  Alone(s)
<1>1. CASE Open(s) \/ LibPreClose(s) \/ Crash(s)
  BY <1>1 DEF Open, LibPreClose, Crash, Become, Return, Alone, TypeInv, TypeOK
<1>2. CASE Begin(s) \/ Continue(s)
  BY <1>2, CallAlone DEF Alone
<1> QED BY <1>1, <1>2

LEMMA ClosedStep ==
    ASSUME TypeInv, ClosedIdle, NEW s \in Session,
           Open(s) \/ LibPreClose(s) \/ Crash(s) \/ Begin(s) \/ Continue(s)
    PROVE  ClosedIdle'
<1>0. MemoryType /\ Alone(s)
  BY AloneStep, Parts
<1>1. CASE Open(s) \/ Crash(s)
  <2>1. session'[s].is \in {"open", "dead"}
    BY <1>0, <1>1, BecomeType DEF Open, Crash
  <2> QED BY <1>0, <2>1 DEF ClosedIdle, Alone
<1>2. CASE LibPreClose(s)
  <2>1. UNCHANGED call /\ call[s].at = "idle"
    BY <1>2 DEF LibPreClose, MayCall
  <2> QED BY <1>0, <2>1 DEF ClosedIdle, Alone
<1>3. CASE Begin(s) \/ Continue(s)
  BY <1>0, <1>3, CallAlone DEF ClosedIdle, Alone, IsOpen
<1> QED BY <1>1, <1>2, <1>3

\* What the two theorems after this one rest on.
LEMMA BaseInvariant == Spec => [](TypeInv /\ ClosedIdle)
<1>1. Init => TypeInv /\ ClosedIdle
  BY InitTypes, IdleType DEF Init, ClosedIdle
<1>2. TypeInv /\ ClosedIdle /\ [Next]_vars => (TypeInv /\ ClosedIdle)'
  <2>1. ASSUME TypeInv, ClosedIdle, UNCHANGED vars
        PROVE  ClosedIdle'
    BY <2>1 DEF vars, memory, ClosedIdle
  <2> QED BY <2>1, NextTypes, ClosedStep DEF Next
<1> QED BY <1>1, <1>2, PTL DEF Spec

-----------------------------------------------------------------------------
(* The path that is kept for an object.  Only CacheFilePath, Forget,       *)
(* DestroyRest, LibPreClose and Crash change one.                          *)

LEMMA KeptIsBuilt ==
    ASSUME NEW s \in Session, NEW f \in File, paths[s][f] # NoName
    PROVE  BuildFilePath(s, f) = {paths[s][f]}
BY DEF BuildFilePath

\* A path that is resolved is the one that is kept, if one is.
LEMMA BuiltIsKept ==
    ASSUME TypeInv, NEW s \in Session, NEW f \in File, NEW p \in BuildFilePath(s, f)
    PROVE  paths[s][f] \in {NoName, p}
BY DEF BuildFilePath

LEMMA KeptIsFound == LockInv => NoOrphanLock
<1> SUFFICES ASSUME LockInv, NEW s \in Session, NEW v \in CellView,
                    NEW p \in Name, lockOf[v][p] = s, session[s].is # "dead"
             PROVE  \E n \in Name : /\ <<v, n>> \in held[s]
                                    /\ BuildFilePath(s, <<v, n>>) = {p}
  BY DEF NoOrphanLock
<1>1. PICK n \in Name : <<v, n>> \in held[s] /\ paths[s][<<v, n>>] = p
  BY DEF LockInv, KeptOf
<1>2. p # NoName /\ <<v, n>> \in File
  BY NameAssumption DEF File
<1>3. BuildFilePath(s, <<v, n>>) = {p}
  BY <1>1, <1>2, KeptIsBuilt
<1> QED BY <1>1, <1>3

\* A step of s changes what is kept of s alone, and gives nobody else a lock.
Others(s) == \A r \in Session \ {s} :
                /\ session'[r] = session[r] /\ call'[r] = call[r]
                /\ paths'[r] = paths[r] /\ held'[r] = held[r]
                /\ \A v \in CellView, p \in Name :
                      lockOf'[v][p] = r => lockOf[v][p] = r

Safe(s) == Others(s) /\ KeptOf(s)' /\ RestOf(s)' /\ LeftOf(s)'

LEMMA SafeStep ==
    ASSUME LockInv, NEW s \in Session, Safe(s)
    PROVE  LockInv'
<1> SUFFICES ASSUME NEW r \in Session \ {s}
             PROVE  KeptOf(r)' /\ RestOf(r)' /\ LeftOf(r)'
  BY DEF LockInv, Safe
<1>1. KeptOf(r)'
  BY DEF LockInv, Safe, Others, KeptOf
<1>2. RestOf(r)'
  BY DEF LockInv, Safe, Others, RestOf, TheFile, TheView
<1>3. LeftOf(r)'
  BY DEF LockInv, Safe, Others, LeftOf, Emptying, IsOpen
<1> QED BY <1>1, <1>2, <1>3

LEMMA NotEmptying ==
    ASSUME NEW s \in Session, call'[s].at \notin {"rmview", "rmcell"}
    PROVE  LeftOf(s)'
BY DEF LeftOf, Emptying

LEMMA CallAt ==
    ASSUME TypeInv, NEW s \in Session
    PROVE  /\ \A at, V, n, p, t : Enter(s, at, V, n, p, t) =>
                 /\ \A r \in Session \ {s} : call'[r] = call[r]
                 /\ call'[s].at = at
           /\ \A at, i, j : GoTo(s, at, i, j) =>
                 /\ \A r \in Session \ {s} : call'[r] = call[r]
                 /\ call'[s].at = at
           /\ Return(s) => /\ \A r \in Session \ {s} : call'[r] = call[r]
                           /\ call'[s].at = "idle"
<1>1. call \in [Session -> CallRecord]
  BY DEF TypeInv, TypeOK
<1> QED BY <1>1, IdleType DEF Enter, GoTo, Return

\* Most steps leave the locks, and all that is kept of files, alone.
LEMMA QuietSafe ==
    ASSUME TypeInv, LockInv, NEW s \in Session,
           UNCHANGED <<lockOf, session, paths, held>>,
           \A r \in Session \ {s} : call'[r] = call[r],
           call'[s].at \notin {"rest", "rmview", "rmcell"}
    PROVE  Safe(s)
BY NotEmptying DEF Safe, Others, LockInv, KeptOf, RestOf

LEMMA SessionSafe ==
    ASSUME TypeInv, LockInv, ClosedIdle, NEW s \in Session, Open(s) \/ LibPreClose(s) \/ Crash(s)
    PROVE  Safe(s)
<1>0. /\ session \in [Session -> SessionRecord] /\ MemoryType
      /\ paths \in [Session -> [File -> Name \cup {NoName}]]
      /\ held \in [Session -> SUBSET File]
  BY Parts DEF MemoryType
<1>1. Others(s)
  <2>1. \A r \in Session \ {s} : session'[r] = session[r]
    BY <1>0, BecomeType DEF Open, LibPreClose, Crash
  <2>2. \A r \in Session \ {s} : call'[r] = call[r]
    BY CallAt DEF Open, LibPreClose, Crash
  <2>3. \A r \in Session \ {s} : paths'[r] = paths[r] /\ held'[r] = held[r]
    BY <1>0 DEF Open, LibPreClose, Crash
  <2> QED BY <2>1, <2>2, <2>3 DEF Others, Open, LibPreClose, Crash
<1>2. CASE Open(s)
  <2>1. UNCHANGED <<lockOf, paths, held, call>> /\ session[s].is = "closed"
    BY <1>2 DEF Open
  <2>2. call[s].at = "idle"
    BY <2>1 DEF ClosedIdle
  <2>3. KeptOf(s)'
    BY <2>1 DEF LockInv, KeptOf
  <2> QED BY <1>1, <2>1, <2>2, <2>3, NotEmptying DEF Safe, RestOf
<1>3. CASE LibPreClose(s)
  <2>1. /\ UNCHANGED <<lockOf, held, call>> /\ held[s] = {}
        /\ session[s].is = "open" /\ call[s].at = "idle"
    BY <1>3 DEF LibPreClose, MayCall, IsOpen
  <2> QED BY <1>1, <2>1, NotEmptying DEF Safe, LockInv, KeptOf, RestOf
<1>4. CASE Crash(s)
  <2>1. session'[s].is = "dead" /\ paths'[s] = NoPaths
    BY <1>0, <1>4, BecomeType DEF Crash
  <2>2. call[s].at = "rest" => TheFile(s) \in File
    BY InView, TheViewType, Parts DEF OneView, TheFile, File, CallRecord
  <2>3. RestOf(s)'
    <3>1. CASE call[s].at = "rest"
      BY <1>4, <2>1, <2>2, <3>1 DEF Crash, RestOf, NoPaths, TheFile, TheView
    <3>2. CASE call[s].at # "rest"
      <4>1. call'[s].at # "rest"
        BY <1>4, <3>2, CallAt DEF Crash
      <4> QED BY <4>1 DEF RestOf
    <3> QED BY <3>1, <3>2
  <2> QED BY <1>1, <2>1, <2>3 DEF Safe, KeptOf, LeftOf, Emptying, IsOpen
<1> QED BY <1>2, <1>3, <1>4

\* The call of s, and no other, gets to at.
CallGets(s, at) == /\ \A r \in Session \ {s} : call'[r] = call[r]
                   /\ call'[s].at = at

LEMMA EnterGets ==
    ASSUME TypeInv, NEW s \in Session, NEW at, NEW V, NEW n, NEW p, NEW t,
           Enter(s, at, V, n, p, t)
    PROVE  CallGets(s, at)
BY CallAt DEF CallGets

LEMMA CreateSafe ==
    ASSUME TypeInv, LockInv, NEW s \in Session, Creates(s), MayCall(s)
    PROVE  Safe(s)
<1>1. UNCHANGED <<lockOf, session, paths, held>>
  BY DEF Creates, CellCreate, CellViewCreate, FileCreate, memory
<1>2. \E at \in {"idle", "truncate", "create"} : CallGets(s, at)
  <2>1. ASSUME NEW c \in Cell, CellCreate(s, c)
        PROVE  CallGets(s, "idle")
    BY <2>1 DEF CellCreate, MayCall, CallGets
  <2>2. ASSUME NEW v \in CellView, NEW t \in Type, CellViewCreate(s, v, t)
        PROVE  CallGets(s, "truncate")
    BY <2>2, EnterGets DEF CellViewCreate, EnterView
  <2>3. ASSUME NEW f \in File, FileCreate(s, f)
        PROVE  CallGets(s, "create")
    BY <2>3, EnterGets DEF FileCreate, EnterFile
  <2> QED BY <2>1, <2>2, <2>3 DEF Creates
<1> QED BY <1>1, <1>2, QuietSafe DEF CallGets

LEMMA CacheSafe ==
    ASSUME TypeInv, LockInv, NEW s \in Session, Caches(s), MayCall(s)
    PROVE  Safe(s)
<1>1. UNCHANGED <<lockOf, session, paths, held>>
  BY DEF Caches, FileGetCache, FileReleaseCache, memory
<1>2. CallGets(s, "link") \/ CallGets(s, "idle")
  <2>1. ASSUME NEW f \in File, FileGetCache(s, f)
        PROVE  CallGets(s, "link")
    BY <2>1, EnterGets DEF FileGetCache, EnterFile
  <2>2. ASSUME NEW v \in CellView, FileReleaseCache(s, v)
        PROVE  CallGets(s, "idle")
    BY <2>2 DEF FileReleaseCache, MayCall, CallGets
  <2> QED BY <2>1, <2>2 DEF Caches
<1> QED BY <1>1, <1>2, QuietSafe DEF CallGets

\* The path that a call goes by becomes the path that is kept, or is not kept.
LEMMA KeepPath ==
    ASSUME TypeInv, LockInv, NEW s \in Session, NEW f \in File,
           NEW p \in BuildFilePath(s, f), CacheFilePath(s, f, p)
    PROVE  /\ \A r \in Session \ {s} : paths'[r] = paths[r]
           /\ paths'[s][f] = p
           /\ \A g \in File : paths[s][g] # NoName => paths'[s][g] = paths[s][g]
<1>1. paths \in [Session -> [File -> Name \cup {NoName}]]
  BY DEF TypeInv, TypeOK
<1>2. paths[s][f] \in {NoName, p}
  BY BuiltIsKept
<1> QED BY <1>1, <1>2 DEF CacheFilePath

\* What is left of the locks of s is still kept.
LEMMA StillKept ==
    ASSUME TypeInv, LockInv, NEW s \in Session, UNCHANGED <<session, held>>,
           \A g \in File : paths[s][g] # NoName => paths'[s][g] = paths[s][g],
           \A v \in CellView, p \in Name : lockOf'[v][p] = s => lockOf[v][p] = s
    PROVE  KeptOf(s)'
<1> SUFFICES ASSUME session[s].is # "dead", NEW v \in CellView, NEW p \in Name,
                    lockOf'[v][p] = s
             PROVE  \E n \in Name : <<v, n>> \in held'[s] /\ paths'[s][<<v, n>>] = p
  BY DEF KeptOf
<1>1. PICK n \in Name : <<v, n>> \in held[s] /\ paths[s][<<v, n>>] = p
  BY DEF LockInv, KeptOf
<1>2. <<v, n>> \in File /\ p # NoName
  BY NameAssumption DEF File
<1> QED BY <1>1, <1>2

LEMMA FindSafe ==
    ASSUME TypeInv, LockInv, NEW s \in Session, Finds(s), MayCall(s)
    PROVE  Safe(s)
<1>2. ASSUME NEW f \in File, GetPath(s, f)
      PROVE  Safe(s)
  <2>1. PICK p \in BuildFilePath(s, f) : CacheFilePath(s, f, p)
    BY <1>2 DEF GetPath
  <2>2. UNCHANGED <<lockOf, session, held, call>>
    BY <1>2 DEF GetPath
  <2>3. KeptOf(s)'
    BY <2>1, <2>2, KeepPath, StillKept
  <2>4. Others(s)
    BY <2>1, <2>2, KeepPath DEF Others
  <2> QED BY <2>2, <2>3, <2>4, NotEmptying DEF Safe, RestOf, MayCall
<1>3. ASSUME NEW f \in File, GetLockStatus(s, f)
      PROVE  Safe(s)
  <2>1. PICK p \in Resolve(f[1], f[2]) : lockOf' = [lockOf EXCEPT ![f[1]][p] = Nobody]
    BY <1>3 DEF GetLockStatus
  <2>2. \A v \in CellView, n \in Name : \A r \in Session :
           lockOf'[v][n] = r => lockOf[v][n] = r
    BY <2>1, NameAssumption DEF TypeInv, TypeOK
  <2>3. UNCHANGED <<session, paths, held, call>>
    BY <1>3 DEF GetLockStatus, memory
  <2>4. KeptOf(s)'
    BY <2>2, <2>3, StillKept
  <2> QED BY <2>2, <2>3, <2>4, NotEmptying DEF Safe, Others, RestOf, MayCall
<1> QED BY <1>2, <1>3 DEF Finds

\* The lock files that its caller has in the directory are among those left.
LEMMA RemoveSafe ==
    ASSUME TypeInv, LockInv, NEW s \in Session, NEW V \in SUBSET CellView,
           NEW at \in {"rmview", "rmcell"}, Remove(s, at, V)
    PROVE  Safe(s)
<1>1. /\ Moves(s) /\ call'[s].at = at /\ call'[s].of = V
      /\ call'[s].left = {x \in Entry : x.of \in V /\ There(x)}
  BY RemoveMoves
<1>2. UNCHANGED <<lockOf, session, paths, held>>
  BY DEF Remove, memory
<1>3. LeftOf(s)'
  <2> SUFFICES ASSUME NEW v \in V, NEW n \in Name, lockOf[v][n] = s
               PROVE  LockEntry(v, n) \in call'[s].left
    BY <1>1, <1>2 DEF LeftOf, Emptying
  <2>1. LockEntry(v, n) \in Entry /\ LockEntry(v, n).of = v
    BY DEF Entry, LockEntry
  <2>2. There(LockEntry(v, n))
    BY NameAssumption DEF There, LockEntry
  <2> QED BY <1>1, <2>1, <2>2
<1>4. Others(s) /\ RestOf(s)'
  BY <1>1, <1>2 DEF Others, Moves, RestOf
<1> QED BY <1>2, <1>3, <1>4 DEF Safe, LockInv, KeptOf

LEMMA DestroySafe ==
    ASSUME TypeInv, LockInv, NEW s \in Session, Destroys(s), MayCall(s)
    PROVE  Safe(s)
<1>1. ASSUME NEW c \in Cell, CellDestroy(s, c)
      PROVE  Safe(s)
  BY <1>1, RemoveSafe DEF CellDestroy
<1>2. ASSUME NEW v \in CellView, CellViewDestroy(s, v)
      PROVE  Safe(s)
  BY <1>2, RemoveSafe DEF CellViewDestroy
<1>3. ASSUME NEW f \in File, FileDestroy(s, f)
      PROVE  Safe(s)
  <2>1. PICK p \in BuildFilePath(s, f) : EnterFile(s, "rest", f, p)
    BY <1>3 DEF FileDestroy
  <2>2. p \in Name /\ f[1] \in CellView /\ f[2] \in Name /\ f = <<f[1], f[2]>>
    BY <2>1, FileType, BuildFilePathType DEF TypeInv
  <2>3. /\ Moves(s) /\ call'[s].of = {f[1]} /\ call'[s].at = "rest"
        /\ call'[s].name = f[2] /\ call'[s].path = p
    BY <2>1, <2>2, EnterMoves, IdleFields DEF EnterFile, Steps
  <2>4. TheFile(s)' = f
    BY <2>2, <2>3 DEF TheFile, TheView
  <2>5. paths[s][f] \in {NoName, p}
    BY BuiltIsKept
  <2>6. UNCHANGED <<lockOf, session, paths, held>>
    BY <1>3 DEF FileDestroy, memory
  <2>7. RestOf(s)'
    BY <2>3, <2>4, <2>5, <2>6 DEF RestOf
  <2> QED BY <2>3, <2>6, <2>7, NotEmptying DEF Safe, Others, LockInv, KeptOf, Moves
<1> QED BY <1>1, <1>2, <1>3 DEF Destroys

LEMMA LockSafe ==
    ASSUME TypeInv, LockInv, NEW s \in Session, Locks(s), MayCall(s)
    PROVE  Safe(s)
<1>0. /\ lockOf \in [CellView -> [Name -> Session \cup {Nobody}]]
      /\ paths \in [Session -> [File -> Name \cup {NoName}]]
      /\ held \in [Session -> SUBSET File]
  BY DEF TypeInv, TypeOK
<1>1. ASSUME NEW f \in File, Lock(s, f)
      PROVE  Safe(s)
  <2>1. PICK p \in BuildFilePath(s, f) :
           LET v == f[1]
               free == lockOf[v][p] = Nobody \/ IsStale(v, p)
           IN  /\ CacheFilePath(s, f, p)
               /\ lockOf' = IF free /\ v \in dirs
                              THEN [lockOf EXCEPT ![v][p] = s] ELSE lockOf
               /\ held' = IF (free /\ v \in dirs) \/ lockOf[v][p] = s
                            THEN [held EXCEPT ![s] = @ \cup {f}] ELSE held
    BY <1>1 DEF Lock
  <2>2. p \in Name /\ f[1] \in CellView /\ f[2] \in Name /\ f = <<f[1], f[2]>>
    BY <2>1, FileType, BuildFilePathType DEF TypeInv
  <2>3. UNCHANGED <<session, call>>
    BY <1>1 DEF Lock
  <2>4. /\ \A r \in Session \ {s} : held'[r] = held[r]
        /\ held[s] \subseteq held'[s]
    BY <1>0, <2>1
  <2>5. \A v \in CellView, n \in Name :
           \/ lockOf'[v][n] = lockOf[v][n]
           \/ v = f[1] /\ n = p /\ lockOf'[v][n] = s /\ f \in held'[s]
    BY <1>0, <2>1, <2>2
  <2>6. Others(s)
    BY <2>1, <2>3, <2>4, <2>5, KeepPath DEF Others
  <2>7. KeptOf(s)'
    <3> SUFFICES ASSUME session[s].is # "dead", NEW v \in CellView, NEW q \in Name,
                        lockOf'[v][q] = s
                 PROVE  \E n \in Name : <<v, n>> \in held'[s] /\ paths'[s][<<v, n>>] = q
      BY <2>3 DEF KeptOf
    <3>1. CASE lockOf[v][q] = s
      <4>1. PICK n \in Name : <<v, n>> \in held[s] /\ paths[s][<<v, n>>] = q
        BY <3>1 DEF LockInv, KeptOf
      <4>2. <<v, n>> \in File /\ q # NoName
        BY NameAssumption DEF File
      <4> QED BY <2>1, <2>4, <4>1, <4>2, KeepPath
    <3>2. CASE lockOf[v][q] # s
      <4>1. v = f[1] /\ q = p /\ f \in held'[s]
        BY <2>5, <3>2
      <4>2. paths'[s][f] = p
        BY <2>1, KeepPath
      <4> QED BY <2>2, <4>1, <4>2
    <3> QED BY <3>1, <3>2
  <2> QED BY <2>3, <2>6, <2>7, NotEmptying DEF Safe, RestOf, MayCall
<1>2. ASSUME NEW f \in File, Unlock(s, f)
      PROVE  Safe(s)
  <2>1. PICK p \in BuildFilePath(s, f) :
           lockOf' = IF lockOf[f[1]][p] = s
                       THEN [lockOf EXCEPT ![f[1]][p] = Nobody] ELSE lockOf
    BY <1>2 DEF Unlock
  <2>2. p \in Name /\ f[1] \in CellView /\ f[2] \in Name /\ f = <<f[1], f[2]>>
    BY <2>1, FileType, BuildFilePathType DEF TypeInv
  <2>3. /\ UNCHANGED <<session, paths, call>>
        /\ held' = [held EXCEPT ![s] = @ \ {f}]
    BY <1>2 DEF Unlock
  <2>4. \A v \in CellView, n \in Name :
           \/ lockOf'[v][n] = lockOf[v][n] /\ (v = f[1] /\ n = p => lockOf[v][n] # s)
           \/ lockOf'[v][n] = Nobody
    BY <1>0, <2>1, <2>2
  <2>5. /\ \A r \in Session \ {s} : held'[r] = held[r]
        /\ held'[s] = held[s] \ {f}
    BY <1>0, <2>3
  <2>6. Others(s)
    BY <2>3, <2>4, <2>5, NameAssumption DEF Others
  <2>7. KeptOf(s)'
    <3> SUFFICES ASSUME session[s].is # "dead", NEW v \in CellView, NEW q \in Name,
                        lockOf'[v][q] = s
                 PROVE  \E n \in Name : <<v, n>> \in held'[s] /\ paths'[s][<<v, n>>] = q
      BY <2>3 DEF KeptOf
    <3>1. lockOf[v][q] = s /\ ~(v = f[1] /\ q = p)
      BY <2>4, NameAssumption
    <3>2. PICK n \in Name : <<v, n>> \in held[s] /\ paths[s][<<v, n>>] = q
      BY <3>1 DEF LockInv, KeptOf
    <3>3. q # NoName /\ paths[s][f] \in {NoName, p}
      BY NameAssumption, BuiltIsKept
    <3>4. <<v, n>> # f
      BY <2>2, <3>1, <3>2, <3>3
    <3> QED BY <2>3, <2>5, <3>2, <3>4
  <2> QED BY <2>3, <2>6, <2>7, NotEmptying DEF Safe, RestOf, MayCall
<1> QED BY <1>1, <1>2 DEF Locks

\* One entry goes; it is the lock file of one path, or none.
LEMMA UnlinkSafe ==
    ASSUME TypeInv, LockInv, NEW s \in Session, NEW x \in Entry, Unlink(s, x)
    PROVE  Safe(s)
<1>0. lockOf \in [CellView -> [Name -> Session \cup {Nobody}]]
  BY DEF TypeInv, TypeOK
<1>1. /\ Moves(s) /\ call'[s].at = call[s].at /\ call'[s].of = call[s].of
      /\ call'[s].left = call[s].left \ {x}
  BY UnlinkMoves
<1>2. UNCHANGED <<session, paths, held>> /\ call[s].at # "rest"
  BY DEF Unlink, memory, Emptying
<1>3. \A v \in CellView, n \in Name :
         \/ lockOf'[v][n] = lockOf[v][n] /\ LockEntry(v, n) # x
         \/ lockOf'[v][n] = Nobody
  <2> SUFFICES ASSUME NEW v \in CellView, NEW n \in Name
               PROVE  \/ lockOf'[v][n] = lockOf[v][n] /\ LockEntry(v, n) # x
                      \/ lockOf'[v][n] = Nobody
    OBVIOUS
  <2>1. x.of \in CellView /\ x.name \in Name
    BY EntryFields
  <2>2. LockEntry(v, n) = x => x.is = "lock" /\ x.of = v /\ x.name = n
    BY DEF LockEntry
  <2>3. CASE x.is = "lock"
    <3>1. lockOf' = [lockOf EXCEPT ![x.of][x.name] = Nobody]
      BY <2>3 DEF Unlink
    <3> QED BY <1>0, <2>1, <2>2, <3>1
  <2>4. CASE x.is # "lock"
    BY <2>2, <2>4 DEF Unlink
  <2> QED BY <2>3, <2>4
<1>4. Others(s)
  BY <1>1, <1>2, <1>3, NameAssumption DEF Others, Moves
<1>5. KeptOf(s)'
  BY <1>2, <1>3, NameAssumption DEF LockInv, KeptOf
<1>6. LeftOf(s)'
  BY <1>1, <1>2, <1>3, NameAssumption DEF LockInv, LeftOf, Emptying, IsOpen
<1> QED BY <1>1, <1>2, <1>4, <1>5, <1>6 DEF Safe, RestOf

\* With the entries gone, no lock of the caller is in the directories.
LEMMA ForgetSafe ==
    ASSUME TypeInv, LockInv, NEW s \in Session, CellViewRemoved(s) \/ RemoveCell(s)
    PROVE  Safe(s)
<1>0. /\ paths \in [Session -> [File -> Name \cup {NoName}]]
      /\ held \in [Session -> SUBSET File]
  BY DEF TypeInv, TypeOK
<1>1. /\ UNCHANGED <<lockOf, session>> /\ Forget(s) /\ Return(s)
      /\ call[s].left = {} /\ IsOpen(s) /\ call[s].at \in {"rmview", "rmcell"}
  BY DEF CellViewRemoved, RemoveCell, In
<1>2. \A v \in CellView, n \in Name : v \in call[s].of => lockOf[v][n] # s
  BY <1>1 DEF LockInv, LeftOf, Emptying
<1>3. CallGets(s, "idle")
  BY <1>1, CallAt DEF CallGets
<1>4. /\ \A r \in Session \ {s} : paths'[r] = paths[r] /\ held'[r] = held[r]
      /\ \A f \in File : f[1] \notin call[s].of =>
            paths'[s][f] = paths[s][f] /\ (f \in held[s] => f \in held'[s])
  <2>1. PICK forgotten \in SUBSET {f \in File : f[1] \in call[s].of} :
           paths' = [paths EXCEPT ![s] = [f \in File |->
                       IF f \in forgotten THEN NoName ELSE @[f]]]
    BY <1>1 DEF Forget
  <2>2. held' = [held EXCEPT ![s] = @ \ {f \in File : f[1] \in call[s].of}]
    BY <1>1 DEF Forget
  <2> QED BY <1>0, <2>1, <2>2
<1>5. Others(s)
  BY <1>1, <1>3, <1>4 DEF Others, CallGets
<1>6. KeptOf(s)'
  <2> SUFFICES ASSUME session[s].is # "dead", NEW v \in CellView, NEW p \in Name,
                      lockOf[v][p] = s
               PROVE  \E n \in Name : <<v, n>> \in held'[s] /\ paths'[s][<<v, n>>] = p
    BY <1>1 DEF KeptOf
  <2>1. PICK n \in Name : <<v, n>> \in held[s] /\ paths[s][<<v, n>>] = p
    BY DEF LockInv, KeptOf
  <2>2. <<v, n>> \in File /\ v \notin call[s].of
    BY <1>2 DEF File
  <2> QED BY <1>4, <2>1, <2>2
<1> QED BY <1>3, <1>5, <1>6, NotEmptying DEF Safe, RestOf, CallGets

LEMMA ContinueSafe ==
    ASSUME TypeInv, LockInv, NEW s \in Session, Continue(s)
    PROVE  Safe(s)
<1>0. /\ lockOf \in [CellView -> [Name -> Session \cup {Nobody}]]
      /\ paths \in [Session -> [File -> Name \cup {NoName}]]
      /\ held \in [Session -> SUBSET File]
  BY DEF TypeInv, TypeOK
<1>1. CASE DestroyRest(s)
  <2>1. /\ TheView(s) \in CellView /\ call[s].path \in Name /\ TheFile(s) \in File
        /\ TheFile(s) = <<TheView(s), call[s].name>> /\ call[s].at = "rest"
    BY <1>1, InView DEF DestroyRest, OneView, CallRecord, In
  <2>2. CallGets(s, "idle")
    BY <1>1, CallAt DEF DestroyRest, CallGets
  <2>3. paths[s][TheFile(s)] \in {NoName, call[s].path}
    BY <2>1 DEF LockInv, RestOf
  <2>4. UNCHANGED session
    BY <1>1 DEF DestroyRest
  <2>5. /\ \A v \in CellView, n \in Name :
              \/ /\ lockOf'[v][n] = lockOf[v][n]
                 /\ ~(v = TheView(s) /\ n = call[s].path)
              \/ lockOf'[v][n] = Nobody
        /\ \A r \in Session \ {s} : paths'[r] = paths[r] /\ held'[r] = held[r]
        /\ \A f \in File \ {TheFile(s)} : paths'[s][f] = paths[s][f]
        /\ held'[s] = held[s] \ {TheFile(s)}
    BY <1>0, <1>1, <2>1 DEF DestroyRest
  <2>6. Others(s)
    BY <2>2, <2>4, <2>5, NameAssumption DEF Others, CallGets
  <2>7. KeptOf(s)'
    <3> SUFFICES ASSUME session[s].is # "dead", NEW v \in CellView, NEW q \in Name,
                        lockOf'[v][q] = s
                 PROVE  \E n \in Name : <<v, n>> \in held'[s] /\ paths'[s][<<v, n>>] = q
      BY <2>4 DEF KeptOf
    <3>1. lockOf[v][q] = s /\ ~(v = TheView(s) /\ q = call[s].path)
      BY <2>5, NameAssumption
    <3>2. PICK n \in Name : <<v, n>> \in held[s] /\ paths[s][<<v, n>>] = q
      BY <3>1 DEF LockInv, KeptOf
    <3>3. <<v, n>> \in File /\ q # NoName
      BY NameAssumption DEF File
    <3>4. <<v, n>> # TheFile(s)
      BY <2>1, <2>3, <3>1, <3>2, <3>3
    <3> QED BY <2>5, <3>2, <3>3, <3>4
  <2> QED BY <2>2, <2>6, <2>7, NotEmptying DEF Safe, RestOf, CallGets
<1>2. ASSUME NEW x \in Entry, Unlink(s, x)
      PROVE  Safe(s)
  BY <1>2, UnlinkSafe
<1>3. CASE CellViewRemoved(s) \/ RemoveCell(s)
  BY <1>3, ForgetSafe
<1>4. CASE \/ TruncateTag(s) \/ WriteTag(s) \/ CreateFile(s) \/ Link(s)
           \/ LinkFails(s) \/ CopyFrom(s) \/ CopyTo(s) \/ Pour(s)
  <2>1. UNCHANGED <<lockOf, session, paths, held>>
    BY <1>4 DEF TruncateTag, WriteTag, CreateFile, Link, LinkFails, CopyFrom,
       CopyTo, Pour, memory
  <2>2. \E i, j : \/ Return(s) \/ GoTo(s, "write", i, j) \/ GoTo(s, "copy", i, j)
                 \/ GoTo(s, "fill", i, j) \/ GoTo(s, "pour", i, j)
    BY <1>4 DEF TruncateTag, WriteTag, CreateFile, Link, LinkFails, CopyFrom,
       CopyTo, Pour
  <2>3. \E at \in {"idle", "write", "copy", "fill", "pour"} : CallGets(s, at)
    BY <2>2, CallAt DEF CallGets
  <2> QED BY <2>1, <2>3, QuietSafe DEF CallGets
<1> QED BY <1>1, <1>2, <1>3, <1>4 DEF Continue

LEMMA NextSafe == TypeInv /\ LockInv /\ ClosedIdle /\ [Next]_vars => LockInv'
<1>1. ASSUME TypeInv, LockInv, NEW s \in Session, Begin(s)
      PROVE  Safe(s)
  BY <1>1, CreateSafe, FindSafe, DestroySafe, LockSafe, CacheSafe DEF Begin
<1>2. ASSUME LockInv, UNCHANGED vars
      PROVE  LockInv'
  BY <1>2 DEF vars, memory, LockInv, KeptOf, RestOf, LeftOf, Emptying, IsOpen,
     TheFile, TheView
<1>3. ASSUME TypeInv, LockInv, ClosedIdle, Next
      PROVE  \E s \in Session : Safe(s)
  BY <1>1, <1>3, SessionSafe, ContinueSafe DEF Next
<1> QED BY <1>2, <1>3, SafeStep

LEMMA InitSafe == Init => LockInv
<1> SUFFICES ASSUME Init, NEW s \in Session PROVE KeptOf(s) /\ RestOf(s) /\ LeftOf(s)
  BY DEF LockInv
<1>1. \A v \in CellView, p \in Name : lockOf[v][p] = Nobody
  BY DEF Init, Unlocked
<1>2. call[s].at = "idle"
  BY IdleType DEF Init
<1> QED BY <1>1, <1>2, NameAssumption DEF KeptOf, RestOf, LeftOf

\* A lock file of a process that is there is that of a file whose caller has
\* the lock, under the path that unlock goes by: a path is kept from lock to
\* unlock, and the file whose path is forgotten has lost its lock file.
THEOREM LocksAreFound == Spec => []NoOrphanLock
<1>1. TypeInv /\ ClosedIdle /\ LockInv /\ [Next]_vars => LockInv'
  BY NextSafe
<1>2. LockInv => NoOrphanLock
  BY KeptIsFound
<1> QED BY <1>1, <1>2, InitSafe, BaseInvariant, PTL DEF Spec

-----------------------------------------------------------------------------
(* The cache of a file.  CacheInv is about the cell views in which no two   *)
(* calls have met: there at most one process is making a cache, for a file  *)
(* that stays, and what the cache contains is in a file until a call that   *)
(* removes both begins.                                                     *)

OneCacher(v) == \A s, t \in Session : Caching(s, v) /\ Caching(t, v) => s = t

CacherOK(s, v) ==
    Caching(s, v) =>
       /\ call[s].at # "pour" => oacache[v] = 0
       /\ call[s].at \in {"fill", "pour"} => file[v][call[s].path] = call[s].from
       /\ call[s].at = "pour" => /\ oacache[v] \in {0, call[s].to}
                                 /\ \A n \in Name : file[v][n] # call[s].to

EmptierOK(s, v) ==
    Emptying(s, v) => /\ \A r \in Session : ~Caching(r, v)
                      /\ oacache[v] # 0 => CacheOf(v) \in call[s].left

Originals(v) == \A n \in Name : file[v][n] # 0 => content[file[v][n]] = file[v][n]

HasFile(v) == \E n \in Name : /\ file[v][n] # 0
                             /\ content[file[v][n]] = content[oacache[v]]

CacheFound(v) == oacache[v] # 0 /\ ~Unfinished(v) => HasFile(v)

ViewOK(v) == /\ OneCacher(v)
             /\ \A s \in Session : CacherOK(s, v) /\ EmptierOK(s, v)
             /\ Originals(v) /\ CacheFound(v)

ViewInv == \A v \in CellView : v \notin raced => ViewOK(v)

\* No inode is in two directories, and what a copy writes to is in no other.
Uses(v, i) == oacache[v] = i \/ \E n \in Name : file[v][n] = i

PourOK(s) == IsOpen(s) /\ call[s].at = "pour" =>
                /\ call[s].to <= next
                /\ \A w \in CellView : Uses(w, call[s].to) => w \in call[s].of

InodeInv == /\ \A v \in CellView, i \in 1 .. MaxInode :
                  Uses(v, i) => i <= next /\ \A w \in CellView : Uses(w, i) => w = v
            /\ \A s \in Session : PourOK(s)

CacheInv == ViewInv /\ InodeInv

\* In v nobody begins to cache or to empty, nor goes on, except that an entry
\* other than the cache is removed.
Calm(v) == \A r \in Session :
              /\ Caching(r, v)' => Caching(r, v) /\ call'[r] = call[r]
              /\ Emptying(r, v)' =>
                    /\ Emptying(r, v)
                    /\ CacheOf(v) \in call[r].left => CacheOf(v) \in call'[r].left

\* A call that leaves the cache without a file for a while is still going on.
Goes(v) == Unfinished(v) => Unfinished(v)'

\* The call of s that does.
Covers(s, v) == /\ v \in call[s].of
                /\ \/ call[s].at = "rest"
                   \/ /\ call[s].at \in {"rmview", "rmcell"}
                      /\ CacheOf(v) \in call[s].left
                   \/ call[s].at = "pour" /\ call[s].to = oacache[v]

LEMMA SomeCovers == \A v \in CellView : Unfinished(v) <=> \E s \in Session : Covers(s, v)
BY DEF Unfinished, Covers

\* A step of s after which s is neither caching nor emptying v.
LEMMA CalmStep ==
    ASSUME NEW s \in Session, Alone(s), NEW v \in CellView,
           ~Caching(s, v)', ~Emptying(s, v)'
    PROVE  Calm(v)
BY DEF Calm, Alone, Caching, Emptying, IsOpen

LEMMA GoesStep ==
    ASSUME NEW s \in Session, Alone(s), NEW v \in CellView,
           oacache'[v] = oacache[v], Covers(s, v) => Covers(s, v)'
    PROVE  Goes(v)
BY SomeCovers DEF Goes, Unfinished, Alone, Covers

\* The call of s is none of those that matter.
Plainly(c) == c.at \in {"idle", "truncate", "write", "create"}

LEMMA PlainStep ==
    ASSUME NEW s \in Session, Alone(s), NEW v \in CellView,
           oacache'[v] = oacache[v], ~Covers(s, v), Plainly(call'[s])
    PROVE  Calm(v) /\ Goes(v)
<1>1. ~Caching(s, v)' /\ ~Emptying(s, v)'
  BY DEF Plainly, Caching, Emptying
<1> QED BY <1>1, CalmStep, GoesStep

\* A view whose files, cache and contents are left alone.
LEMMA OtherView ==
    ASSUME TypeInv, NEW v \in CellView, ViewOK(v), Calm(v), Goes(v),
           file'[v] = file[v], oacache'[v] = oacache[v],
           \A i \in 1 .. MaxInode : Uses(v, i) => content'[i] = content[i]
    PROVE  ViewOK(v)'
<1>1. /\ file[v] \in [Name -> 0 .. MaxInode] /\ oacache[v] \in 0 .. MaxInode
      /\ MaxInode \in Nat
  BY NameAssumption DEF TypeInv, TypeOK
<1>2. \A n \in Name : file[v][n] # 0 => content'[file[v][n]] = content[file[v][n]]
  BY <1>1 DEF Uses
<1>3. oacache[v] # 0 => content'[oacache[v]] = content[oacache[v]]
  BY <1>1 DEF Uses
<1>4. OneCacher(v)'
  BY DEF ViewOK, OneCacher, Calm
<1>5. ASSUME NEW r \in Session
      PROVE  CacherOK(r, v)' /\ EmptierOK(r, v)'
  <2>1. CacherOK(r, v)'
    BY DEF ViewOK, CacherOK, Calm
  <2>2. EmptierOK(r, v)'
    BY DEF ViewOK, EmptierOK, Calm
  <2> QED BY <2>1, <2>2
<1>6. Originals(v)'
  BY <1>2 DEF ViewOK, Originals
<1>7. CacheFound(v)'
  BY <1>2, <1>3 DEF ViewOK, CacheFound, HasFile, Goes
<1> QED BY <1>4, <1>5, <1>6, <1>7 DEF ViewOK

LEMMA NextType == TypeInv => next \in Nat /\ MaxInode \in Nat
BY NameAssumption DEF TypeInv, TypeOK

\* At most one new inode, in one view, and no inode moves to another view.
LEMMA InodeStep ==
    ASSUME TypeInv, InodeInv, NEW v \in CellView, next' \in {next, next + 1},
           \A w \in CellView : w # v => file'[w] = file[w] /\ oacache'[w] = oacache[w],
           \A i \in 1 .. MaxInode :
              Uses(v, i)' => Uses(v, i) \/ (i = next + 1 /\ next' = next + 1),
           NEW s \in Session, Alone(s), PourOK(s)'
    PROVE  InodeInv'
<1>0. next \in Nat
  BY NextType
<1>1. \A x \in CellView, i \in 1 .. MaxInode : Uses(x, i)' =>
          Uses(x, i) \/ (x = v /\ i = next + 1 /\ next' = next + 1)
  BY DEF Uses
<1>2. ASSUME NEW w \in CellView, NEW i \in 1 .. MaxInode, Uses(w, i)'
      PROVE  i <= next' /\ \A x \in CellView : Uses(x, i)' => x = w
  <2>1. \A x \in CellView : Uses(x, i) => i <= next
    BY DEF InodeInv
  <2> QED BY <1>0, <1>1, <1>2, <2>1 DEF InodeInv
<1>3. ASSUME NEW r \in Session \ {s}
      PROVE  PourOK(r)'
  <2> SUFFICES ASSUME IsOpen(r), call[r].at = "pour"
               PROVE  PourOK(r)'
    BY DEF PourOK, Alone, IsOpen
  <2>1. PICK j \in 1 .. MaxInode : j = call[r].to
    BY DEF TypeInv, CallOK
  <2>2. j <= next /\ \A w \in CellView : Uses(w, j) => w \in call[r].of
    BY <2>1 DEF InodeInv, PourOK
  <2>3. j <= next' /\ \A w \in CellView : Uses(w, j)' => w \in call[r].of
    BY <1>0, <1>1, <2>2
  <2> QED BY <2>1, <2>3 DEF PourOK, Alone, Uses
<1> QED BY <1>2, <1>3 DEF InodeInv

\* After most steps s is not about to write to a cache.
LEMMA NotPouring ==
    ASSUME NEW s \in Session, (~IsOpen(s) \/ call[s].at # "pour")'
    PROVE  PourOK(s)'
BY DEF PourOK

\* A step that leaves files, caches and contents alone.
LEMMA QuietCache ==
    ASSUME TypeInv, CacheInv, NEW s \in Session, Alone(s), PourOK(s)',
           UNCHANGED <<file, oacache, content, next>>, raced \subseteq raced',
           \A v \in CellView : v \notin raced' => ViewOK(v)' \/ (Calm(v) /\ Goes(v))
    PROVE  CacheInv'
<1>1. ViewInv'
  BY OtherView DEF CacheInv, ViewInv
<1>2. InodeInv'
  <2>1. \A v \in CellView, i \in 1 .. MaxInode : Uses(v, i)' <=> Uses(v, i)
    BY DEF Uses
  <2>2. \A r \in Session \ {s} : PourOK(r)'
    BY DEF CacheInv, InodeInv, PourOK, Alone, IsOpen, Uses
  <2> QED BY <2>1, <2>2 DEF CacheInv, InodeInv
<1> QED BY <1>1, <1>2 DEF CacheInv

\* Inodes that are in use have been created.
LEMMA UsedInodes ==
    ASSUME TypeInv, InodeInv, NEW v \in CellView
    PROVE  \A i \in 1 .. MaxInode : Uses(v, i) => i # next + 1
BY NextType DEF InodeInv

-----------------------------------------------------------------------------
(* The steps that make and remove files and caches.                         *)

LEMMA OpenCloseCache ==
    ASSUME TypeInv, CacheInv, ClosedIdle, NEW s \in Session, Alone(s),
           Open(s) \/ LibPreClose(s) \/ Crash(s)
    PROVE  CacheInv'
<1>0. MemoryType
  BY Parts
<1>1. UNCHANGED <<file, oacache, content, next, raced>>
  BY DEF Open, LibPreClose, Crash, disk
<1>2. CASE Open(s) \/ LibPreClose(s)
  <2>1. call[s].at = "idle" /\ UNCHANGED call
    BY <1>2 DEF Open, LibPreClose, MayCall, ClosedIdle
  <2>2. \A v \in CellView : Calm(v) /\ Goes(v)
    BY <1>1, <2>1, PlainStep DEF Plainly, Covers
  <2> QED BY <1>1, <2>1, <2>2, NotPouring, QuietCache
<1>3. CASE Crash(s)
  <2>1. session'[s].is = "dead"
    BY <1>0, <1>3, BecomeType DEF Crash
  <2>2. ~IsOpen(s)'
    BY <2>1 DEF IsOpen
  <2>3. \A v \in CellView : Calm(v)
    BY <2>2, CalmStep DEF Caching, Emptying
  <2>4. \A v \in CellView : Covers(s, v) => Covers(s, v)'
    BY <1>1, <1>3 DEF Crash, Covers
  <2>5. \A v \in CellView : Goes(v)
    BY <1>1, <2>4, GoesStep
  <2> QED BY <1>1, <2>2, <2>3, <2>5, NotPouring, QuietCache
<1> QED BY <1>2, <1>3

\* Calls that do not touch files and caches, and steps of them.
LEMMA PlainCache ==
    ASSUME TypeInv, CacheInv, NEW s \in Session, Alone(s),
           \/ MayCall(s) /\ (Creates(s) \/ Finds(s) \/ Locks(s))
           \/ TruncateTag(s) \/ WriteTag(s) \/ CellViewRemoved(s) \/ RemoveCell(s)
    PROVE  CacheInv'
<1>1. /\ UNCHANGED <<file, oacache, content, next>> /\ raced \subseteq raced'
  BY DEF Creates, Finds, Locks, CellCreate, CellViewCreate, FileCreate,
     GetPath, GetLockStatus, Lock, Unlock, TruncateTag, WriteTag,
     CellViewRemoved, RemoveCell, disk, Overlaps
<1>2. \/ call[s].at \in {"idle", "truncate", "write"}
      \/ call[s].at \in {"rmview", "rmcell"} /\ call[s].left = {}
  BY DEF MayCall, TruncateTag, WriteTag, CellViewRemoved, RemoveCell, In
<1>3. (call'[s] = call[s] /\ MayCall(s)) \/ Plainly(call'[s])
  BY CallAt DEF Creates, Finds, Locks, CellCreate, CellViewCreate, FileCreate,
     GetPath, GetLockStatus, Lock, Unlock, TruncateTag, WriteTag,
     CellViewRemoved, RemoveCell, EnterView, EnterFile, Plainly
<1>4. Plainly(call'[s])
  BY <1>3 DEF Plainly, MayCall
<1>5. \A v \in CellView : ~Covers(s, v)
  BY <1>2 DEF Covers
<1>6. \A v \in CellView : Calm(v) /\ Goes(v)
  BY <1>1, <1>4, <1>5, PlainStep
<1>7. PourOK(s)'
  BY <1>4, NotPouring DEF Plainly
<1> QED BY <1>1, <1>6, <1>7, QuietCache

\* Nobody is caching a file of a view in which files are removed, or v is raced.
LEMMA NotRaced ==
    ASSUME NEW V \in SUBSET CellView, Overlaps(V), NEW v \in V, v \notin raced'
    PROVE  \A r \in Session : ~Caching(r, v)
BY DEF Overlaps

\* A call that removes a directory begins: the cache that is there is among the
\* entries that are left, and nobody is making another.
LEMMA RemoveCache ==
    ASSUME TypeInv, CacheInv, NEW s \in Session, Alone(s),
           NEW at \in {"rmview", "rmcell"}, NEW V \in SUBSET CellView, Remove(s, at, V)
    PROVE  CacheInv'
<1>1. /\ call[s].at = "idle" /\ call'[s].at = at /\ call'[s].of = V
      /\ call'[s].left = {x \in Entry : x.of \in V /\ There(x)}
  BY RemoveMoves DEF Remove, MayCall
<1>2. /\ UNCHANGED <<file, oacache, content, next>> /\ Overlaps(V)
      /\ raced \subseteq raced'
  BY DEF Remove, disk, Overlaps
<1>3. \A v \in CellView : Goes(v)
  BY <1>1, <1>2, GoesStep DEF Covers
<1>4. \A v \in CellView \ V : Calm(v)
  BY <1>1, CalmStep DEF Caching, Emptying
<1>5. ASSUME NEW v \in V, v \notin raced'
      PROVE  ViewOK(v)'
  <2>1. ViewOK(v)
    BY <1>2, <1>5 DEF CacheInv, ViewInv
  <2>2. \A r \in Session : ~Caching(r, v)'
    BY <1>1, <1>2, <1>5, NotRaced DEF Caching, IsOpen, Alone
  <2>3. ASSUME NEW r \in Session
        PROVE  EmptierOK(r, v)'
    <3>1. CASE r = s
      <4>1. oacache[v] # 0 => There(CacheOf(v))
        BY DEF There, CacheOf
      <4>2. CacheOf(v) \in Entry /\ CacheOf(v).of = v
        BY CacheEntry
      <4> QED BY <1>1, <1>2, <2>2, <3>1, <4>1, <4>2 DEF EmptierOK
    <3>2. CASE r # s
      BY <1>2, <2>1, <2>2, <3>2 DEF ViewOK, EmptierOK, Emptying, IsOpen, Alone
    <3> QED BY <3>1, <3>2
  <2>4. Goes(v)
    BY <1>3
  <2>5. Originals(v)' /\ CacheFound(v)'
    BY <1>2, <2>1, <2>4 DEF ViewOK, Originals, CacheFound, HasFile, Goes
  <2> QED BY <2>2, <2>3, <2>5 DEF ViewOK, OneCacher, CacherOK
<1>6. PourOK(s)'
  BY <1>1, NotPouring
<1> QED BY <1>2, <1>3, <1>4, <1>5, <1>6, QuietCache

LEMMA FileDestroyCache ==
    ASSUME TypeInv, CacheInv, NEW s \in Session, Alone(s),
           NEW f \in File, FileDestroy(s, f)
    PROVE  CacheInv'
<1>0. PICK v \in CellView : v = f[1]
  BY FileType
<1>1. PICK p \in Name : /\ file' = [file EXCEPT ![v][p] = 0]
                        /\ EnterFile(s, "rest", f, p)
  <2>1. PICK p \in BuildFilePath(s, f) : /\ file' = [file EXCEPT ![f[1]][p] = 0]
                                        /\ EnterFile(s, "rest", f, p)
    BY DEF FileDestroy
  <2>2. p \in Name
    BY BuildFilePathType DEF TypeInv
  <2> QED BY <1>0, <2>1, <2>2
<1>2. /\ UNCHANGED <<oacache, content, next>> /\ Overlaps({v})
      /\ call[s].at = "idle" /\ raced \subseteq raced'
  BY <1>0 DEF FileDestroy, MayCall, Overlaps
<1>3. call'[s].at = "rest" /\ v \in call'[s].of
  <2>1. f[2] \in Name
    BY FileType
  <2> QED BY <1>0, <1>1, <2>1, EnterMoves, IdleFields DEF EnterFile, Steps
<1>4. \A w \in CellView : Calm(w) /\ Goes(w)
  <2>1. \A w \in CellView : ~Caching(s, w)' /\ ~Emptying(s, w)' /\ ~Covers(s, w)
    BY <1>2, <1>3 DEF Caching, Emptying, Covers
  <2> QED BY <1>2, <2>1, CalmStep, GoesStep
<1>5. /\ \A w \in CellView \ {v} : file'[w] = file[w]
      /\ \A n \in Name : file'[v][n] \in {file[v][n], 0}
  BY <1>0, <1>1 DEF TypeInv, TypeOK
<1>6. ASSUME NEW w \in CellView \ {v}, w \notin raced'
      PROVE  ViewOK(w)'
  BY <1>2, <1>4, <1>5, <1>6, OtherView DEF CacheInv, ViewInv
<1>7. ASSUME v \notin raced'
      PROVE  ViewOK(v)'
  <2>1. Unfinished(v)'
    BY <1>3 DEF Unfinished
  <2>2. ViewOK(v) /\ Calm(v)
    BY <1>2, <1>4, <1>7 DEF CacheInv, ViewInv
  <2>3. \A r \in Session : ~Caching(r, v)'
    BY <1>0, <1>2, <1>7, <2>2, NotRaced DEF Calm
  <2>4. \A r \in Session : EmptierOK(r, v)'
    BY <1>2, <2>2, <2>3 DEF ViewOK, EmptierOK, Calm
  <2>5. Originals(v)'
    BY <1>2, <1>5, <2>2 DEF ViewOK, Originals
  <2> QED BY <2>1, <2>3, <2>4, <2>5 DEF ViewOK, OneCacher, CacherOK, CacheFound
<1>8. InodeInv'
  <2>1. \A i \in 1 .. MaxInode : Uses(v, i)' => Uses(v, i)
    BY <1>2, <1>5 DEF Uses
  <2>2. PourOK(s)'
    BY <1>3, NotPouring
  <2> QED BY <1>2, <1>5, <2>1, <2>2, InodeStep DEF CacheInv
<1> QED BY <1>6, <1>7, <1>8 DEF ViewInv, CacheInv

LEMMA CreateFileCache ==
    ASSUME TypeInv, CacheInv, NEW s \in Session, Alone(s), CreateFile(s)
    PROVE  CacheInv'
<1>0. PICK v \in CellView, p \in Name :
          v = TheView(s) /\ p = call[s].path /\ call[s].at = "create"
  BY InView DEF CreateFile, OneView, CallRecord, In
<1>1. /\ UNCHANGED <<oacache, raced>>
      /\ call'[s].at = "idle"
      /\ \/ /\ file[v][p] = 0 /\ next < MaxInode /\ next' = next + 1
            /\ content' = [content EXCEPT ![next + 1] = next + 1]
            /\ file' = [file EXCEPT ![v][p] = next + 1]
         \/ UNCHANGED <<file, content, next>>
  BY <1>0, CallAt DEF CreateFile, NewInode
<1>2. (\A w \in CellView : Calm(w) /\ Goes(w)) /\ PourOK(s)'
  BY <1>0, <1>1, PlainStep, NotPouring DEF Plainly, Covers
<1>3. CASE UNCHANGED <<file, content, next>>
  BY <1>1, <1>2, <1>3, QuietCache
<1>4. CASE ~UNCHANGED <<file, content, next>>
  <2>1. /\ next \in Nat /\ MaxInode \in Nat /\ next + 1 \in 1 .. MaxInode
        /\ next' = next + 1
        /\ content \in [1 .. MaxInode -> 0 .. MaxInode]
        /\ content' = [content EXCEPT ![next + 1] = next + 1]
        /\ file[v][p] = 0
    BY <1>1, <1>4, NextType DEF TypeInv, TypeOK
  <2>2. /\ \A w \in CellView \ {v} : file'[w] = file[w]
        /\ \A n \in Name \ {p} : file'[v][n] = file[v][n]
        /\ file'[v][p] = next + 1
    BY <1>0, <1>1, <1>4 DEF TypeInv, TypeOK
  <2>3. \A w \in CellView, i \in 1 .. MaxInode : Uses(w, i) => content'[i] = content[i]
    BY <2>1, UsedInodes DEF CacheInv
  <2>4. ASSUME NEW w \in CellView \ {v}, w \notin raced
        PROVE  ViewOK(w)'
    BY <1>1, <1>2, <2>2, <2>3, <2>4, OtherView DEF CacheInv, ViewInv
  <2>5. ASSUME v \notin raced
        PROVE  ViewOK(v)'
    <3>1. ViewOK(v) /\ Calm(v) /\ Goes(v) /\ oacache' = oacache
      BY <1>0, <1>1, <1>2, <2>5 DEF CacheInv, ViewInv
    <3>2. /\ file[v] \in [Name -> 0 .. MaxInode] /\ oacache[v] \in 0 .. MaxInode
      BY <1>0 DEF TypeInv, TypeOK
    <3>3. \A n \in Name : file[v][n] # 0 =>
             /\ file'[v][n] = file[v][n]
             /\ content'[file[v][n]] = content[file[v][n]]
      BY <1>0, <2>1, <2>2, <2>3, <3>2 DEF Uses
    <3>4. oacache[v] # 0 => content'[oacache[v]] = content[oacache[v]]
      BY <1>0, <2>1, <2>3, <3>2 DEF Uses
    <3>5. OneCacher(v)'
      BY <3>1 DEF ViewOK, OneCacher, Calm
    <3>6. ASSUME NEW r \in Session
          PROVE  CacherOK(r, v)' /\ EmptierOK(r, v)'
      <4>1. EmptierOK(r, v)'
        BY <3>1 DEF ViewOK, EmptierOK, Calm
      <4>2. ASSUME Caching(r, v)'
            PROVE  CacherOK(r, v)'
        <5>1. /\ Caching(r, v) /\ call'[r] = call[r] /\ call[r] \in CallRecord
              /\ CacherOK(r, v)
          BY <3>1, <4>2 DEF Calm, TypeInv, TypeOK, ViewOK
        <5>2. call[r].at \in {"fill", "pour"} =>
                 /\ call[r].from # 0 /\ call[r].path \in Name
                 /\ file'[v][call[r].path] = call[r].from
          BY <2>1, <3>3, <5>1 DEF CacherOK, TypeInv, CallOK, CallRecord
        <5>3. call[r].at = "pour" => call[r].to # next + 1
          BY <2>1, <5>1 DEF CacheInv, InodeInv, PourOK, Caching, CallRecord
        <5> QED BY <2>2, <3>1, <5>1, <5>2, <5>3 DEF CacherOK
      <4>3. ~Caching(r, v)' => CacherOK(r, v)'
        BY DEF CacherOK
      <4> QED BY <4>1, <4>2, <4>3
    <3>7. Originals(v)'
      <4> SUFFICES ASSUME NEW n \in Name, file'[v][n] # 0
                   PROVE  content'[file'[v][n]] = file'[v][n]
        BY DEF Originals
      <4>1. CASE n = p
        BY <2>1, <2>2, <4>1
      <4>2. CASE n # p
        BY <2>2, <3>1, <3>3, <4>2 DEF ViewOK, Originals
      <4> QED BY <4>1, <4>2
    <3>8. CacheFound(v)'
      <4>1. HasFile(v) /\ oacache[v] # 0 => HasFile(v)'
        BY <3>1, <3>3, <3>4 DEF HasFile
      <4> QED BY <3>1, <4>1 DEF ViewOK, CacheFound, Goes
    <3> QED BY <3>5, <3>6, <3>7, <3>8 DEF ViewOK
  <2>6. InodeInv'
    <3>1. \A i \in 1 .. MaxInode :
             Uses(v, i)' => Uses(v, i) \/ (i = next + 1 /\ next' = next + 1)
      BY <1>0, <1>1, <2>1, <2>2 DEF Uses
    <3> QED BY <1>0, <1>1, <1>2, <2>1, <2>2, <3>1, InodeStep DEF CacheInv
  <2> QED BY <1>1, <2>4, <2>5, <2>6 DEF ViewInv, CacheInv
<1> QED BY <1>3, <1>4

\* The cache goes: after a fileDestroy, or when it is released.
LEMMA UnlinkKeeps ==
    ASSUME TypeInv, CacheInv, NEW s \in Session, Alone(s), PourOK(s)',
           NEW v \in CellView, UnlinkCache(v),
           \A w \in CellView : Calm(w),
           \A w \in CellView \ {v} : Goes(w),
           UNCHANGED <<file, content, next, raced>>
    PROVE  CacheInv'
<1>1. /\ oacache'[v] = 0
      /\ \A w \in CellView \ {v} : oacache'[w] = oacache[w]
  BY DEF UnlinkCache, TypeInv, TypeOK
<1>2. ASSUME NEW w \in CellView \ {v}, w \notin raced
      PROVE  ViewOK(w)'
  BY <1>1, <1>2, OtherView DEF CacheInv, ViewInv
<1>3. ASSUME v \notin raced
      PROVE  ViewOK(v)'
  <2>1. ViewOK(v) /\ Calm(v)
    BY <1>3 DEF CacheInv, ViewInv
  <2>2. OneCacher(v)' /\ Originals(v)' /\ CacheFound(v)'
    BY <1>1, <2>1 DEF ViewOK, OneCacher, Originals, CacheFound, Calm
  <2>3. \A r \in Session : CacherOK(r, v)' /\ EmptierOK(r, v)'
    BY <1>1, <2>1 DEF ViewOK, CacherOK, EmptierOK, Calm
  <2> QED BY <2>2, <2>3 DEF ViewOK
<1>4. InodeInv'
  <2>1. \A i \in 1 .. MaxInode : Uses(v, i)' => Uses(v, i)
    BY <1>1 DEF Uses
  <2> QED BY <1>1, <2>1, InodeStep DEF CacheInv
<1> QED BY <1>2, <1>3, <1>4 DEF ViewInv, CacheInv

LEMMA ReleaseCacheStep ==
    ASSUME TypeInv, CacheInv, NEW s \in Session, Alone(s),
           DestroyRest(s) \/ \E v \in CellView : FileReleaseCache(s, v)
    PROVE  CacheInv'
<1>1. CASE DestroyRest(s)
  <2>1. PICK v \in CellView : v = TheView(s) /\ call[s].of = {v}
    BY <1>1, InView, TheViewType DEF DestroyRest, OneView, In
  <2>2. /\ UnlinkCache(v) /\ UNCHANGED <<file, content, next, raced>>
        /\ call[s].at = "rest" /\ call'[s].at = "idle"
    BY <1>1, <2>1, CallAt DEF DestroyRest, In
  <2>3. \A w \in CellView \ {v} : Goes(w)
    <3>1. \A w \in CellView \ {v} : oacache'[w] = oacache[w] /\ ~Covers(s, w)
      BY <2>1, <2>2 DEF UnlinkCache, TypeInv, TypeOK, Covers
    <3> QED BY <3>1, GoesStep
  <2>4. (\A w \in CellView : Calm(w)) /\ PourOK(s)'
    BY <2>2, CalmStep, NotPouring DEF Caching, Emptying
  <2> QED BY <2>2, <2>3, <2>4, UnlinkKeeps
<1>2. ASSUME NEW v \in CellView, FileReleaseCache(s, v)
      PROVE  CacheInv'
  <2>1. /\ UnlinkCache(v) /\ UNCHANGED <<file, content, next, raced, call>>
        /\ call[s].at = "idle"
    BY <1>2 DEF FileReleaseCache, MayCall
  <2>2. \A w \in CellView \ {v} : Goes(w)
    <3>1. \A w \in CellView \ {v} : oacache'[w] = oacache[w] /\ ~Covers(s, w)
      BY <2>1 DEF UnlinkCache, TypeInv, TypeOK, Covers
    <3> QED BY <3>1, GoesStep
  <2>3. (\A w \in CellView : Calm(w)) /\ PourOK(s)'
    BY <2>1, CalmStep, NotPouring DEF Caching, Emptying
  <2> QED BY <2>1, <2>2, <2>3, UnlinkKeeps
<1> QED BY <1>1, <1>2

\* One entry of a directory goes.  While the files do, the cache is left; when the
\* cache does, nobody is making another.
LEMMA UnlinkCacheStep ==
    ASSUME TypeInv, CacheInv, NEW s \in Session, Alone(s), NEW x \in Entry, Unlink(s, x)
    PROVE  CacheInv'
<1>0. PICK v \in CellView : v = x.of
  BY EntryFields
<1>1. /\ IsOpen(s) /\ call[s].at \in {"rmview", "rmcell"}
      /\ call'[s].at = call[s].at /\ call'[s].of = call[s].of
      /\ call'[s].left = call[s].left \ {x}
      /\ UNCHANGED <<content, next, session, raced>> /\ Emptying(s, v)
  BY <1>0, UnlinkMoves DEF Unlink, Emptying, memory
<1>2. /\ \A w \in CellView \ {v} : file'[w] = file[w] /\ oacache'[w] = oacache[w]
      /\ \A n \in Name : file'[v][n] \in {file[v][n], 0}
      /\ x.is # "file" => file' = file
      /\ x # CacheOf(v) => oacache' = oacache
      /\ x = CacheOf(v) => oacache'[v] = 0 /\ file' = file
  <2>1. x = CacheOf(v) <=> x.is = "cache"
    BY <1>0, CacheEntry
  <2>2. x.name \in Name
    BY EntryFields
  <2> QED BY <1>0, <2>1, <2>2 DEF Unlink, TypeInv, TypeOK
<1>3. \A w \in CellView : x = CacheOf(w) => w = v
  BY <1>0, CacheEntry
<1>4. \A w \in CellView : x # CacheOf(w) => Calm(w) /\ Goes(w)
  <2> SUFFICES ASSUME NEW w \in CellView, x # CacheOf(w) PROVE Calm(w) /\ Goes(w)
    OBVIOUS
  <2>1. oacache'[w] = oacache[w]
    BY <1>2, <1>3
  <2>2. Covers(s, w) => Covers(s, w)'
    BY <1>1 DEF Covers
  <2>3. Calm(w)
    BY <1>1 DEF Calm, Alone, Caching, Emptying, IsOpen
  <2> QED BY <2>1, <2>2, <2>3, GoesStep
<1>5. ASSUME NEW w \in CellView \ {v}, w \notin raced
      PROVE  ViewOK(w)'
  BY <1>1, <1>2, <1>3, <1>4, <1>5, OtherView DEF CacheInv, ViewInv
<1>6. ASSUME v \notin raced
      PROVE  ViewOK(v)'
  <2>1. ViewOK(v) /\ \A r \in Session : ~Caching(r, v)
    BY <1>1, <1>6 DEF CacheInv, ViewInv, ViewOK, EmptierOK
  <2>2. \A r \in Session : ~Caching(r, v)'
    BY <1>1, <2>1 DEF Caching, IsOpen, Alone
  <2>3. Originals(v)'
    BY <1>1, <1>2, <2>1 DEF ViewOK, Originals
  <2>4. CASE x = CacheOf(v)
    BY <1>2, <2>2, <2>3, <2>4 DEF ViewOK, OneCacher, CacherOK, EmptierOK, CacheFound
  <2>5. CASE x # CacheOf(v)
    <3>1. Calm(v) /\ oacache'[v] = oacache[v]
      BY <1>2, <1>4, <2>5
    <3>2. \A r \in Session : EmptierOK(r, v)'
      BY <2>1, <2>2, <3>1 DEF ViewOK, EmptierOK, Calm
    <3>3. oacache'[v] # 0 => Unfinished(v)'
      <4>1. oacache[v] # 0 => CacheOf(v) \in call[s].left
        BY <1>1, <2>1 DEF ViewOK, EmptierOK
      <4>2. v \in call[s].of
        BY <1>1 DEF Emptying
      <4> QED BY <1>1, <2>5, <3>1, <4>1, <4>2 DEF Unfinished
    <3> QED BY <2>2, <2>3, <3>2, <3>3 DEF ViewOK, OneCacher, CacherOK, CacheFound
  <2> QED BY <2>4, <2>5
<1>7. InodeInv'
  <2>1. \A i \in 1 .. MaxInode : Uses(v, i)' => Uses(v, i)
    BY <1>2 DEF Uses
  <2>2. PourOK(s)'
    BY <1>1, NotPouring
  <2> QED BY <1>1, <1>2, <2>1, <2>2, InodeStep DEF CacheInv
<1> QED BY <1>1, <1>5, <1>6, <1>7 DEF ViewInv, CacheInv

\* A process that makes the cache is the only one in its view that does, and
\* nobody is removing what is there.
LEMMA CacherAlone ==
    ASSUME CacheInv, NEW s \in Session, NEW v \in CellView, v \notin raced,
           Caching(s, v)
    PROVE  /\ ViewOK(v) /\ CacherOK(s, v)
           /\ \A r \in Session : ~Emptying(r, v) /\ (Caching(r, v) => r = s)
<1>1. ViewOK(v)
  BY DEF CacheInv, ViewInv
<1> QED BY <1>1 DEF ViewOK, EmptierOK, OneCacher

\* When it is done, there is none.
LEMMA CacherDone ==
    ASSUME NEW s \in Session, NEW v \in CellView, Alone(s), call'[s].at = "idle",
           \A r \in Session : ~Emptying(r, v) /\ (Caching(r, v) => r = s)
    PROVE  \A r \in Session : ~Caching(r, v)' /\ ~Emptying(r, v)'
BY DEF Alone, Caching, Emptying, IsOpen

LEMMA LinkCache ==
    ASSUME TypeInv, CacheInv, NEW s \in Session, Alone(s), Link(s)
    PROVE  CacheInv'
<1>0. PICK v \in CellView, p \in Name :
          v = TheView(s) /\ p = call[s].path /\ call[s].of = {v}
  BY InView, TheViewType DEF Link, OneView, CallRecord, In
<1>1. /\ UNCHANGED <<file, content, next, raced>>
      /\ call[s].at = "link" /\ IsOpen(s) /\ call'[s].at = "idle"
      /\ file[v][p] # 0 /\ oacache' = [oacache EXCEPT ![v] = file[v][p]]
  BY <1>0, CallAt DEF Link, In
<1>2. Caching(s, v) /\ PourOK(s)'
  BY <1>0, <1>1, NotPouring DEF Caching
<1>3. /\ oacache'[v] = file[v][p]
      /\ \A w \in CellView \ {v} : oacache'[w] = oacache[w]
  BY <1>1 DEF TypeInv, TypeOK
<1>4. ASSUME NEW w \in CellView \ {v}, w \notin raced
      PROVE  ViewOK(w)'
  <2>1. Calm(w) /\ Goes(w)
    BY <1>1, <1>3, PlainStep DEF Plainly, Covers
  <2> QED BY <1>1, <1>3, <1>4, <2>1, OtherView DEF CacheInv, ViewInv
<1>5. ASSUME v \notin raced
      PROVE  ViewOK(v)'
  <2>1. ViewOK(v) /\ \A r \in Session : ~Caching(r, v)' /\ ~Emptying(r, v)'
    BY <1>1, <1>2, <1>5, CacherAlone, CacherDone
  <2>2. Originals(v)' /\ CacheFound(v)'
    BY <1>1, <1>3, <2>1 DEF ViewOK, Originals, CacheFound, HasFile
  <2> QED BY <2>1, <2>2 DEF ViewOK, OneCacher, CacherOK, EmptierOK
<1>6. InodeInv'
  <2>1. \A i \in 1 .. MaxInode : Uses(v, i)' => Uses(v, i)
    BY <1>0, <1>1, <1>3 DEF Uses
  <2> QED BY <1>1, <1>2, <1>3, <2>1, InodeStep DEF CacheInv
<1> QED BY <1>1, <1>4, <1>5, <1>6 DEF ViewInv, CacheInv

\* The cache is opened: a new one, or one that another call has made meanwhile.
LEMMA CopyToCache ==
    ASSUME TypeInv, CacheInv, NEW s \in Session, Alone(s), CopyTo(s)
    PROVE  CacheInv'
<1>0. PICK v \in CellView, p \in Name, i \in 1 .. MaxInode :
          /\ v = TheView(s) /\ p = call[s].path /\ i = call[s].from
          /\ call[s].of = {v} /\ call[s].at = "fill" /\ IsOpen(s)
  BY InView, TheViewType DEF CopyTo, OneView, CallRecord, In, TypeInv, CallOK
<1>1. UNCHANGED <<file, raced, session>> /\ Caching(s, v)
  BY <1>0 DEF CopyTo, Caching, memory
<1>2. CASE Return(s) /\ UNCHANGED <<oacache, content, next>>
  <2>1. call'[s].at = "idle"
    BY <1>2, CallAt
  <2>2. \A w \in CellView : Calm(w) /\ Goes(w)
    BY <1>0, <1>2, <2>1, PlainStep DEF Plainly, Covers
  <2> QED BY <1>1, <1>2, <2>1, <2>2, NotPouring, QuietCache
<1>3. ASSUME NEW j \in 1 .. MaxInode, GoTo(s, "pour", i, j),
             next' \in {next, next + 1}, j <= next', oacache'[v] = j,
             \A w \in CellView \ {v} : oacache'[w] = oacache[w],
             \A w \in CellView \ {v} : ~Uses(w, j),
             \A k \in 1 .. MaxInode \ {j} : content'[k] = content[k],
             j # next + 1 => oacache[v] = j, j = next + 1 => next' = next + 1
      PROVE  CacheInv'
  <2>0. /\ call'[s].at = "pour" /\ call'[s].of = {v} /\ call'[s].path = p
        /\ call'[s].from = i /\ call'[s].to = j
    BY <1>0, <1>3 DEF GoTo, TypeInv, TypeOK
  <2>1. ASSUME NEW w \in CellView \ {v}, w \notin raced
        PROVE  ViewOK(w)'
    <3>1. ~Caching(s, w)' /\ ~Emptying(s, w)' /\ ~Covers(s, w)
      BY <1>0, <2>0 DEF Caching, Emptying, Covers
    <3>2. Calm(w) /\ Goes(w)
      BY <1>3, <3>1, CalmStep, GoesStep
    <3>3. \A k \in 1 .. MaxInode : Uses(w, k) => content'[k] = content[k]
      BY <1>3
    <3> QED BY <1>1, <1>3, <2>1, <3>2, <3>3, OtherView DEF CacheInv, ViewInv
  <2>2. ASSUME v \notin raced
        PROVE  ViewOK(v)'
    <3>1. /\ ViewOK(v) /\ CacherOK(s, v)
          /\ \A r \in Session : ~Emptying(r, v) /\ (Caching(r, v) => r = s)
      BY <1>1, <2>2, CacherAlone
    <3>2. oacache[v] = 0 /\ file[v][p] = i
      BY <1>0, <1>1, <3>1 DEF CacherOK
    <3>3. j = next + 1
      BY <1>3, <3>2
    <3>4. \A n \in Name : file[v][n] # j
      BY <3>3, UsedInodes DEF CacheInv, Uses
    <3>5. \A r \in Session : ~Emptying(r, v)' /\ (Caching(r, v)' => r = s)
      BY <2>0, <3>1 DEF Alone, Caching, Emptying, IsOpen
    <3>6. CacherOK(s, v)'
      BY <1>0, <1>1, <1>3, <2>0, <3>2, <3>4 DEF CacherOK
    <3>7. Originals(v)'
      <4>1. \A n \in Name : file[v][n] # 0 => file[v][n] \in 1 .. MaxInode \ {j}
        BY <3>4, NextType DEF TypeInv, TypeOK
      <4> QED BY <1>1, <1>3, <3>1, <4>1 DEF ViewOK, Originals
    <3>8. CacheFound(v)'
      BY <1>3, <2>0 DEF CacheFound, Unfinished
    <3>9. OneCacher(v)' /\ \A r \in Session : EmptierOK(r, v)'
      BY <3>5 DEF OneCacher, EmptierOK
    <3>10. \A r \in Session : CacherOK(r, v)'
      BY <3>5, <3>6 DEF CacherOK
    <3> QED BY <3>7, <3>8, <3>9, <3>10 DEF ViewOK
  <2>3. \A w \in CellView : Uses(w, j)' => w = v
    BY <1>1, <1>3 DEF Uses
  <2>4. PourOK(s)'
    BY <1>3, <2>0, <2>3 DEF PourOK, Uses
  <2>5. InodeInv'
    <3>1. \A k \in 1 .. MaxInode :
             Uses(v, k)' => Uses(v, k) \/ (k = next + 1 /\ next' = next + 1)
      BY <1>1, <1>3 DEF Uses
    <3> QED BY <1>1, <1>3, <2>4, <3>1, InodeStep DEF CacheInv
  <2> QED BY <1>1, <2>1, <2>2, <2>5 DEF ViewInv, CacheInv
<1>4. CASE /\ NewInode(0) /\ oacache' = [oacache EXCEPT ![v] = next + 1]
           /\ GoTo(s, "pour", i, next + 1)
  <2>1. /\ next + 1 \in 1 .. MaxInode /\ next' = next + 1 /\ next + 1 <= next'
    BY <1>4, NextType DEF NewInode, TypeInv, TypeOK
  <2>2. /\ oacache'[v] = next + 1
        /\ \A w \in CellView \ {v} : oacache'[w] = oacache[w]
        /\ \A k \in 1 .. MaxInode \ {next + 1} : content'[k] = content[k]
    BY <1>4, <2>1 DEF NewInode, TypeInv, TypeOK
  <2>3. \A w \in CellView \ {v} : ~Uses(w, next + 1)
    BY <2>1, UsedInodes DEF CacheInv
  <2> QED BY <1>3, <1>4, <2>1, <2>2, <2>3
<1>5. CASE /\ oacache[v] # 0 /\ content' = [content EXCEPT ![oacache[v]] = 0]
           /\ GoTo(s, "pour", i, oacache[v]) /\ UNCHANGED <<oacache, next>>
  <2>1. PICK j \in 1 .. MaxInode : j = oacache[v]
    BY <1>5, NameAssumption DEF TypeInv, TypeOK
  <2>2. j <= next /\ \A w \in CellView \ {v} : ~Uses(w, j)
    BY <2>1 DEF CacheInv, InodeInv, Uses
  <2>3. j # next + 1 /\ next' \in {next, next + 1} /\ j <= next'
    BY <1>5, <2>2, NextType
  <2>4. \A k \in 1 .. MaxInode \ {j} : content'[k] = content[k]
    BY <1>5, <2>1 DEF TypeInv, TypeOK
  <2> QED BY <1>3, <1>5, <2>1, <2>2, <2>3, <2>4
<1> QED BY <1>0, <1>2, <1>4, <1>5 DEF CopyTo

\* The cache is written; what the copy reads from is still its file.
LEMMA PourCache ==
    ASSUME TypeInv, CacheInv, NEW s \in Session, Alone(s), Pour(s)
    PROVE  CacheInv'
<1>0. PICK v \in CellView, p \in Name, i \in 1 .. MaxInode, j \in 1 .. MaxInode :
          /\ v = TheView(s) /\ p = call[s].path /\ i = call[s].from
          /\ j = call[s].to
          /\ call[s].of = {v} /\ call[s].at = "pour" /\ IsOpen(s)
  BY InView, TheViewType DEF Pour, OneView, CallRecord, In, TypeInv, CallOK
<1>1. /\ UNCHANGED <<file, oacache, next>> /\ call'[s].at = "idle"
      /\ \/ content' = [content EXCEPT ![j] = content[i]] /\ UNCHANGED raced
         \/ content' = content /\ raced' = raced \cup {v}
  BY <1>0, CallAt DEF Pour
<1>2. Caching(s, v) /\ PourOK(s)'
  BY <1>0, <1>1, NotPouring DEF Caching
<1>3. /\ v \notin raced' => content'[j] = content[i]
      /\ \A k \in 1 .. MaxInode \ {j} : content'[k] = content[k]
      /\ raced \subseteq raced'
  BY <1>1 DEF TypeInv, TypeOK
<1>4. ASSUME NEW w \in CellView \ {v}, w \notin raced'
      PROVE  ViewOK(w)'
  <2>1. Calm(w) /\ Goes(w)
    BY <1>0, <1>1, PlainStep DEF Plainly, Covers
  <2>2. ~Uses(w, j)
    BY <1>0 DEF CacheInv, InodeInv, PourOK
  <2>3. \A k \in 1 .. MaxInode : Uses(w, k) => content'[k] = content[k]
    BY <1>3, <2>2
  <2> QED BY <1>1, <1>3, <1>4, <2>1, <2>3, OtherView DEF CacheInv, ViewInv
<1>5. ASSUME v \notin raced'
      PROVE  ViewOK(v)'
  <2>1. /\ ViewOK(v) /\ CacherOK(s, v)
        /\ \A r \in Session : ~Caching(r, v)' /\ ~Emptying(r, v)'
    BY <1>1, <1>2, <1>3, <1>5, CacherAlone, CacherDone
  <2>2. /\ oacache[v] \in {0, j} /\ file[v][p] = i
        /\ \A n \in Name : file[v][n] # j
    BY <1>0, <1>2, <2>1 DEF CacherOK
  <2>3. Originals(v)'
    <3>1. \A n \in Name : file[v][n] # 0 => file[v][n] \in 1 .. MaxInode \ {j}
      BY <2>2, NextType DEF TypeInv, TypeOK
    <3> QED BY <1>1, <1>3, <2>1, <3>1 DEF ViewOK, Originals
  <2>4. CacheFound(v)'
    BY <1>0, <1>1, <1>3, <1>5, <2>2 DEF CacheFound, HasFile
  <2> QED BY <2>1, <2>3, <2>4 DEF ViewOK, OneCacher, CacherOK, EmptierOK
<1>6. InodeInv'
  <2>1. \A k \in 1 .. MaxInode : Uses(v, k)' => Uses(v, k)
    BY <1>1 DEF Uses
  <2> QED BY <1>1, <1>2, <2>1, InodeStep DEF CacheInv
<1> QED BY <1>1, <1>4, <1>5, <1>6 DEF ViewInv, CacheInv

\* Steps of fileGetCache that only look: the call of s changes, and no file.
LEMMA LookKeeps ==
    ASSUME TypeInv, CacheInv, NEW s \in Session, Alone(s),
           UNCHANGED <<file, oacache, content, next>>, raced \subseteq raced',
           call[s].at \in {"idle", "link", "copy"},
           call'[s].at \in {"link", "copy", "fill"},
           NEW v \in CellView, call'[s].of = {v},
           v \notin raced' => /\ oacache[v] = 0
                              /\ \A r \in Session \ {s} : ~Caching(r, v) /\ ~Emptying(r, v),
           call'[s].at = "fill" => file[v][call'[s].path] = call'[s].from
    PROVE  CacheInv'
<1>1. \A w \in CellView : Goes(w)
  BY GoesStep DEF Covers
<1>2. \A w \in CellView \ {v} : Calm(w)
  BY CalmStep DEF Caching, Emptying
<1>3. ASSUME v \notin raced'
      PROVE  ViewOK(v)'
  <2>1. ViewOK(v) /\ Goes(v)
    BY <1>1, <1>3 DEF CacheInv, ViewInv
  <2>2. \A r \in Session : (Caching(r, v)' => r = s) /\ ~Emptying(r, v)'
    BY <1>3 DEF Caching, Emptying, IsOpen, Alone
  <2>3. CacherOK(s, v)'
    BY <1>3 DEF CacherOK
  <2>4. Originals(v)' /\ CacheFound(v)'
    BY <2>1 DEF ViewOK, Originals, CacheFound, HasFile, Goes
  <2>5. \A r \in Session : CacherOK(r, v)'
    BY <2>2, <2>3 DEF CacherOK
  <2> QED BY <2>2, <2>4, <2>5 DEF ViewOK, OneCacher, EmptierOK
<1>4. PourOK(s)'
  BY NotPouring
<1> QED BY <1>1, <1>2, <1>3, <1>4, QuietCache

LEMMA GetCacheStep ==
    ASSUME TypeInv, CacheInv, NEW s \in Session, Alone(s),
           (\E f \in File : FileGetCache(s, f)) \/ LinkFails(s) \/ CopyFrom(s)
    PROVE  CacheInv'
<1>1. ASSUME NEW f \in File, FileGetCache(s, f)
      PROVE  CacheInv'
  <2>1. PICK v \in CellView : v = f[1] /\ f[2] \in Name
    BY FileType
  <2>2. PICK p \in BuildFilePath(s, f) : EnterFile(s, "link", f, p)
    BY <1>1 DEF FileGetCache
  <2>3. p \in Name
    BY <2>2, BuildFilePathType DEF TypeInv
  <2>4. call'[s].of = {v} /\ call'[s].at = "link"
    BY <2>1, <2>2, <2>3, EnterMoves, IdleFields DEF EnterFile, Steps
  <2>5. /\ UNCHANGED <<file, oacache, content, next>>
        /\ Meets(v) /\ oacache[v] = 0 /\ call[s].at = "idle"
    BY <1>1, <2>1 DEF FileGetCache, MustMake, MayCall, disk
  <2>6. v \notin raced' => \A r \in Session : ~Caching(r, v) /\ ~Emptying(r, v)
    BY <2>5 DEF Meets
  <2>7. raced \subseteq raced'
    BY <2>5 DEF Meets
  <2> QED BY <2>4, <2>5, <2>6, <2>7, LookKeeps
<1>2. CASE LinkFails(s)
  <2>1. PICK v \in CellView : call[s].of = {v}
    BY <1>2, InView, TheViewType DEF LinkFails, OneView, In
  <2>2. /\ UNCHANGED <<file, oacache, content, next, raced>>
        /\ IsOpen(s) /\ call[s].at = "link" /\ GoTo(s, "copy", 0, 0)
    BY <1>2 DEF LinkFails, In, disk
  <2>3. call'[s].at = "copy" /\ call'[s].of = {v}
    BY <2>1, <2>2 DEF GoTo, TypeInv, TypeOK
  <2>4. Caching(s, v)
    BY <2>1, <2>2 DEF Caching
  <2>5. v \notin raced => /\ oacache[v] = 0
                          /\ \A r \in Session \ {s} : ~Caching(r, v) /\ ~Emptying(r, v)
    BY <2>2, <2>4, CacherAlone DEF CacherOK
  <2> QED BY <2>2, <2>3, <2>5, LookKeeps
<1>3. CASE CopyFrom(s)
  <2>1. PICK v \in CellView : v = TheView(s) /\ call[s].of = {v}
    BY <1>3, InView, TheViewType DEF CopyFrom, OneView, In
  <2>2. /\ UNCHANGED <<file, oacache, content, next, raced>>
        /\ IsOpen(s) /\ call[s].at = "copy"
        /\ Return(s) \/ GoTo(s, "fill", file[v][call[s].path], 0)
    BY <1>3, <2>1 DEF CopyFrom, In, disk
  <2>3. CASE Return(s)
    <3>1. call'[s].at = "idle"
      BY <2>3, CallAt
    <3>2. \A w \in CellView : Calm(w) /\ Goes(w)
      BY <2>2, <3>1, PlainStep DEF Plainly, Covers
    <3> QED BY <2>2, <3>1, <3>2, NotPouring, QuietCache
  <2>4. CASE GoTo(s, "fill", file[v][call[s].path], 0)
    <3>1. /\ call'[s].of = {v} /\ call'[s].path = call[s].path
          /\ call'[s].from = file[v][call[s].path] /\ call'[s].at = "fill"
      BY <2>1, <2>4 DEF GoTo, TypeInv, TypeOK
    <3>2. Caching(s, v)
      BY <2>1, <2>2 DEF Caching
    <3>3. v \notin raced => /\ oacache[v] = 0
                            /\ \A r \in Session \ {s} : ~Caching(r, v) /\ ~Emptying(r, v)
      BY <2>2, <3>2, CacherAlone DEF CacherOK
    <3> QED BY <2>2, <3>1, <3>3, LookKeeps
  <2> QED BY <2>2, <2>3, <2>4
<1> QED BY <1>1, <1>2, <1>3

LEMMA DestroysCache ==
    ASSUME TypeInv, CacheInv, NEW s \in Session, Alone(s), Destroys(s)
    PROVE  CacheInv'
<1>1. ASSUME NEW c \in Cell, CellDestroy(s, c)
      PROVE  CacheInv'
  BY <1>1, RemoveCache DEF CellDestroy
<1>2. ASSUME NEW v \in CellView, CellViewDestroy(s, v)
      PROVE  CacheInv'
  BY <1>2, RemoveCache DEF CellViewDestroy
<1> QED BY <1>1, <1>2, FileDestroyCache DEF Destroys

LEMMA NextCache == TypeInv /\ ClosedIdle /\ CacheInv /\ [Next]_vars => CacheInv'
<1> SUFFICES ASSUME TypeInv, ClosedIdle, CacheInv, [Next]_vars PROVE CacheInv'
  OBVIOUS
<1>1. CASE UNCHANGED vars
  <2>1. UNCHANGED <<file, oacache, content, next, raced, session, call>>
    BY <1>1 DEF vars, disk, memory
  <2>2. \A v \in CellView : Calm(v) /\ Goes(v)
    BY <2>1 DEF Calm, Goes, Caching, Emptying, IsOpen, Unfinished
  <2>3. ViewInv'
    BY <2>1, <2>2, OtherView DEF CacheInv, ViewInv
  <2>4. InodeInv'
    BY <2>1 DEF CacheInv, InodeInv, Uses, PourOK, IsOpen
  <2> QED BY <2>3, <2>4 DEF CacheInv
<1>2. ASSUME NEW s \in Session,
             Open(s) \/ LibPreClose(s) \/ Crash(s) \/ Begin(s) \/ Continue(s)
      PROVE  CacheInv'
  <2>1. Alone(s)
    BY <1>2, AloneStep
  <2>2. CASE \/ Open(s) \/ LibPreClose(s) \/ Crash(s)
    BY <2>1, <2>2, OpenCloseCache
  <2>3. CASE Begin(s)
    BY <2>1, <2>3, PlainCache, DestroysCache, GetCacheStep, ReleaseCacheStep
       DEF Begin, Caches
  <2>4. CASE Continue(s)
    BY <2>1, <2>4, PlainCache, UnlinkCacheStep, GetCacheStep, ReleaseCacheStep,
       CreateFileCache, LinkCache, CopyToCache, PourCache DEF Continue
  <2> QED BY <1>2, <2>2, <2>3, <2>4
<1> QED BY <1>1, <1>2 DEF Next

LEMMA InitCache == Init => CacheInv
<1> SUFFICES ASSUME Init PROVE ViewInv /\ InodeInv
  BY DEF CacheInv
<1>1. \A s \in Session : call[s].at = "idle"
  BY IdleType DEF Init
<1>2. \A v \in CellView : oacache[v] = 0 /\ \A n \in Name : file[v][n] = 0
  BY DEF Init, Nothing
<1>3. ViewInv
  BY <1>1, <1>2 DEF ViewInv, ViewOK, OneCacher, CacherOK, EmptierOK, Originals,
     CacheFound, Caching, Emptying
<1>4. InodeInv
  BY <1>1, <1>2 DEF InodeInv, Uses, PourOK
<1> QED BY <1>3, <1>4

LEMMA CacheInvariant == Spec => []CacheInv
<1>1. TypeInv /\ ClosedIdle /\ CacheInv /\ [Next]_vars => CacheInv'
  BY NextCache
<1> QED BY <1>1, InitCache, BaseInvariant, PTL DEF Spec

\* What .oacache contains is in a file of its directory, where fileGetCache has
\* met no other call, no copy has failed, and no call that removes both or fills
\* the cache is under way or has died: who makes a cache is alone, has found none there and copies
\* from a file that stays, and who removes files has the cache among what is left.
THEOREM CachesAreOfFiles == Spec => []CacheOfAFile
<1>1. CacheInv => CacheOfAFile
  BY DEF CacheInv, ViewInv, ViewOK, CacheFound, HasFile, CacheOfAFile
<1> QED BY <1>1, CacheInvariant, PTL

\* A file contains what it was created with: the only steps that empty or fill
\* a file are those of a copy into a second name that another call has made
\* meanwhile.
THEOREM FilesKeepTheirContent == Spec => []ContentKept
<1>1. CacheInv => ContentKept
  BY DEF CacheInv, ViewInv, ViewOK, Originals, ContentKept
<1> QED BY <1>1, CacheInvariant, PTL
=============================================================================
