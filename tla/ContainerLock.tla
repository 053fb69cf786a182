---------------------------- MODULE ContainerLock ----------------------------
(***************************************************************************)
(* Locking whole cells, views and cell views: lockObj, unlockObj and       *)
(* hasLockedFiles of oaDMFileSys::Locking                                  *)
(* (src/src/aividmfilesys/oaAiviDMFileSysLocking.cpp).  A container call   *)
(* lists the files of one container after the other and locks, unlocks or  *)
(* looks at each of them under the path that its logical name has just     *)
(* then; nothing is rolled back when a file is refused.                    *)
(*                                                                         *)
(* What happens at one path is EditLock, system call by system call: this  *)
(* module walks through containers on top of it, and every step of it is   *)
(* a step of EditLock or none.  EditLock's constant Overlap says whether   *)
(* the calls for single paths may overlap; the walks always may.  A path   *)
(* is the name of a file, for names are resolved within the directory of a *)
(* container.                                                              *)
(***************************************************************************)
EXTENDS EditLock

CONSTANTS Box,       \* containers: library, cells, views and cell views
          Inner,     \* Inner[b]: the cell views of a cell or a view
          CellView,  \* the containers whose files are resolved by master.tag
          BoxOf,     \* BoxOf[f]: the container of file f
          PrimaryOf, \* PrimaryOf[b]: what master.tag of b stands for, or NoPath
          Plain,     \* files whose names have no dot
          Oa,        \* files whose names end in .oa
          Volatile,  \* files that come and go; the others are always there
          NoPath

FilesOf(b) == {f \in Path : BoxOf[f] = b}

ASSUME ContainerAssumption ==
    /\ Inner \in [Box -> SUBSET CellView]
    /\ CellView \subseteq Box
    /\ BoxOf \in [Path -> Box]
    /\ PrimaryOf \in [CellView -> Path \cup {NoPath}]
    /\ \A b \in CellView : PrimaryOf[b] # NoPath => BoxOf[PrimaryOf[b]] = b
    /\ Plain \subseteq Path /\ Oa \subseteq Path /\ Volatile \subseteq Path
    /\ NoPath \notin Path

VARIABLES exists,  \* the files that are there
          walk     \* the container call that each process makes

cvars == <<vars, exists, walk>>

\* The boxes that are not listed yet, the listed files that are not looked at
\* yet, the answer so far; history: the files of the object that were there all
\* through the call.
WalkRecord == [op : {"none", "lock", "unlock", "status", "destroy"},
               first : SUBSET Box, todo : SUBSET Box, files : SUBSET Path,
               ok : BOOLEAN, was : SUBSET Path]

NoWalk == [op |-> "none", first |-> {}, todo |-> {}, files |-> {},
           ok |-> TRUE, was |-> {}]

CTypeOK == /\ TypeOK
           /\ exists \in SUBSET Path
           /\ walk \in [Proc -> WalkRecord]

CInit == /\ Init
         /\ exists \in {Path \ Volatile, Path}
         /\ walk = [p \in Proc |-> NoWalk]

\* A container is listed: its files come before the other containers.
Listed(w, b) == [w EXCEPT !.first = {}, !.todo = @ \ {b},
                          !.files = FilesOf(b) \cap exists]

\* Nothing more is looked at.
Ended(w, ok) == [w EXCEPT !.ok = ok, !.todo = {}, !.files = {}]

-----------------------------------------------------------------------------
\* buildFilePathFromParent: names are looked up in a cell view only, where a
\* name that is not there stands for the file of master.tag, or else, when it
\* has no dot, for some .oa file.
Resolve(f) ==
    LET b == BoxOf[f]
        oa == {g \in exists \cap Oa : BoxOf[g] = b}
    IN  IF b \notin CellView \/ f \in exists THEN {f}
        ELSE IF PrimaryOf[b] # NoPath THEN {PrimaryOf[b]}
        ELSE IF f \in Plain /\ oa # {} THEN oa ELSE {f}

Boxes(b, recursive) == {b} \cup (IF recursive THEN Inner[b] ELSE {})

FilesIn(B) == {f \in Path : BoxOf[f] \in B}

-----------------------------------------------------------------------------
(* Processes and files come and go.                                        *)

CStart(p) == Start(p) /\ UNCHANGED <<exists, walk>>

CCrash(p) == /\ Crash(p)
             /\ walk' = [walk EXCEPT ![p] = NoWalk]
             /\ UNCHANGED exists

Appear(f) == /\ f \in Volatile \ exists
             /\ exists' = exists \cup {f}
             /\ UNCHANGED <<vars, walk>>

\* The file is gone: it was not there all through any call under way.
Goes(f, W) == /\ exists' = exists \ {f}
              /\ walk' = [q \in Proc |-> [W[q] EXCEPT !.was = @ \ {f}]]

\* Somebody removes a file without the plug-in; its lock file stays.
Vanish(f) == /\ f \in Volatile \cap exists
             /\ Goes(f, walk)
             /\ UNCHANGED vars

-----------------------------------------------------------------------------
(* The calls, and the containers they go through.                          *)

MayWalk(p) == pc[p] = "idle" /\ walk[p].op = "none"

Walks(p, op, first, B, S) ==
    /\ MayWalk(p)
    /\ walk' = [walk EXCEPT ![p] =
                   [op |-> op, first |-> first, todo |-> B, files |-> S,
                    ok |-> TRUE, was |-> exists \cap (FilesIn(B) \cup S)]]
    /\ UNCHANGED <<vars, exists>>

\* lockObj of a file, of a cell view or the library (which have no inner
\* containers), of a cell or a view with or without its cell views.
LockObj(p) ==
    \/ \E f \in Path : Walks(p, "lock", {}, {}, {f})
    \/ \E b \in Box, recursive \in BOOLEAN :
          Walks(p, "lock", {b}, Boxes(b, recursive), {})

\* unlockObj always goes through the cell views.
UnlockObj(p) ==
    \/ \E f \in Path : Walks(p, "unlock", {}, {}, {f})
    \/ \E b \in Box : Walks(p, "unlock", {b}, Boxes(b, TRUE), {})

HasLockedFiles(p) ==
    \/ \E f \in Path : Walks(p, "status", {}, {}, {f})
    \/ \E b \in Box, recursive \in BOOLEAN :
          Walks(p, "status", {b}, Boxes(b, recursive), {})

\* fileDestroy: the data goes first, the lock file last.
DestroyData(p) ==
    /\ MayWalk(p) /\ "destroy" \in Calls
    /\ \E f \in Volatile \cap exists :
          Goes(f, [walk EXCEPT ![p] = [NoWalk EXCEPT !.op = "destroy",
                                                     !.files = {f}]])
    /\ UNCHANGED vars

DestroyLock(p) ==
    /\ walk[p].op = "destroy"
    /\ \E f \in walk[p].files : FileDestroy(p, f)
    /\ walk' = [walk EXCEPT ![p] = NoWalk]
    /\ UNCHANGED exists

\* The walk of p is between two files.
Between(p) == /\ walk[p].op \in {"lock", "unlock", "status"}
              /\ pc[p] = "idle"

\* getDMFiles of the next container, the object itself before its cell views.
ListFiles(p) ==
    /\ Between(p) /\ walk[p].files = {}
    /\ \E b \in walk[p].todo :
          /\ walk[p].first \in {{}, {b}}
          /\ walk' = [walk EXCEPT ![p] = Listed(@, b)]
    /\ UNCHANGED <<vars, exists>>

\* The next file of the iterator: its path as of now, and the call for it.
LookAt(p) ==
    /\ Between(p)
    /\ \E f \in walk[p].files :
          /\ \E d \in Resolve(f) :
                \/ walk[p].op = "lock" /\ ExclusiveLock(p, d)
                \/ walk[p].op = "unlock" /\ ExclusiveUnLock(p, d)
                \/ walk[p].op = "status" /\ GetLockStatus(p, d)
          /\ walk' = [walk EXCEPT ![p].files = @ \ {f}]
    /\ UNCHANGED exists

-----------------------------------------------------------------------------
(* The steps at one path, and what the walk makes of the answer.           *)

PathEnds(p) == Busy(p) /\ pc'[p] = "idle"

\* exclusiveLock answers true.
Granted(p) == \/ pc[p] = "read" /\ IsOwnedByCurrentProcess(p, call[p].path)
              \/ pc[p] = "write" /\ Grant(p)

\* It answers false.
Denied(p) == /\ ReturnOnly(p)
             /\ pc[p] = "read" => ~IsOwnedByCurrentProcess(p, call[p].path)
             /\ pc[p] = "write" => IOErrors

\* lockStatusForDataPath finds no lock, or has removed a stale one.
NotLocked(p) == \/ pc[p] = "read" /\ dir[call[p].path] = NoFile
                \/ pc[p] = "unlink"

\* Mutant: the answer is that of the last file.
LastOk(p, ok) == ok

\* ok = lockObj(file) && ok: the loop goes on after a file is refused.
LoopOk(p, ok) == ok /\ walk[p].ok

LockStep(p) ==
    /\ walk[p].op = "lock"
    /\ Step(p)
    /\ \/ ~PathEnds(p) /\ UNCHANGED walk
       \/ \E ok \in BOOLEAN :
             /\ PathEnds(p)
             /\ IF ok THEN Granted(p) ELSE Denied(p)
             /\ walk' = [walk EXCEPT ![p].ok = LoopOk(p, ok)]
    /\ UNCHANGED exists

\* Mutant: the loop ends at a file that is not locked by this process.
UnlockStops(p) ==
    /\ walk[p].op = "unlock"
    /\ Step(p)
    /\ IF pc[p] = "termRead" /\ PathEnds(p)
       THEN walk' = [walk EXCEPT ![p] = Ended(@, TRUE)]
       ELSE UNCHANGED walk
    /\ UNCHANGED exists

UnlockStep(p) ==
    /\ walk[p].op = "unlock"
    /\ Step(p)
    /\ UNCHANGED <<exists, walk>>

\* hasLockedFiles stops at the first lock.
StatusStep(p) ==
    /\ walk[p].op = "status"
    /\ Step(p)
    /\ IF PathEnds(p) /\ ~NotLocked(p)
       THEN walk' = [walk EXCEPT ![p] = Ended(@, FALSE)]
       ELSE UNCHANGED walk
    /\ UNCHANGED exists

Returns(p, op) == /\ Between(p) /\ walk[p].op = op
                  /\ walk[p].todo = {} /\ walk[p].files = {}

WalkReturns(p) == /\ \E op \in {"lock", "unlock", "status"} : Returns(p, op)
                  /\ walk' = [walk EXCEPT ![p] = NoWalk]
                  /\ UNCHANGED <<vars, exists>>

CNext == \/ \E p \in Proc : \/ CStart(p) \/ CCrash(p)
                            \/ LockObj(p) \/ UnlockObj(p) \/ HasLockedFiles(p)
                            \/ DestroyData(p) \/ DestroyLock(p)
                            \/ ListFiles(p) \/ LookAt(p)
                            \/ LockStep(p) \/ UnlockStep(p) \/ StatusStep(p)
                            \/ WalkReturns(p)
         \/ \E f \in Path : Appear(f) \/ Vanish(f)

CSpec == CInit /\ [][CNext]_cvars

-----------------------------------------------------------------------------
(* Properties.                                                             *)

\* A lockObj that answers true has the record of its process in the lock file
\* of every file that was in the object all through the call, whatever other
\* container calls do meanwhile, as long as the calls for single paths do not
\* overlap and no file is destroyed whose lock somebody counts on.
TrueMeansAll ==
    [][\A p \in Proc :
          /\ Returns(p, "lock") /\ walk'[p].op = "none" /\ pc'[p] # "down"
          /\ walk[p].ok
          => \A f \in walk[p].was : IsOwnedByCurrentProcess(p, f)]_cvars

\* After unlockObj the caller has no lock of a file that was in the object all
\* through the call: also not one that was left by a lockObj that failed half
\* way or was told about one part of the object only.  And a hasLockedFiles
\* that answers false has not overlooked a lock of its own process.
NothingLeft ==
    [][\A p \in Proc :
          /\ walk'[p].op = "none" /\ pc'[p] # "down"
          /\ \/ Returns(p, "unlock")
             \/ Returns(p, "status") /\ walk[p].ok
          => \A f \in walk[p].was : ~IsOwnedByCurrentProcess(p, f)]_cvars
=============================================================================
