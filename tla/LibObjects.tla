----------------------------- MODULE LibObjects -----------------------------
(***************************************************************************)
(* The object store of the DMFileSys plug-in                               *)
(* (src/src/aividmfilesys/oaAiviDMFileSysComp.cpp): cells and cell views   *)
(* are directories, the files of a cell view are files in its directory.   *)
(* Several processes have one library open; each plug-in keeps the paths   *)
(* of the file objects it has seen and looks at the directory again only   *)
(* when it has kept nothing.  A call is one step per group of system calls *)
(* between which another process can come in or this one can die.          *)
(*                                                                         *)
(* A file object is <<cell view, logical name>>.  Its path is always in    *)
(* the directory of its cell view, so a path is the name it resolves to.   *)
(* Every file has an inode; content[i] is the inode whose creation wrote   *)
(* what inode i contains, 0 when the content is gone.  The lock file of a  *)
(* path is its owner here: its races are the subject of EditLock.          *)
(***************************************************************************)
EXTENDS Naturals

CONSTANTS Session,     \* the processes that have the library open
          Cell, View,
          Name,        \* names of files, logical and on disk
          Plain,       \* those without a dot
          Oa,          \* those that end in .oa
          Type,        \* view types
          PrimaryOf,   \* PrimaryOf[t]: the file that ViewType=t stands for
          NoName, NoType, Nobody,
          Roles,       \* who may use which groups of entry points
          MaxInode     \* bound: inodes ever created

Groups == {"create", "find", "destroy", "lock", "cache"}

CellView == Cell \X View
File == CellView \X Name

ASSUME NameAssumption == /\ Plain \subseteq Name
                         /\ Oa \subseteq Name
                         /\ Name # {} /\ Type # {}
                         /\ NoName \notin Name
                         /\ NoType \notin Type
                         /\ Nobody \notin Session
                         /\ PrimaryOf \in [Type -> Name \cup {NoName}]
                         /\ Roles \subseteq [Session -> SUBSET Groups]
                         /\ MaxInode \in Nat

VARIABLES cells,    \* the cells that have a directory
          dirs,     \* the cell views that have a directory
          tag,      \* the type in master.tag, NoType when absent or empty
          writing,  \* who has the master.tag that is there open for writing
          file,     \* file[v][n]: the inode of n, 0 when n is not there
          oacache,  \* the inode of .oacache, one per directory, 0 when absent
          content,  \* what each inode contains
          next,     \* the inodes created so far
          lockOf,   \* lockOf[v][n]: the owner in the lock file of n
          session,  \* is the library open in this process, and what it uses
          paths,    \* filePaths_
          held,     \* the files whose callers were told they have the lock
          call,     \* where each process is in the call it makes
          raced     \* history: see Overlaps, Meets and Pour

disk == <<cells, dirs, tag, writing, file, oacache, content, next>>
memory == <<session, paths, held>>
vars == <<disk, lockOf, memory, call, raced>>

Steps == {"idle", "truncate", "write", "create", "rest", "link", "copy",
          "fill", "pour", "rmview", "rmcell"}

SessionRecord == [is : {"open", "closed", "dead"}, uses : SUBSET Groups]

AnyName == CHOOSE n \in Name : TRUE

\* What readdir finds in a directory, and the directory itself.
Entry == [of : CellView, is : {"file", "lock"}, name : Name]
         \cup [of : CellView, is : {"tag", "cache", "dir"}, name : {AnyName}]
CacheOf(v) == [of |-> v, is |-> "cache", name |-> AnyName]

CallRecord == [at : Steps, of : SUBSET CellView, name : Name, path : Name,
               type : Type, from : 0 .. MaxInode, to : 0 .. MaxInode,
               left : SUBSET Entry]

Idle == [at |-> "idle", of |-> {}, name |-> AnyName, path |-> AnyName,
         type |-> CHOOSE t \in Type : TRUE, from |-> 0, to |-> 0, left |-> {}]

Nothing == [n \in Name |-> 0]
Unlocked == [n \in Name |-> Nobody]
NoPaths == [f \in File |-> NoName]
NoTypes == [v \in CellView |-> NoType]

\* A cell view without a directory has nothing in it.
Gone(v) == /\ tag[v] = NoType
           /\ writing[v] = {}
           /\ file[v] = Nothing
           /\ oacache[v] = 0
           /\ lockOf[v] = Unlocked

TypeOK == /\ cells \subseteq Cell
          /\ dirs \subseteq CellView
          /\ tag \in [CellView -> Type \cup {NoType}]
          /\ writing \in [CellView -> SUBSET Session]
          /\ file \in [CellView -> [Name -> 0 .. MaxInode]]
          /\ oacache \in [CellView -> 0 .. MaxInode]
          /\ content \in [1 .. MaxInode -> 0 .. MaxInode]
          /\ next \in 0 .. MaxInode
          /\ lockOf \in [CellView -> [Name -> Session \cup {Nobody}]]
          /\ session \in [Session -> SessionRecord]
          /\ paths \in [Session -> [File -> Name \cup {NoName}]]
          /\ held \in [Session -> SUBSET File]
          /\ call \in [Session -> CallRecord]
          /\ raced \subseteq CellView
          /\ \A v \in dirs : v[1] \in cells
          /\ \A v \in CellView \ dirs : Gone(v)

Init == /\ cells = {}
        /\ dirs = {}
        /\ tag = NoTypes
        /\ writing = [v \in CellView |-> {}]
        /\ file = [v \in CellView |-> Nothing]
        /\ oacache = [v \in CellView |-> 0]
        /\ content = [i \in 1 .. MaxInode |-> 0]
        /\ next = 0
        /\ lockOf = [v \in CellView |-> Unlocked]
        /\ \E r \in Roles : session = [s \in Session |->
                                      [is |-> "closed", uses |-> r[s]]]
        /\ paths = [s \in Session |-> NoPaths]
        /\ held = [s \in Session |-> {}]
        /\ call = [s \in Session |-> Idle]
        /\ raced = {}

-----------------------------------------------------------------------------
(* Names and paths.                                                        *)

\* What a logical name may resolve to in the directory: itself when it is
\* there, else what master.tag says, else, without a dot, any .oa file.
Resolve(v, n) ==
    LET tagged == tag[v] # NoType /\ PrimaryOf[tag[v]] # NoName
        oa == {m \in Oa : file[v][m] # 0}
    IN  IF file[v][n] # 0 THEN {n}
        ELSE IF tagged THEN {PrimaryOf[tag[v]]}
        ELSE IF n \in Plain /\ oa # {} THEN oa ELSE {n}

\* buildFilePath: the path kept for the object, else the name resolved now.
BuildFilePath(s, f) == IF paths[s][f] # NoName THEN {paths[s][f]}
                                               ELSE Resolve(f[1], f[2])

\* Mutant: getPath and lock do not keep the path.
KeepNoPath(s, f, p) == UNCHANGED paths

CacheFilePath(s, f, p) == paths' = [paths EXCEPT ![s][f] = p]

-----------------------------------------------------------------------------
(* Making a call and returning from it.                                    *)

Become(s, is) ==
    session' = [session EXCEPT ![s] = [is |-> is, uses |-> @.uses]]
IsOpen(s) == session[s].is = "open"
MayCall(s) == IsOpen(s) /\ call[s].at = "idle"
In(s, at) == IsOpen(s) /\ call[s].at = at

Enter(s, at, V, n, p, t) ==
    call' = [call EXCEPT ![s] = [at |-> at, of |-> V, name |-> n, path |-> p,
                                 type |-> t, from |-> 0, to |-> 0,
                                 left |-> {}]]
EnterFile(s, at, f, p) == Enter(s, at, {f[1]}, f[2], p, Idle.type)
EnterView(s, at, V, t) == Enter(s, at, V, Idle.name, Idle.path, t)
GoTo(s, at, i, j) ==
    call' = [call EXCEPT ![s] = [at |-> at, of |-> @.of, name |-> @.name,
                                 path |-> @.path, type |-> @.type, from |-> i,
                                 to |-> j, left |-> @.left]]
Return(s) == call' = [call EXCEPT ![s] = Idle]

TheView(s) == CHOOSE v \in CellView : v \in call[s].of
TheFile(s) == <<TheView(s), call[s].name>>

\* A process is between its look at .oacache and the end of its fileGetCache, or
\* in the loop that removes what is in the directory.
Caching(s, v) == /\ IsOpen(s)
                 /\ call[s].at \in {"link", "copy", "fill", "pour"}
                 /\ v \in call[s].of
Emptying(s, v) == /\ IsOpen(s)
                  /\ call[s].at \in {"rmview", "rmcell"}
                  /\ v \in call[s].of

\* History: a call that makes or removes files started in the directory while
\* another process was caching a file of it; or one that caches did, while
\* another process was doing so or emptying the directory.
Overlaps(V) == raced' = raced \cup {v \in V : \E s \in Session : Caching(s, v)}
Meets(w) == raced' = raced \cup {v \in {w} : \E s \in Session :
                                      Caching(s, v) \/ Emptying(s, v)}

\* An inode that did not exist before, containing c.
NewInode(c) == /\ next < MaxInode
               /\ next' = next + 1
               /\ content' = [content EXCEPT ![next + 1] = c]

-----------------------------------------------------------------------------
(* Opening and closing the library.                                        *)

Open(s) == /\ session[s].is = "closed"
           /\ Become(s, "open")
           /\ UNCHANGED <<disk, lockOf, paths, held, call, raced>>

\* OpenAccess closes the designs of a library, and gives up their locks,
\* before it closes the library.
LibPreClose(s) == /\ MayCall(s)
                  /\ held[s] = {}
                  /\ Become(s, "closed")
                  /\ paths' = [paths EXCEPT ![s] = NoPaths]
                  /\ UNCHANGED <<disk, lockOf, held, call, raced>>

\* Its memory is lost.  A call that was removing files or copying one stays where
\* it was.
Crash(s) == /\ IsOpen(s)
            /\ Become(s, "dead")
            /\ paths' = [paths EXCEPT ![s] = NoPaths]
            /\ held' = [held EXCEPT ![s] = {}]
            /\ IF call[s].at \in {"rest", "rmview", "rmcell", "pour"}
                 THEN UNCHANGED call ELSE Return(s)
            /\ UNCHANGED <<disk, lockOf, raced>>

-----------------------------------------------------------------------------
(* Cells and cell views.                                                   *)

CellCreate(s, c) == /\ MayCall(s)
                    /\ cells' = cells \cup {c}
                    /\ UNCHANGED <<dirs, tag, writing, file, oacache, content,
                                   next, lockOf, memory, call, raced>>

\* mkdir, which fails without the cell.
CellViewCreate(s, v, t) ==
    /\ MayCall(s)
    /\ dirs' = IF v[1] \in cells THEN dirs \cup {v} ELSE dirs
    /\ EnterView(s, "truncate", {v}, t)
    /\ UNCHANGED <<cells, tag, writing, file, oacache, content, next, lockOf,
                   memory, raced>>

\* data.dm, and master.tag, which fopen empties when another process is in it.
TruncateTag(s) ==
    LET v == TheView(s)
    IN  /\ In(s, "truncate")
        /\ IF v \in dirs THEN /\ tag' = [tag EXCEPT ![v] = NoType]
                              /\ writing' = [writing EXCEPT ![v] = @ \cup {s}]
                              /\ GoTo(s, "write", 0, 0)
                         ELSE /\ Return(s)
                              /\ UNCHANGED <<tag, writing>>
        /\ UNCHANGED <<cells, dirs, file, oacache, content, next, lockOf,
                       memory, raced>>

\* What is written into a file that has been unlinked is lost.
WriteTag(s) ==
    LET v == TheView(s)
    IN  /\ In(s, "write")
        /\ tag' = IF s \in writing[v] THEN [tag EXCEPT ![v] = call[s].type]
                                      ELSE tag
        /\ writing' = [writing EXCEPT ![v] = @ \ {s}]
        /\ Return(s)
        /\ UNCHANGED <<cells, dirs, file, oacache, content, next, lockOf,
                       memory, raced>>

\* removeDirectoryRecursive: readdir lists what is there at first, and may or may
\* not list what comes later.
There(x) == \/ x.is = "file" /\ file[x.of][x.name] # 0
            \/ x.is = "lock" /\ lockOf[x.of][x.name] # Nobody
            \/ x.is = "tag" /\ (tag[x.of] # NoType \/ writing[x.of] # {})
            \/ x.is = "cache" /\ oacache[x.of] # 0
            \/ x.is = "dir" /\ x.of \in dirs

Remove(s, at, V) ==
    /\ MayCall(s)
    /\ call' = [call EXCEPT ![s] =
                   [Idle EXCEPT !.at = at, !.of = V,
                                !.left = {x \in Entry : x.of \in V /\ There(x)}]]
    /\ Overlaps(V)
    /\ UNCHANGED <<disk, lockOf, memory>>

CellViewDestroy(s, v) == Remove(s, "rmview", {v})
CellDestroy(s, c) == Remove(s, "rmcell", {v \in CellView : v[1] = c})

\* Mutant: rmdir takes what is in the directory with it.
AlwaysEmpty(v) == TRUE

\* rmdir leaves a directory that another process put something in.
IsEmpty(v) == Gone(v)

\* One entry is unlinked, the directory after the others.
Unlink(s, x) ==
    /\ Emptying(s, x.of)
    /\ x \in call[s].left \/ There(x)
    /\ x.is = "dir" => \A y \in call[s].left : y.of = x.of => y = x
    /\ file' = IF x.is = "file" THEN [file EXCEPT ![x.of][x.name] = 0] ELSE file
    /\ lockOf' = IF x.is = "lock" THEN [lockOf EXCEPT ![x.of][x.name] = Nobody]
                 ELSE lockOf
    /\ tag' = IF x.is = "tag" THEN [tag EXCEPT ![x.of] = NoType] ELSE tag
    /\ writing' = IF x.is = "tag" THEN [writing EXCEPT ![x.of] = {}] ELSE writing
    /\ oacache' = IF x.is = "cache" THEN [oacache EXCEPT ![x.of] = 0] ELSE oacache
    /\ dirs' = IF x.is = "dir" /\ IsEmpty(x.of) THEN dirs \ {x.of} ELSE dirs
    /\ call' = [call EXCEPT ![s].left = @ \ {x}]
    /\ UNCHANGED <<cells, content, next, memory, raced>>

\* The file objects of the caller go with the cell views.  Their paths stay under
\* the addresses of the objects, where the objects of files created later may or
\* may not be found.
Forget(s) ==
    LET gone == {f \in File : f[1] \in call[s].of}
    IN  /\ held' = [held EXCEPT ![s] = @ \ gone]
        /\ \E forgotten \in SUBSET gone :
              paths' = [paths EXCEPT ![s] = [f \in File |->
                           IF f \in forgotten THEN NoName ELSE @[f]]]

CellViewRemoved(s) == /\ In(s, "rmview")
                      /\ call[s].left = {}
                      /\ Forget(s)
                      /\ Return(s)
                      /\ UNCHANGED <<disk, lockOf, session, raced>>

\* The directory of the cell stays when a cell view of it does, or when it has
\* got a file of its own meanwhile (data.dm, if it is created again).
RemoveCell(s) ==
    /\ In(s, "rmcell")
    /\ call[s].left = {}
    /\ \E C \in SUBSET {v[1] : v \in call[s].of} :
          cells' = {c \in cells : c \in C => \E v \in dirs : v[1] = c}
    /\ Forget(s)
    /\ Return(s)
    /\ UNCHANGED <<dirs, tag, writing, file, oacache, content, next, lockOf,
                   session, raced>>

-----------------------------------------------------------------------------
(* Files.                                                                  *)

\* fileCreate resolves the name, then makes the directories and the file.
FileCreate(s, f) ==
    /\ MayCall(s)
    /\ \E p \in Resolve(f[1], f[2]) : EnterFile(s, "create", f, p)
    /\ Overlaps({f[1]})
    /\ UNCHANGED <<disk, lockOf, memory>>

CreateFile(s) ==
    LET v == TheView(s)
        p == call[s].path
    IN  /\ In(s, "create")
        /\ cells' = cells \cup {v[1]}
        /\ dirs' = dirs \cup {v}
        /\ IF file[v][p] = 0
             THEN /\ NewInode(next + 1)
                  /\ file' = [file EXCEPT ![v][p] = next + 1]
             ELSE UNCHANGED <<file, content, next>>
        /\ Return(s)
        /\ UNCHANGED <<tag, writing, oacache, lockOf, memory, raced>>

\* fileDestroy unlinks the file, then its cache and lock file, whoever's.
FileDestroy(s, f) ==
    /\ MayCall(s)
    /\ \E p \in BuildFilePath(s, f) :
          /\ file' = [file EXCEPT ![f[1]][p] = 0]
          /\ EnterFile(s, "rest", f, p)
    /\ Overlaps({f[1]})
    /\ UNCHANGED <<cells, dirs, tag, writing, oacache, content, next, lockOf,
                   memory>>

\* Mutant: the cache of a file survives it.
LeaveCache(v) == UNCHANGED oacache

UnlinkCache(v) == oacache' = [oacache EXCEPT ![v] = 0]

DestroyRest(s) ==
    LET v == TheView(s)
    IN  /\ In(s, "rest")
        /\ UnlinkCache(v)
        /\ lockOf' = [lockOf EXCEPT ![v][call[s].path] = Nobody]
        /\ paths' = [paths EXCEPT ![s][TheFile(s)] = NoName]
        /\ held' = [held EXCEPT ![s] = @ \ {TheFile(s)}]
        /\ Return(s)
        /\ UNCHANGED <<cells, dirs, tag, writing, file, content, next, session,
                       raced>>

GetPath(s, f) == /\ MayCall(s)
                 /\ \E p \in BuildFilePath(s, f) : CacheFilePath(s, f, p)
                 /\ UNCHANGED <<disk, lockOf, session, held, call, raced>>

-----------------------------------------------------------------------------
(* The cache of a file: a second name for it, .oacache in its directory.   *)

\* Mutant: the look at .oacache is dropped.
AlwaysMake(v) == TRUE

\* An existing .oacache is given out as it is; otherwise it is made.
MustMake(v) == oacache[v] = 0

FileGetCache(s, f) ==
    /\ MayCall(s)
    /\ MustMake(f[1])
    /\ \E p \in BuildFilePath(s, f) : /\ file[f[1]][p] # 0
                                      /\ EnterFile(s, "link", f, p)
    /\ Meets(f[1])
    /\ UNCHANGED <<disk, lockOf, memory>>

\* link() makes the second name, ...
Link(s) == LET v == TheView(s)
               i == file[v][call[s].path]
           IN  /\ In(s, "link")
               /\ i # 0
               /\ oacache[v] = 0
               /\ oacache' = [oacache EXCEPT ![v] = i]
               /\ Return(s)
               /\ UNCHANGED <<cells, dirs, tag, writing, file, content, next,
                              lockOf, memory, raced>>

\* ... or fails: one of them is missing or there, or no links are supported.
LinkFails(s) == /\ In(s, "link")
                /\ GoTo(s, "copy", 0, 0)
                /\ UNCHANGED <<disk, lockOf, memory, raced>>

\* copyFileContents opens the file for reading ...
CopyFrom(s) ==
    LET i == file[TheView(s)][call[s].path]
    IN  /\ In(s, "copy")
        /\ IF i = 0 THEN Return(s)
                    ELSE GoTo(s, "fill", i, 0)
        /\ UNCHANGED <<disk, lockOf, memory, raced>>

\* ... and .oacache for writing, which empties what is there, if it can, ...
CopyTo(s) ==
    LET v == TheView(s)
        i == call[s].from
    IN  /\ In(s, "fill")
        /\ \/ /\ v \in dirs /\ oacache[v] = 0
              /\ NewInode(0)
              /\ oacache' = [oacache EXCEPT ![v] = next + 1]
              /\ GoTo(s, "pour", i, next + 1)
           \/ /\ v \in dirs /\ oacache[v] # 0
              /\ content' = [content EXCEPT ![oacache[v]] = 0]
              /\ GoTo(s, "pour", i, oacache[v])
              /\ UNCHANGED <<oacache, next>>
           \/ /\ Return(s)
              /\ UNCHANGED <<oacache, content, next>>
        /\ UNCHANGED <<cells, dirs, tag, writing, file, lockOf, memory, raced>>

\* ... and writes what it reads, which is nothing when the two are one file.  When
\* that fails, the empty file stays.
Pour(s) == /\ In(s, "pour")
           /\ \/ /\ content' = [content EXCEPT
                                  ![call[s].to] = content[call[s].from]]
                 /\ UNCHANGED raced
              \/ /\ raced' = raced \cup {TheView(s)}
                 /\ UNCHANGED content
           /\ Return(s)
           /\ UNCHANGED <<cells, dirs, tag, writing, file, oacache, next, lockOf,
                          memory>>

FileReleaseCache(s, v) == /\ MayCall(s)
                          /\ UnlinkCache(v)
                          /\ UNCHANGED <<cells, dirs, tag, writing, file,
                                         content, next, lockOf, memory, call,
                                         raced>>

-----------------------------------------------------------------------------
(* The edit lock of a file object.                                         *)

IsStale(v, p) == lockOf[v][p] # Nobody /\ session[lockOf[v][p]].is = "dead"

\* lock(IDMFile*) keeps the path; unlock goes by the path that was kept.  The
\* lock file needs the directory; one's own counts as locked again.
Lock(s, f) ==
    /\ MayCall(s)
    /\ \E p \in BuildFilePath(s, f) :
          LET v == f[1]
              free == lockOf[v][p] = Nobody \/ IsStale(v, p)
          IN  /\ CacheFilePath(s, f, p)
              /\ lockOf' = IF free /\ v \in dirs
                             THEN [lockOf EXCEPT ![v][p] = s] ELSE lockOf
              /\ held' = IF (free /\ v \in dirs) \/ lockOf[v][p] = s
                           THEN [held EXCEPT ![s] = @ \cup {f}] ELSE held
    /\ UNCHANGED <<disk, session, call, raced>>

Unlock(s, f) ==
    /\ MayCall(s)
    /\ \E p \in BuildFilePath(s, f) :
          lockOf' = IF lockOf[f[1]][p] = s
                     THEN [lockOf EXCEPT ![f[1]][p] = Nobody] ELSE lockOf
    /\ held' = [held EXCEPT ![s] = @ \ {f}]
    /\ UNCHANGED <<disk, session, paths, call, raced>>

\* getLockStatusPvt resolves the name again, and removes a stale lock file.
GetLockStatus(s, f) ==
    /\ MayCall(s)
    /\ \E p \in Resolve(f[1], f[2]) :
          /\ IsStale(f[1], p)
          /\ lockOf' = [lockOf EXCEPT ![f[1]][p] = Nobody]
    /\ UNCHANGED <<disk, memory, call, raced>>

-----------------------------------------------------------------------------
Creates(s) == \/ \E c \in Cell : CellCreate(s, c)
              \/ \E v \in CellView, t \in Type : CellViewCreate(s, v, t)
              \/ \E f \in File : FileCreate(s, f)
Finds(s) == \E f \in File : GetPath(s, f) \/ GetLockStatus(s, f)
Destroys(s) == \/ \E c \in Cell : CellDestroy(s, c)
               \/ \E v \in CellView : CellViewDestroy(s, v)
               \/ \E f \in File : FileDestroy(s, f)
Locks(s) == \E f \in File : Lock(s, f) \/ Unlock(s, f)
Caches(s) == \/ \E f \in File : FileGetCache(s, f)
             \/ \E v \in CellView : FileReleaseCache(s, v)

Begin(s) == /\ MayCall(s)
            /\ \/ "create" \in session[s].uses /\ Creates(s)
               \/ "find" \in session[s].uses /\ Finds(s)
               \/ "destroy" \in session[s].uses /\ Destroys(s)
               \/ "lock" \in session[s].uses /\ Locks(s)
               \/ "cache" \in session[s].uses /\ Caches(s)

Continue(s) == \/ TruncateTag(s) \/ WriteTag(s)
               \/ (\E x \in Entry : Unlink(s, x))
               \/ CellViewRemoved(s) \/ RemoveCell(s)
               \/ CreateFile(s) \/ DestroyRest(s)
               \/ Link(s) \/ LinkFails(s) \/ CopyFrom(s) \/ CopyTo(s)
               \/ Pour(s)

Next == \E s \in Session : \/ Open(s) \/ LibPreClose(s) \/ Crash(s)
                          \/ Begin(s)
                          \/ Continue(s)

Spec == Init /\ [][Next]_vars

-----------------------------------------------------------------------------
(* Properties.                                                             *)

\* Every lock file of a process that has the library open is that of a file
\* whose caller still holds the lock, and unlock would find it there: however
\* the directory changes, a lock is taken away under the path it was taken
\* with (lock and unlock go by filePaths_).
NoOrphanLock == \A s \in Session, v \in CellView, p \in Name :
                   lockOf[v][p] = s /\ session[s].is # "dead"
                   => \E n \in Name : /\ <<v, n>> \in held[s]
                                      /\ BuildFilePath(s, <<v, n>>) = {p}

\* A call has removed or may remove files of the directory and is to remove the
\* cache, or has opened the cache and is to write it, unless it has died there.
Unfinished(v) ==
    \E s \in Session :
       /\ v \in call[s].of
       /\ \/ call[s].at = "rest"
          \/ call[s].at \in {"rmview", "rmcell"} /\ CacheOf(v) \in call[s].left
          \/ call[s].at = "pour" /\ call[s].to = oacache[v]

\* What .oacache contains is in a file of its directory, unless a call that removes
\* both or fills the cache is in the middle, or a process has died there, or
\* fileGetCache has met another call in the directory or could not write a copy.
\* So calls that come one after the other, of any processes, never give out the
\* cache of a file that was removed for the file that comes after it
\* (fileGetCache, fileDestroy, removeDirectoryRecursive).
CacheOfAFile == \A v \in CellView :
                   oacache[v] # 0 /\ ~Unfinished(v) /\ v \notin raced
                   => \E n \in Name :
                         /\ file[v][n] # 0
                         /\ content[file[v][n]] = content[oacache[v]]

\* A file contains what it was created with: making a second name for it, or a
\* copy of it, does no harm to it, unless two calls met in the directory (or a
\* copy there could not be written).
ContentKept == \A v \in CellView, n \in Name :
                  file[v][n] # 0 /\ v \notin raced
                  => content[file[v][n]] = file[v][n]
=============================================================================
