# Verification of oaPlugin

oaPlugin is a set of OpenAccess plug-ins: data management on a file system
(aividmfilesys), a library server (aividmturbo), version control (aivivc) with a
command and a wrapper around it, library definitions (aivilibdef), a parameterised
cell evaluator (aivipcell) and two small ones. Nothing in it coordinates the
processes of the users but files: lock files, marker files, permission bits and
libraries on a shared disk. What can go wrong goes wrong between two system calls
of different processes, when a process dies, or after a long sequence of calls
that a test does not make. This project models those parts in TLA+, checks them
with TLC and proves what holds for every number of processes and paths with TLAPS.

Paths below are relative to the repository; `Locking.cpp`, `Comp.cpp`,
`Backend.cpp` stand for `src/aividmfilesys/oaAiviDMFileSysLocking.cpp`,
`src/aividmfilesys/oaAiviDMFileSysComp.cpp` and `src/aivivc/oaAiviVCBackend.cpp`.

## Inventory

| Component | State | Operations | What makes it correct |
|---|---|---|---|
| Edit locks (`Locking.cpp`, `FileLocking`) | a `.cdslck` file per data path; in the process its identity (host, pid, creation time) and `g_ownedDataPaths` | lock, save, status, recover, rename, unlock, sweep at exit and unload, `fileDestroy` | one holder per path; a holder's record stays; no lock is refused because of a dead process; exit leaves nothing behind; calls return |
| Container locks (`Locking.cpp:481-968`) | none of its own | lock, unlock and query all files of a cell, view or cell view | two users of one cell do not each keep a part |
| Library access (`Comp.cpp:305-420, 1174-1229`) | the `.alock` file; per component `accessLocked_` and a nesting count | getAccess, releaseAccess, libPreClose, onAbort | one writing process; nesting keeps the file; release removes it; a stale lock costs nobody access |
| Object store (`Comp.cpp`) | directories and files; a cache of file paths (`filePaths_`) and one of view types | create, find, destroy cells, views, cell views and files; file caches | lock and unlock go by one path; a file's cache does not outlive it and does it no harm; a directory that others use stays |
| Version control (`aivivc`) | a marker file per checked-out path, permission bits, controlled files; the plug-in | status, make editable, cancel, commit, update, set and unset controlled | overlapping checkouts have one owner; checked-out files are writable, others read-only |
| aivivc-gdm | the same files; the command | status, co, ci, cancel, update, delete, protect | the same, and a release removes the caller's markers and nobody else's |
| GDM wrapper (`gdm/aivivc_gdm_wrap.c`) | a pipe, a child process, a buffer of fixed size | start aivivc-gdm, read and parse what it prints, wait for it | an answer is what the command said or the denial; an operation succeeds only if its command did; no process and no descriptor is left; the call returns |
| SKILL callbacks | none | start aivivc-gdm | the command runs |
| Turbo plug-in and storage | the index of files, cells and views in memory, `lib.xml` and numbered data files on disk | create, open, change, close | a name keeps its data file over all that is added, closed and opened again; no data file has two names |
| Turbo server and channel | one connection at a time, a string table, one library object; per client a socket | accept, read a message, handle it, reply, drop a silent client, stop | a reply is read by the call it belongs to; what was made is found; a call returns |
| Library definitions (aivilibdef) | the list of libraries, the files being read | DEFINE, UNDEFINE, INCLUDE, ASSIGN, UNASSIGN, save | the load ends; the list is what the lines say; save and load agree |
| Pcell, text, locks plug-ins | parameters and metadata of a cell | evaluate, read, write | metadata written are metadata read |

How they interact: a design application loads the plug-ins; each application is a
process with one thread that calls them. The file system plug-in locks the files
it edits with the edit locks and takes the library access lock around changes of
the library. The version control plug-in and the command never talk to each other:
they meet in the marker directory and the permission bits of a work area, and the
Library Manager's callbacks and the GDM wrapper start one command per operation; the
wrapper reads what the command prints through a pipe. The Turbo plug-in keeps a library
of its own in `lib.xml`, and the Turbo server writes the same file. The container calls
of `Locking.cpp` are loops over the edit locks.
`PROJECT.json` lists the components with what is modelled of each, and the
hazards, each at its line.

## Modules

| Module | Models | Uses |
|---|---|---|
| `LeaseLock` | the abstract specification of a lock that a crash does not keep: acquire, release, revoke a dead holder | |
| `EditLock` | `Locking.cpp`: the `.cdslck` locks, one step per system call | implements `LeaseLock` |
| `ContainerLock` | `Locking.cpp:481-968`: locks of whole cells, views and cell views, one file after the other | extends `EditLock` |
| `AccessLock` | `Comp.cpp`: `getAccess`, `releaseAccess` and the `.alock` file | implements `LeaseLock` |
| `LibObjects` | `Comp.cpp`: cells, cell views and files on the disk, and the paths the plug-in keeps | |
| `Checkout` | `aivivc` and `aivivc-gdm` on one work area: markers, permissions, controlled files | |
| `LibDef` | `aivilibdef`: loading and saving lib.defs files, one step per line | |
| `LibDefPath` | `aivilibdef`: what a path in a line stands for, and the search for the default file | its values are `LibDef`'s constants in `LibDefMC`, whose `ASSUME` checks them |
| `GdmWrap` | `gdm/aivivc_gdm_wrap.c`: the pipe, the two processes and the answers | |
| `TurboCatalog` | the abstract specification of a library's files: a name gets a number once and for all | |
| `TurboStorage` | `aividmturbo`: the plug-in's index and `lib.xml` | implements `TurboCatalog` |
| `TurboServer` | the server and its clients | extends `TurboStorage`: both write `lib.xml` |
| `…MC` | the small instances | the module it is named after |
| `EditLockProofs`, `ContainerLockProofs`, `AccessLockProofs`, `GdmWrapProofs`, `CheckoutProofs`, `LibDefProofs`, `LibObjectsProofs`, `TurboProofs` | the theorems | the module, TLAPS |

In all of them definitions keep the names of the functions they stand for, and
`map` in `PROJECT.json` gives the lines. Some definitions are followed or preceded by
a variant marked "Mutant:", which is what a plausible mistake in the code would
make of it; no specification uses one. Each is there to show that a property
depends on the definition: put in its place, TLC finds the property violated.

### EditLock

A process is a pair (host, pid). It may crash at any step, exit, and come back with
the same pid as a new incarnation with another creation time (`ensureIdentity`).
`dir[d]` is the lock file of data path `d` with the incarnation that made it and how
far its content got: `save` opens it with `O_EXCL`, writes a record to a stdio
buffer, and only `fclose` makes the record visible. `pc` says before which system
call a process is; `call` what it was asked. The steps are those of
`exclusiveLock` (read, then `save`), `save` (read, probe the owner with `kill(pid, 0)`,
unlink a stale file, open, write, and with a lost race once more), a status query,
`recover`, `renameLock`, `exclusiveUnLock` and `cleanUpOnExit`, which go over
`g_ownedDataPaths`, the variable `owned`. `holds` is what the callers were told: it
is not in the code, and the properties are about the difference between it, `owned`
and `dir`. `fileDestroy` of the component unlinks any lock file. `Overlap` is the set of
calls that may start while another process is in one (a rename that is not in it
meets no other call), `IOErrors` whether open, fdopen and fclose fail, `Calls` which
entry points the processes use.

### ContainerLock

`lockObj`, `unlockObj` and `hasLockedFiles` of a file, or of a container with or
without its cell views, on top of `EditLock`: what happens at one path are the system
calls of `EditLock`, and `walk[p]` is the loop around them: `todo` the containers that are
not listed yet, `files` those of the last list that are left, `ok` the answer so far.
Between any two steps other processes walk, files come and go, and `fileDestroy` unlinks a
file (`DestroyData`) and then its lock, whoever owns it (`DestroyLock`). So a name can be
listed and stand for the file of `master.tag`, or for any `.oa` file, when its turn comes
(`Resolve`, which is `LibObjects!Resolve` for a fixed `master.tag`). `was`, the files that
were in the object all through the call, is not in the code.
`Overlap` is `EditLock`'s: it says whether the calls for single paths may overlap; the
walks always do. A lock of one path is a lease only if they do not (`EditLockRace`), and
`TrueMeansAll` is claimed for that case, with `DestroyHeld` and `IOErrors` false; with
overlapping calls at one path TLC refutes it by the race of `EditLockRace`. `NothingLeft`
is proved without any of these restrictions.

### AccessLock

Several components (`oaDMFileSysComp` objects) in a process share its `.alock` file
and each has `accessLocked_` and `accessLockCount_` (`locked`, `count`). `uses` and
`reads` count the accesses that the callers have not released. The record names
host and pid without a creation time, so a process with the pid of a dead one owns
the dead one's lock, and processes have no incarnations. `releaseAccess` cannot tell a
read access from a write access. An attempt that fails sleeps and is repeated
`MaxAttempts` times; during the sleep other processes run whatever `Overlap` says.

### LibObjects

Several processes (`session`) have one library open. `cells` and `dirs` are its
directories, `file[v][n]` the inode of file `n` in the directory of cell view `v`,
`tag` the type in its `master.tag`, `oacache` the inode of its `.oacache`; `content`
tells inodes apart by what is in them, because `.oacache` is a second name of the
file when `link` works and a copy when it does not. `lockOf` is the owner in the lock
file of a path, reduced to one step per call: the steps inside are `EditLock`'s.
`paths` is `filePaths_`, and `held` is what the callers
of `lock` were told. A name is looked up in three ways (`Resolve`): as it is, through the
type in `master.tag`, and as any `.oa` file, so the same object can go by another path
tomorrow; the kept path is what makes `lock` and `unlock` meet. Calls that change the
disk in several system calls are several steps (`Begin` and `Continue`), and a process may
die in front of each: `removeDirectoryRecursive` unlinks one entry after the other, in any
order (`Remove`, `Unlink`; what comes after it began to read the directory may be listed or
not), `fileDestroy` the file and then its cache and lock, and `copyFileContents` opens the
copy (`CopyTo`) before it writes it (`Pour`), which may fail. `raced` is a history of the
directories in which `fileGetCache` met another call, or could not write its copy, which
then stays there empty. Objects are not numbered: when a cell view is removed, the paths of
its files may stay in the map or not (`Forget`), for the next object may have the address of an old
one. `Roles` says which groups of calls a process makes, so that a run can ask
about editors without paying for caches.

### Checkout

A tree of paths with a marker per path, the set of writable files and directories,
and the files under control. Plug-in instances and commands are clients; each runs
one operation at a time, which is a sequence of stages: looking for overlapping
markers, writing markers, opening permissions, the version control command, which
may fail, listing and removing markers, closing permissions, and the protection of
what is not checked out. The two programs decide the same questions with different
code, and the model keeps the differences: what the plug-in removes (`cancelEdit`
removes the marker of the path whoever owns it), what the command removes (those of
its caller above and below), and that `set_tree_writable` of a file works on the
directory of the file (`Siblings`). `setting` says which backend the work area has, which
clients work on it and whether they may die; a behaviour keeps the one it starts with.

### LibDef

`stack` is the recursion of `loadLibDefList`: the files being read, with the next
line of each. `list` is the `oaLibDefList`, which outlives a load and is loaded
into again; `libsByName`, `explicitWritePath` and `allLibsTmpRoot` are the
`ParseContext` of one load. A save empties the file and writes library after library,
and the application may end in between. The files are data: TLC starts from every
text of the two files that `LibDefMC` can put together.

A line has a path as it is written (`Raw`), and what it stands for depends on the file it
is in: `Resolve`, `Join`, `Real`, `Cut`, `Rest` and `Top` are constants of `LibDef`, about which the
theorems assume their types only. Their values are `LibDefPath`'s, where a
path is the sequence of what is between its slashes: `ResolvePath` expands `~`, variables
and `$(...)` expressions and removes `.` and `..`, and `FindDefaultPath` is the file that is opened when the
application names none. `LibDefMC` lists what they are for the paths of the run, so that TLC
computes them once, and `PathAssumption` says that the list is what `LibDefPath` makes of
them; that this is where a walk through the directories leads (`Leads`), for these paths and
for all of up to four segments.

The lines of the model are what is read of the text, where paths, names and values may be in
quotes; a save writes no quotes, so what it writes is read as something else. `Cut` and
`Rest` say what DEFINE (`FirstToken`) and ASSIGN (`RestOfLine`) make of a path, and `Again`
(`AttributeAgain`) what ASSIGN makes of an attribute: a comment is stripped, blanks side by
side become one, the second word of a name becomes part of the value, and an attribute of
which no value is left is dropped. `SaveKeeps` says that every library is defined as it was, and
the ones of which all this reads the same (`Plain`) have the same paths, mode and
attributes, whatever the others look like; the run has values and paths of both kinds.
Quotes and backslashes within a path or a value, and attributes whose name begins with
`writePath`, `TMP` or `libMode`, are left out.
A file that is included through a symbolic link is the file behind
it (`Real`), which is why no file is read inside itself under another name.

Between a save and a load, `Edit` takes a line out of a file: another application or
a person changed it. `prior` is the list as it was when the load began.

### TurboStorage, TurboServer and TurboCatalog

`mem[s]` is the plug-in's `storage_` in process `s`: file records in the order in which
they were added, each with a place (library, cell, view or cell view), a name and a number,
and the next number. Every change rewrites `lib.xml` as a whole: `FOpen` empties it,
`FClose` fills it, and a crash in between leaves full buffers and a record that may end
in its number (`Torn`). Reads and writes of files may fail, and nobody looks at that: a
`fopen` for writing leaves the old `lib.xml` (`Rewrite`), a full disk a part of the new one
(`Short`), and a `lib.xml` that cannot be read gives an empty index (`LibPreOpen`), which
the next change writes. `LoadLibXml` puts every record at the level of the library and takes
the next number from the largest that it finds; names are escaped when they are written
and not back when they are read. `data[k]` says for which name data file `k` was written.

`TurboServer` has the server's loop (accept, poll, read, handle, reply), its string table
and its one library object, and clients that send a length and then the rest. A client that
stops in between holds the server up, for the five seconds are those of `poll`, and
`recvAll` waits for what is missing as long as it takes. A call whose `send` or `recv`
returns an error leaves the connection open (`amiss`): what the client sends and reads on it
later are pieces of these and earlier calls. What the library object keeps of views and cell
views is left out, for no handler reads it.
`CSMsg::send` (`oaAiviDMTurboMsg.cpp:59`) fills the message from a buffer that nobody
initialised, because `Stream::outTo` copies from the buffer into the stream: what arrives
is any message, and what a reply says is what the handler meant or garbage. A handler that
closes the library writes a stream that was never filled to `lib.xml` (`HandleCloseLib`).

`TurboCatalog` is what the files promise: a name that has a number keeps it, and a new name
gets a number that nobody has. The catalogue of a state is that of the process that has the
library open, or what a load of `lib.xml` would give. `Break` is the exception: `lib.xml`
cannot be read, or is not what it should be when its process closes it or dies, or the
server overwrites it while nobody has it open. A write that fails in between is no
exception: the session has its index, and its next write may repair `lib.xml`.

### GdmWrap

`call` is the wrapper's question or operation, `child` the process `aivivc-gdm` that it
started, `pipe` what is in the pipe and `ends` which ends each of the two has open. The text is
a sequence of pieces (a key with its `=`, half a value, a blank), so that a cut can fall into
the middle of a field. `Facts` are what may be true of a path, `StatusCode` what the command
prints of it, `FromText` what each slot of the table makes of the text and `Truth` what it
should. fork, exec, read, waitpid and the command may fail, and the command may be killed.
`Truth` is what `gdm/README.md` says of the slots, so `Truthful` names the one case
where the code says something else (`Behind`), and `GdmWrapOwn` shows it.

## Runs

| Run | Instance | Shows |
|---|---|---|
| `EditLockSerial` | 3 processes on 2 hosts, 1 path, 2 incarnations, crashes, calls that do not overlap | the lock files are a lease: `HolderOnDisk`, `NoFalseRefusal`, `ImplementsLease` |
| `EditLockOverlap` | 2 processes, 2 paths, every interleaving, failing I/O, renames by one process at a time, `fileDestroy` | `LockFilesAreRemembered`, `CleanExit`, and under fairness `CallsReturn` |
| `EditLockRace` | 2 processes that only lock, no failures | `MutualExclusion` is violated (see below) |
| `ContainerLock` | 2 processes on one host, a cell and a view with a cell view in common, 3 files of which one comes and goes | `TrueMeansAll`, `NothingLeft` |
| `AccessLock` | components and processes under several settings: 3 processes on 2 hosts one at a time; 2 components of a process and one of another in every interleaving with failing I/O and read accesses | `TypeOK`, `OneWriter`, `WriterOnDisk`, `JustTimeout`, `ImplementsLease`, `ReleasedIsGone`, and under fairness `CallsReturn` |
| `LibObjectsShared` | 2 processes, 1 cell view, 2 names, 2 types, 2 inodes; two editors, two processes that cache and destroy, an editor and one that creates and destroys | `TypeOK`, `NoOrphanLock`, `CacheOfAFile`, `ContentKept` |
| `Checkout` | a cell view with a file and a library file, 2 paths per command, Git and Subversion; the plug-in of one user and the command of another, with crashes, and one plug-in by itself without | `Exclusive`, `ReleasesOverlaps`, `OthersKeepTheirs`, `DoneIsProtected`; of the plug-in by itself also `CheckedOutWritable` |
| `CheckoutProtect` | one command | `ProtectKeepsCheckouts` is violated (see below) |
| `LibDefLoad` | 2 files of up to 3 lines and 1, one of them behind a symbolic link, 2 libraries, paths with `..`, `~`, a variable, blanks, a comment sign or a `$(...)` expression, 6 attributes, four of them in quotes, set and unset, 2 loads, saves, exits and a change of a file | `NoFileTwice`, `KnownIsListed`, `ImplicitUnderRoot`, `LoadEnds`, `LoadMeans`, `SaveKeeps` |
| `Turbo` | plug-ins one after another with 3 files; with 2 files and failing reads and writes; one client that sends anything; two clients; one whose calls may fail; a plug-in beside a client that opens and closes its library | `OwnData`, `RepliesMatch`, `MadeIsFound`, `ImplementsCatalog`, and under fairness `CallsReturn` |
| `GdmWrap` | 6 kinds of path, 10 slots, 3 names of operations, a record that fits and one that is cut in any field, a pipe of 5 pieces | `Truthful`, `SuccessIsSuccess`, `NothingLeft`, and under fairness `CallsReturn` |
| `GdmWrapOwn` | the same without noise before the record | `OwnCheckoutIsCO` is violated (see below) |

Bounds, and why they are enough to see what can happen:

- Three processes on two hosts are the fewest with a live, a dead and a foreign
  owner as seen from one of them; two incarnations make a reused pid. The
  interleavings that matter for a file are those of two processes, so the runs with
  overlapping calls have two. Locks of different paths meet in `renameLock` only: the
  run with renames has two paths.
- In `ContainerLock` a cell and a view that share a cell view are the smallest pair of
  containers that overlap without being equal, the file of the cell is one that only one
  of them has, and the third file comes and goes and stands for the primary file when it
  is away. A third process adds no new pair.
- In `Turbo` three numbers are two files and a reopened allocator, `Buffer = 2` makes a
  record that is cut off, and two clients are one that the server looks at and one that
  waits. The settings are separate because the parts meet only in `lib.xml` and `.oalib`,
  for which the last setting is. A connection on which a call has failed takes further calls
until it is `MaxBehind = 2` requests and replies behind, which is a reply of the call before
and one of a call before that; and one of the two failures that break `lib.xml` for good, and
one crash in a write, are allowed, after which all is as before. `Limit` is out of reach: with
  `Limit = 2` the catalogue is lost, as `loadLibXml` drops such records.
- In `GdmWrap` the pipe is smaller than the record, so that both sides wait for each other,
  and the buffer is as large as the longest record, so that any noise cuts it.
- `MaxAttempts = 2` has an attempt that is repeated and a last one; nesting of 2 has
  an inner release that must not unlink. The code's numbers are larger, and no step
  depends on them but through "is there another attempt" and "is it the last level".
- A marker can be above, at, below or beside a path: a directory with a file and a
  directory or file next to it has all four.
- In `LibObjects` a name with a primary file behind it and one without, under a type that
  maps to a primary file and one that does not, are all the ways in which a name is
  looked up but the search for any `.oa` file, which is in the theorems; a file, its
  copy or its successor need two inodes.
- With three lines a definition, an assignment and what undoes either come in every
  order, in one file or over an include; two files are enough for a cycle, which
  is the shortest that `activeFiles` has to find besides a file that includes
  itself. The proofs say the rest for any number of files and lines.
- `Overlap` empty or FALSE in a run says that a call starts only when no other process is in
  one. Nothing in the code enforces it: those runs show what holds of processes that
  happen not to meet, and `EditLockRace` what happens when they do.
  `AccessLock`'s and `Checkout`'s exclusion is the same kind of check, followed by a
  write, and is not claimed for overlapping calls either.

Fairness. `EditLock!FairSpec` and `AccessLock!FairSpec` have weak fairness of the steps
of each process inside a call: the operating system lets a process that can run go
on, and a system call and a sleep return. It is not assumed that a call is ever
made, nor that a lock becomes free. `LibDef!FairSpec` has weak fairness of reading:
a load is one loop in one thread. `GdmWrap!FairSpec` lets the wrapper and the command
go on, and the command prints all it has and ends; that something fails is never
assumed. `TurboServer!FairSpec` has weak fairness of the server's loop (its poll returns
after five seconds at the latest) and of a client's reading of a reply or of the end of the
connection. No client is made to send, not even the rest of a message: `CallsReturn` says that
calls return unless a client that is there has begun a message and never ends it
(`oaAiviDMTurboServerImpl.cpp:448-455`), or keeps the server busy for ever. `CHECK_DEADLOCK FALSE` is in every configuration but the two of `GdmWrap`:
processes that have used up their incarnations, a list that has been loaded `MaxLoads`
times and a library whose numbers are used up have nothing more to do.

## What the runs found

- **Two processes can hold the same edit lock** (`EditLockRace`).
  `Locking.cpp:20` says that the lock is created atomically with `O_EXCL`. The file is,
  its record is not: until `fclose` another process reads an empty file, takes pid 0
  for dead, unlinks the file and creates its own. A stale file that is replaced
  between the second process's look and its `unlink` has the same end.
- **`protect` takes the write permission of checked-out files** (`CheckoutProtect`).
  `gdm/README.md:23` promises to keep it. `protect_git_paths` picks the files that
  nobody has checked out, but `set_tree_writable` of a file walks its directory. In the
  root it includes the directory with the markers.
- **A checkout of one's own is reported as checked in when the work area is behind**
  (`GdmWrapOwn`). `gdm/README.md:64` says that `CO` stands for a checkout of the current
  user and `NULL` for a path that is checked in, and line 21 that what is below a
  checkout is reported as checked out. `status_record` (`aivivc-gdm:626-637`) asks whether an
  update is needed before it asks whose the checkout is, and then leaves `co=` empty,
  which the wrapper's slot makes `null`.

Differences between the code and what it says that the models have and no run is
spent on:

- Two `fileGetCache` of one file can empty it (`Comp.cpp:1060`: the second `link` fails,
  and the copy opens what is the file itself by now for writing), which is why
  `ContentKept` leaves `raced` out. A copy that fails, or whose process dies, leaves an
  `.oacache` that is empty, and a `fileDestroy` or a removal that dies half way one whose
  file is gone; later calls give both out. `fileDestroy` of a file that is not there removes
  the primary file.
- A rename of a lock that meets another process's lock at its source takes that lock
  along, and then `LockFilesAreRemembered` fails (`Overlap` with `rename` in it).
- `.alock` and the markers have the race of `EditLockRace`; releasing a read access takes
  a level of a write access (`Comp.cpp:1209`); the first component of a process that
  releases `.alock` removes it under the others.
- `save` of library definitions writes no quotes (`oaAiviLibDef.cpp:990-1011`): a library
  path is cut at its first blank, a write path or an attribute loses what looks like a
  comment and all but one of its blanks, and an empty attribute is lost. A save that is
  interrupted loses what was not written.
- `aivivc-gdm update` leaves the replaced files outside its targets writable.
- The wrapper takes an interrupted `read` for the end of the text, and a text that was cut
  can say `CO` for somebody else's `COE`; `Truthful` leaves the slots that are words out
  of its last part. A name such as `commit` contains `co` and runs a checkout.
- Turbo: the header has a hierarchy of cells and views (`oaDMTurboStorage.h:5`), which a
  reopened library does not have, for `loadLibXml` reads file records only. The `DMData`
  of all parents then go by one file. Special characters in names are escaped once more
  with each reopening. With two processes at a time each overwrites the other's
  `lib.xml`: `ImplementsCatalog` fails with `Overlap = TRUE`. A server that closes the
  library empties `lib.xml`; the plug-in that has it open repairs it, unless it dies first.
  That `lib.xml` could not be opened, read or written is ignored
  (`oaAiviDMTurboPlugIn.cpp:130`, `oaAiviDMTurboStorage.cpp:181, 240, 247`): a library that
  could not be read is empty, and its next write overwrites what there was; `Break` allows that.
- Turbo server: `request` (`oaAiviDMTurboMsg.cpp:88-92`) leaves the channel open when it
  fails, after which its reply is read by the next call; `RepliesMatch` is about connections
  on which no call has failed. The limit of five seconds (`oaAiviDMTurboServerImpl.cpp:409`)
  does not hold for a message that has begun. No message arrives as it was sent (`oaAiviDMTurboMsg.cpp:59`), `server.xml`
  is never written (`ServerXml::write` is a stub), an open library is not replaced by
  `OpenLib`, and `findCellView` asks only whether the strings are known. The plug-in's
  `channel_` stays null: in the repository nobody is a client of the server.

## What is proved

For any number of processes, hosts, paths, clients, users, files and lines, and any
values of the bounds, from the assumptions that the modules name (`ProcAssumption`,
`ContainerAssumption`,
`AccessAssumption`, `CheckoutAssumption`, `LibDefAssumption`, `NameAssumption`,
`StorageAssumption`, `ServerAssumption`):

| Theorem | States |
|---|---|
| `EditLockProofs!TypeCorrect` | `TypeOK` |
| `EditLockProofs!OwnLocksAreRemembered`, `ExitLeavesNoLock` | `LockFilesAreRemembered`, `CleanExit`, if nobody renames; calls overlap and fail as they like. With renames they are model-checked |
| `EditLockProofs!HoldersHaveTheirLocks`, `HoldersExclude`, `RefusalsAreJustified`, `FilesImplementLease` | `HolderOnDisk`, `MutualExclusion`, `NoFalseRefusal`, `ImplementsLease`, under `SerialUse`: calls that do not overlap, no I/O errors, no renames, and no destroy of a file whose lock somebody counts on |
| `ContainerLockProofs!WalksTypeCorrect`, `WalksAreCalls`, `UnlockIsForAll` | `CTypeOK`, that a behaviour of `ContainerLock` is one of `EditLock`, and `NothingLeft`, for any containers and files, every interleaving of the system calls, failing I/O and destroys included |
| `ContainerLockProofs!AnswerIsForAll` | `TrueMeansAll`, under `EditLockProofs!SerialUse`: every interleaving of the walks, but not of the calls at one path |
| `AccessLockProofs!TypeCorrect`, `ReleaseLeavesNothing` | `TypeOK`, `ReleasedIsGone`, in every setting |
| `AccessLockProofs!WritersAreOnDisk`, `WritersExclude`, `TimeoutsAreJust`, `FileImplementsLease` | `WriterOnDisk`, `OneWriter`, `JustTimeout`, `ImplementsLease`, under `AccessLockProofs!SerialUse`: in the settings without overlap no I/O fails, nobody asks for read access, and a process has the library open once, as in the run |
| `GdmWrapProofs!CallsLeaveNothing`, `OperationsAreHonest` | `NothingLeft`, `SuccessIsSuccess`, for any sizes of the buffer and the pipe |
| `GdmWrapProofs!AnswersAreTruthful` | `Truthful` (with its exception `Behind`), for any paths, any noise before the record and any sizes, wherever a text is cut off |
| `CheckoutProofs!TypeCorrect` | `TypeOK` |
| `CheckoutProofs!CheckoutsExclude`, `OthersAreSafe`, `NothingStaysOut`, `DoneMeansProtected` | `Exclusive`, `OthersKeepTheirs`, `ReleasesOverlaps`, `DoneIsProtected`, for calls that do not overlap, crashes included; any tree, Git and Subversion |
| `CheckoutProofs!CheckedOutStaysWritable` | `CheckedOutWritable`, for calls that do not overlap; the property itself is about the settings with `OneIdentity`, plug-ins of one identity that do not die; any tree, Git and Subversion |
| `LibDefProofs!TypeCorrect`, `IncludesAreNotRecursive`, `AssignedLibrariesExist`, `RootIsInForce` | `TypeOK`, `NoFileTwice`, `KnownIsListed`, `ImplicitUnderRoot` |
| `LibObjectsProofs!TypeCorrect`, `LocksAreFound` | `TypeOK`, and `NoOrphanLock` for any interleaving, roles and crashes |
| `LibObjectsProofs!CachesAreOfFiles`, `FilesKeepTheirContent` | `CacheOfAFile`, `ContentKept`, likewise; both are about directories in which `fileGetCache` met no other call and wrote what it copied, the first also only where no call that removes is in the middle or died there |
| `TurboProofs!TurboTypes`, `RepliesAreForTheirCalls`, `WhatIsMadeIsFound` | `ServerTypeOK`, `RepliesMatch`, `MadeIsFound`, for any number of connections, any libraries and strings; calls may fail, and the second is about connections on which none has |
| `TurboProofs!FilesHaveTheirData`, `LibXmlIsACatalog` | `OwnData`, `ImplementsCatalog`, for any cells, views and names, any size of the buffer, crashes, failing reads and writes and the server included, under `TurboProofs!SerialUse`: sessions one after another, and no number from `Limit` on |

The arguments:

- *Edit locks, overlapping.* That a process remembers its files is not inductive:
  between `O_EXCL` and `fclose` a file is not yet a lock. `RememberedInv` adds that an
  open file of a live process is the one it is writing now, and that no file is of an
  incarnation that has not existed, so a new incarnation owns nothing.
- *Edit locks, serial.* `SerialInv` says for each place in a call what is still true
  of what the process has read (`StillSo`), which is where the calls that overlap
  would break it, what stage it can be in (`StageFits`), and what it has given up
  (`GaveUp`). The refinement maps the holder of a path to the author of a complete
  record: `RemoveStale` and the unlinks of a dead incarnation's file are `Revoke`.
- *Container locks.* What a call has done is not visible in its answer until it returns.
  `Sees` says that a file that was there all the time is still to come (`Pending`) or is
  `Settled` as the answer claims: an unlocked file has no record of the caller, for nobody
  makes one in another's name and the caller writes none while it unlocks, and a locked one
  is in `holds`, which `HolderOnDisk` backs with a record when single calls do not overlap.
  `WalkFits` ties the walk to the place in `EditLock` and leaves renames out.
- *Library access.* `uses`, what the callers count on, is backed by `accessLocked_` and that
  by the record in the file (`Backed`); what an attempt has read of the file is still so
  (`StillSo`), because nobody else is at the file (`OneAtFiles`). A process may come back
  between the look at a stale lock and its removal: it then has the record of its
  predecessor but has not asked for the lock, so nothing is lost. `Fits` ties the place in a
  call to the counters in every setting. Each hypothesis of `SerialUse` is needed: a failing
  `fclose` is not noticed and leaves a flag without a record, releasing a read access takes
  a level of a write access, and the first component of a process that releases the lock
  removes the file under the second.
- *GDM wrapper.* The open ends of the pipe are a function of the two places
  (`ParentEnds`, `ChildEnds`), for every exit on either side closes its own; `Together` says
  which places go together, and `ResultInv` that the number the wrapper goes by is 0 exactly
  when the command ended well, for a signal is 128 and more. For the answers, `FlowInv` says
  that what has been read, what is in the pipe and what the command has still to print are
  together its output, so that the text is always the beginning of it (`Begins`). `Tells` says
  where each field of the record is: no value and no noise holds a key (`LacksValue`), so the
  first place of a key is its field's, and a bit found in a text that is cut off is the one
  of the whole (`BoolCut`), while a word may be half of it.
- *Checkouts.* Exclusion needs `OneCall` (one call at a time) and `MarkInv`: from the
  check to the marker no other user's marker overlaps what is going to be marked. What is
  given back follows from `ReleaseInv`: the markers still to remove are the caller's and
  all of his that overlap the area, and a command never comes to the plug-in's
  `clearCheckedOut`, which asks for no owner. What the targets overlap, their directories
  overlap too (`ScopeOverlaps`), by which a command that releases the directories of its
  files releases what lies above and below the files. What is protected follows from
  `ProtectInv`: the markers that a call has loaded are still those on the disk. That what is
  checked out can be written (`WritableInv`) needs `OpenInv`: a file below a marker that is
  read-only is about to be opened by the one call in progress, whose targets are the paths
  that it marks (`TodoInv`), and all markers are of one identity (`OwnersInv`), so that a
  protection spares them all. Each hypothesis of `OneIdentity` is needed: a call that dies
  after its marker leaves the files read-only, and another user's protection, a command's
  or a plug-in's, goes by the markers of its own caller.
- *Library definitions.* `IInv` joins the four invariants with `OneAtATime`: a
  list is never loaded and saved at once, so that nothing that is to be written is
  undefined meanwhile; `ImplicitUnderRoot` needs `KnownIsListed` where
  `applyAllLibsTmpRoot` goes over all the libraries that are known.
- *Object store.* `TypeOK` needs `CallOK`: a call about one cell view names it, and a copy
  has a source. `NoOrphanLock` follows from `LockInv`: the path of each lock is the one that is
  kept for a held file (`KeptOf`), and what a `fileDestroy` in progress has unlinked is the
  path it forgets (`RestOf`). A step of a process disturbs only what is kept of itself
  (`Safe`), so one lemma lifts the rest. `CacheInv` is about the views in which `fileGetCache` met
  no other call (`raced`): there at most one call is caching (`ViewInv`), and what it has still
  to do fits what is on the disk (`PourOK`); while a directory is being emptied, what was there
  and is not unlinked yet is still to be (`LeftOf`), so the cache without its file is one that
  the call is to remove (`EmptierOK`), and it is excused only until then (`Unfinished`); an inode is in one directory, as the file and its cache or as
  one of them, and one that is not used yet contains itself (`InodeInv`); a process that
  has closed the library is in no call (`ClosedIdle`, by which `LockInv` too says whose a
  removal half way is).
- *Turbo server.* `ChannelInv` follows a call through its stages on a connection where none has
  failed (`CallOf`): a client that waits has a request at the server or a reply to read, never
  both; one that does not wait has neither. On the others any messages and replies may be on
  the wire, but a request is left, there too, only in a connection that the server still has
  (`WireOf`), so that one made anew under the same name starts without any. `TablesInv` says that the keys in `dbLib` are
  those of what was made in it and that a string has one key, which it keeps.
- *Turbo storage.* `writeLibXml` goes over the library, the views and the cells, `findFile`
  over the library, the cells and the views, and what is read again is all in the library.
  A name is therefore found where it was only because applications' files are files of the
  library already: the order of each loop is a strict total order of finitely many files
  (`TurnOrderIs`), so each file is written once (`WrittenIs`), and those of the library in
  their order, which `Rearranges` says of the index that is read (`ReloadKeeps`). `SessionInv`
  adds that one session is open, that `lib.xml` is empty while it writes, and that `lib.xml`
  has the session's files unless it was torn, not written or not read; `OwnInv` that a number
  belongs to one name and has no data file before it is given out (`DataOK`). A step that fails
  to write leaves the session's index in force, so it maps to what it would have been. A step
  maps to `Create`, to `Break` when `lib.xml` was not read, or is not the index when its session
  ends (`OpenStep`, `CloseStep`, `CrashStep`), or the server overwrites it with none open, or to
  a stutter (`CatalogStep`).
  Both hypotheses of `SerialUse` are needed: a second session overwrites what the first has
  written, and the allocator goes on where `loadLibXml` drops records
  (`oaAiviDMTurboStorage.cpp:270`).

Only model-checked: the liveness properties, which the provers do not reach under
fairness; `LoadMeans` and `SaveKeeps`, whose meaning of a file is recursive; locks with renames; and
what the Turbo properties say of sessions that overlap, where they fail.

## Not modelled, and the plan

- `LibObjects` is to have the calls that go by `currentCell_` and `currentView_`, the view
  types of cell views (`cellViewTypes_`, which only answer the caller), and the autosave and critical-save files.
- `LibDef`: `saveAs`, which writes the same lines to another file, lines with comments or
  syntax errors, and warnings.
- The version control plug-in's enumeration of versions, switching and branching, which
  are texts of git and svn.
- The Pcell evaluator generates geometry; the metadata that its `onWrite`, `onRead` and
  `calcDiskSize` agree on are a candidate for a module of their own.
- Most of `oaAiviDMTurboBase.cpp` (cells, views, files, logs and `ServerInfo` of the base)
  is not called by the plug-in or the server.

A theorem to come: `LockFilesAreRemembered` with renames by one process at a time.

Left aside: messages and their texts (`aividmfilesysbase`), the SKILL callbacks, which
start one command, `aivitext`, which passes a bounding box through, `aivilock`, which
answers with constants, and the build scripts.
Of OpenAccess and the version control systems only what the source relies on is
modelled: a created member is found until it is destroyed, a git or svn command
succeeds or fails, and what it rewrites is writable.
