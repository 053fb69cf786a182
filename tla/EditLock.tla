------------------------------ MODULE EditLock ------------------------------
(***************************************************************************)
(* The .cdslck edit locks of the DMFileSys plug-in                         *)
(* (src/src/aividmfilesys/oaAiviDMFileSysLocking.cpp), one step per system *)
(* call, so that the calls of several processes interleave the way the     *)
(* kernel interleaves them.                                                *)
(*                                                                         *)
(* A process is a pair (host, pid).  It starts, may crash or exit, and may *)
(* start again: the new incarnation has the same host and pid and another  *)
(* creation time, which is what reusing a pid looks like to this code.     *)
(* The lock file of path d is dir[d].  A file carries the incarnation that *)
(* created it and how far its content got:                                 *)
(*   "open"  created, the creator has not closed it: a reader sees nothing *)
(*   "empty" the creator died or failed before the content was written     *)
(*   "full"  the record of the creator is there                            *)
(* A process is one thread and writes one lock file at a time, so the      *)
(* creator and the state "open" identify a file without inode numbers.     *)
(***************************************************************************)
EXTENDS Naturals

CONSTANTS Proc,      \* the (host, pid) pairs
          Host,
          HostOf,    \* HostOf[p]: the host of p
          Path,      \* the data paths that can be locked
          NoFile,    \* dir[d] when d has no lock file
          Calls,     \* the entry points that the processes use
          Overlap,   \* the calls that may start while another is under way
          IOErrors,  \* may open, fdopen and fclose fail?
          DestroyHeld, \* may fileDestroy meet a lock that is counted on?
          MaxBorn    \* bound: incarnations per process

AllCalls == {"lock", "save", "status", "recover", "rename", "unlock",
             "cleanup", "exit", "destroy"}

Incarnation == Proc \X (1 .. MaxBorn)
File == [by : Incarnation, st : {"open", "empty", "full"}]

ASSUME ProcAssumption == /\ HostOf \in [Proc -> Host]
                         /\ Path # {}
                         /\ NoFile \notin File \cup Incarnation
                         /\ Calls \subseteq AllCalls
                         /\ Overlap \subseteq AllCalls
                         /\ IOErrors \in BOOLEAN
                         /\ DestroyHeld \in BOOLEAN
                         /\ MaxBorn \in Nat

VARIABLES pc,     \* where each process is in the call it makes
          call,   \* what it called, and for which path
          seen,   \* the process named by the record it has just read
          born,   \* the creation time of the incarnation, 0 before the first
          owned,  \* g_ownedDataPaths
          holds,  \* the paths whose callers were told they have the lock
          dir     \* the lock file of each path

vars == <<pc, call, seen, born, owned, holds, dir>>

Location == {"down", "idle", "read", "probe", "unlink", "open", "write",
             "recover", "rename", "termRead", "termUnlink", "sweep"}

\* Why a record is read: exclusiveLock, save and its second look, a status
\* query, recover, renameLock; or which call takes the lock away.
Stage == {"none", "exclusive", "save", "retry", "query", "recover",
          "rename", "unlock", "cleanup", "exit"}

CallRecord == [stage : Stage, path : Path, to : Path]

AnyPath == CHOOSE d \in Path : TRUE
NoCall == [stage |-> "none", path |-> AnyPath, to |-> AnyPath]

TypeOK == /\ pc \in [Proc -> Location]
          /\ call \in [Proc -> CallRecord]
          /\ seen \in [Proc -> Proc]
          /\ born \in [Proc -> 0 .. MaxBorn]
          /\ owned \in [Proc -> SUBSET Path]
          /\ holds \in [Proc -> SUBSET Path]
          /\ dir \in [Path -> File \cup {NoFile}]
          /\ \A p \in Proc : pc[p] # "down" => born[p] > 0

Init == /\ pc = [p \in Proc |-> "down"]
        /\ call = [p \in Proc |-> NoCall]
        /\ seen = [p \in Proc |-> p]
        /\ born = [p \in Proc |-> 0]
        /\ owned = [p \in Proc |-> {}]
        /\ holds = [p \in Proc |-> {}]
        /\ dir = [d \in Path |-> NoFile]

-----------------------------------------------------------------------------
(* What a process can tell from a lock file.                               *)

Me(p) == <<p, born[p]>>

HasRecord(d) == dir[d] # NoFile /\ dir[d].st = "full"

\* The host, the pid and the creation time in the record are all mine.
IsOwnedByCurrentProcess(p, d) == HasRecord(d) /\ dir[d].by = Me(p)

\* Mutant: every owner counts as a foreign host's, so nobody is probed.
NeverProbed(p, d) == HasRecord(d) /\ dir[d].by # Me(p)

\* The record names a process of another host, which counts as alive.
IsForeignHost(p, d) == HasRecord(d) /\ HostOf[dir[d].by[1]] # HostOf[p]

\* kill(pid, 0) finds a process with that pid, of whatever creation time.
IsProcessAlive(q) == pc[q] # "down"

Busy(p) == pc[p] \notin {"down", "idle"}

-----------------------------------------------------------------------------
(* Starting, making a call and returning from it.                          *)

Start(p) == /\ pc[p] = "down"
            /\ born[p] < MaxBorn
            /\ pc' = [pc EXCEPT ![p] = "idle"]
            /\ born' = [born EXCEPT ![p] = @ + 1]
            /\ UNCHANGED <<call, seen, owned, holds, dir>>

\* A rename that may not overlap lets no other call in either.
MayOverlap(q, c) == /\ c \in Overlap
                    /\ call[q].stage = "rename" => "rename" \in Overlap

MayCall(p, c) == /\ c \in Calls
                 /\ pc[p] = "idle"
                 /\ \A q \in Proc : Busy(q) => MayOverlap(q, c)

Enter(p, loc, stage, d, e) ==
    /\ pc' = [pc EXCEPT ![p] = loc]
    /\ call' = [call EXCEPT ![p] = [stage |-> stage, path |-> d, to |-> e]]
    /\ UNCHANGED <<seen, born, owned, dir>>

\* The caller no longer counts on the lock of these paths.
GiveUp(p, S) == holds' = [holds EXCEPT ![p] = @ \ S]

ExclusiveLock(p, d) == /\ MayCall(p, "lock")
                       /\ Enter(p, "read", "exclusive", d, AnyPath)
                       /\ UNCHANGED holds

Save(p, d) == /\ MayCall(p, "save")
              /\ Enter(p, "read", "save", d, AnyPath)
              /\ UNCHANGED holds

GetLockStatus(p, d) == /\ MayCall(p, "status")
                       /\ Enter(p, "read", "query", d, AnyPath)
                       /\ UNCHANGED holds

Recover(p, d) == /\ MayCall(p, "recover")
                 /\ Enter(p, "read", "recover", d, AnyPath)
                 /\ GiveUp(p, {d})

RenameLock(p, d, e) == /\ MayCall(p, "rename")
                       /\ Enter(p, "read", "rename", d, e)
                       /\ UNCHANGED holds

ExclusiveUnLock(p, d) == /\ MayCall(p, "unlock")
                         /\ Enter(p, "termRead", "unlock", d, AnyPath)
                         /\ GiveUp(p, {d})

\* FileSysExit unloads the plug-in and the process lives on; at the end of
\* the process atexit runs the same sweep over g_ownedDataPaths.
CleanUpOnExit(p, c) == /\ c \in {"cleanup", "exit"}
                       /\ MayCall(p, c)
                       /\ Enter(p, "sweep", c, AnyPath, AnyPath)
                       /\ GiveUp(p, Path)

\* fileDestroy removes the lock file whoever owns it, and looks at nothing.
FileDestroy(p, d) == /\ MayCall(p, "destroy")
                     /\ DestroyHeld \/ \A q \in Proc : d \notin holds[q]
                     /\ dir' = [dir EXCEPT ![d] = NoFile]
                     /\ GiveUp(p, {d})
                     /\ UNCHANGED <<pc, call, seen, born, owned>>

Begin(p) == \/ \E d \in Path : \/ ExclusiveLock(p, d)
                               \/ Save(p, d)
                               \/ GetLockStatus(p, d)
                               \/ Recover(p, d)
                               \/ ExclusiveUnLock(p, d)
                               \/ FileDestroy(p, d)
            \/ \E d, e \in Path : RenameLock(p, d, e)
            \/ \E c \in {"cleanup", "exit"} : CleanUpOnExit(p, c)

GoTo(p, loc) == /\ pc' = [pc EXCEPT ![p] = loc]
                /\ UNCHANGED <<call, owned, holds>>

Return(p) == /\ pc' = [pc EXCEPT ![p] = "idle"]
             /\ call' = [call EXCEPT ![p] = NoCall]

\* Return false, or a value that changes nothing.
ReturnOnly(p) == /\ Return(p)
                 /\ UNCHANGED <<owned, holds>>

\* exclusiveLock returns true without g_ownedDataPaths.
GrantAgain(p) == /\ Return(p)
                 /\ holds' = [holds EXCEPT ![p] = @ \cup {call[p].path}]
                 /\ UNCHANGED owned

\* save returns true.
Grant(p) == /\ Return(p)
            /\ owned' = [owned EXCEPT ![p] = @ \cup {call[p].path}]
            /\ holds' = [holds EXCEPT ![p] = @ \cup {call[p].path}]

-----------------------------------------------------------------------------
(* lockStatusForDataPath, and what each caller does with its answer.       *)

OnOwn(p) ==
    \/ call[p].stage = "exclusive" /\ GrantAgain(p)
    \/ call[p].stage \in {"save", "retry"} /\ Grant(p)
    \/ call[p].stage = "query" /\ ReturnOnly(p)
    \/ call[p].stage \in {"recover", "rename"} /\ GoTo(p, call[p].stage)

OnNotLocked(p) ==
    \/ /\ call[p].stage = "exclusive"
       /\ pc' = [pc EXCEPT ![p] = "read"]
       /\ call' = [call EXCEPT ![p].stage = "save"]
       /\ UNCHANGED <<owned, holds>>
    \/ call[p].stage \in {"save", "retry"} /\ GoTo(p, "open")
    \/ call[p].stage = "recover" /\ GoTo(p, "recover")
    \/ call[p].stage \in {"query", "rename"} /\ ReturnOnly(p)

\* Mutant: recover breaks the locks of others as well.
RecoverAnyway(p) == IF call[p].stage = "recover" THEN GoTo(p, "recover")
                                                 ELSE ReturnOnly(p)

OnForeign(p) == ReturnOnly(p)

\* Open and read the lock file.  A file without a record has pid 0, and a
\* lock of pid 0 is stale.
ReadLockRecord(p) ==
    LET d == call[p].path IN
    /\ pc[p] = "read"
    /\ \/ dir[d] = NoFile /\ OnNotLocked(p) /\ UNCHANGED seen
       \/ IsOwnedByCurrentProcess(p, d) /\ OnOwn(p) /\ UNCHANGED seen
       \/ IsForeignHost(p, d) /\ OnForeign(p) /\ UNCHANGED seen
       \/ /\ dir[d] # NoFile /\ ~HasRecord(d)
          /\ GoTo(p, "unlink") /\ UNCHANGED seen
       \/ /\ HasRecord(d)
          /\ ~IsOwnedByCurrentProcess(p, d) /\ ~IsForeignHost(p, d)
          /\ GoTo(p, "probe")
          /\ seen' = [seen EXCEPT ![p] = dir[d].by[1]]
    /\ UNCHANGED <<born, dir>>

\* kill(pid, 0) on the process whose record was read.
ProbeOwner(p) ==
    /\ pc[p] = "probe"
    /\ \/ IsProcessAlive(seen[p]) /\ OnForeign(p)
       \/ ~IsProcessAlive(seen[p]) /\ GoTo(p, "unlink")
    /\ seen' = [seen EXCEPT ![p] = p]
    /\ UNCHANGED <<born, dir>>

\* The lock was stale when it was read: remove whatever is there now.
RemoveStale(p) ==
    /\ pc[p] = "unlink"
    /\ dir' = [dir EXCEPT ![call[p].path] = NoFile]
    /\ OnNotLocked(p)
    /\ UNCHANGED <<seen, born>>

-----------------------------------------------------------------------------
(* save: create the file exclusively, then write the record.               *)

\* Mutant: save tries as often as it takes.
OpenUntilItWorks(p) ==
    LET d == call[p].path IN
    /\ pc[p] = "open"
    /\ \/ /\ dir[d] = NoFile
          /\ dir' = [dir EXCEPT ![d] = [by |-> Me(p), st |-> "open"]]
          /\ GoTo(p, "write")
       \/ /\ dir[d] # NoFile
          /\ pc' = [pc EXCEPT ![p] = "read"]
          /\ UNCHANGED <<call, owned, holds, dir>>
    /\ UNCHANGED <<seen, born>>

OpenExclusive(p) ==
    LET d == call[p].path IN
    /\ pc[p] = "open"
    /\ \/ /\ dir[d] = NoFile
          /\ dir' = [dir EXCEPT ![d] = [by |-> Me(p), st |-> "open"]]
          /\ GoTo(p, "write")
       \/ /\ dir[d] # NoFile /\ call[p].stage = "save"
          /\ pc' = [pc EXCEPT ![p] = "read"]
          /\ call' = [call EXCEPT ![p].stage = "retry"]
          /\ UNCHANGED <<owned, holds, dir>>
       \/ /\ dir[d] # NoFile /\ call[p].stage = "retry"
          /\ ReturnOnly(p) /\ UNCHANGED dir
       \/ /\ IOErrors
          /\ ReturnOnly(p) /\ UNCHANGED dir
    /\ UNCHANGED <<seen, born>>

\* The file that p has created and not closed.
HasOpen(p, d) == dir[d] # NoFile /\ dir[d].st = "open" /\ dir[d].by = Me(p)

\* What that file turns into, at whatever path it is now.  If somebody has
\* unlinked it, what p writes is lost.
Closed(p, st) == [d \in Path |-> IF HasOpen(p, d)
                                 THEN [by |-> Me(p), st |-> st]
                                 ELSE dir[d]]

\* The record reaches the file when fclose flushes it; save does not look
\* at the result of fclose, and returns false only if fdopen fails.
WriteRecord(p) ==
    /\ pc[p] = "write"
    /\ \/ dir' = Closed(p, "full") /\ Grant(p)
       \/ IOErrors /\ dir' = Closed(p, "empty") /\ Grant(p)
       \/ IOErrors /\ dir' = Closed(p, "empty") /\ ReturnOnly(p)
    /\ UNCHANGED <<seen, born>>

-----------------------------------------------------------------------------
(* terminate, cleanUpOnExit, recover and renameLock.                       *)

AfterTerminate(p) ==
    \/ /\ call[p].stage = "unlock"
       /\ Return(p)
    \/ /\ call[p].stage \in {"cleanup", "exit"}
       /\ pc' = [pc EXCEPT ![p] = "sweep"]
       /\ UNCHANGED call

Disown(p, d) == owned' = [owned EXCEPT ![p] = @ \ {d}]

\* Mutant: terminate does not ask whose lock it is.
TerminateAny(p) == /\ pc[p] = "termRead"
                   /\ GoTo(p, "termUnlink")
                   /\ UNCHANGED <<seen, born, dir>>

TerminateRead(p) ==
    LET d == call[p].path IN
    /\ pc[p] = "termRead"
    /\ \/ IsOwnedByCurrentProcess(p, d) /\ GoTo(p, "termUnlink")
       \/ /\ ~IsOwnedByCurrentProcess(p, d)
          /\ Disown(p, d) /\ AfterTerminate(p) /\ UNCHANGED holds
    /\ UNCHANGED <<seen, born, dir>>

\* Mutant: the path is forgotten and its file stays.
ForgetOnly(p) == /\ pc[p] = "termUnlink"
                 /\ Disown(p, call[p].path) /\ AfterTerminate(p)
                 /\ UNCHANGED <<seen, born, holds, dir>>

TerminateUnlink(p) ==
    LET d == call[p].path IN
    /\ pc[p] = "termUnlink"
    /\ dir' = [dir EXCEPT ![d] = NoFile]
    /\ Disown(p, d) /\ AfterTerminate(p)
    /\ UNCHANGED <<seen, born, holds>>

\* terminate every path of g_ownedDataPaths; then return, or end.
Sweep(p) ==
    /\ pc[p] = "sweep"
    /\ \/ /\ \E d \in owned[p] : call' = [call EXCEPT ![p].path = d]
          /\ pc' = [pc EXCEPT ![p] = "termRead"]
       \/ /\ owned[p] = {} /\ call[p].stage = "cleanup"
          /\ Return(p)
       \/ /\ owned[p] = {} /\ call[p].stage = "exit"
          /\ pc' = [pc EXCEPT ![p] = "down"]
          /\ call' = [call EXCEPT ![p] = NoCall]
    /\ UNCHANGED <<seen, born, owned, holds, dir>>

\* Not locked by somebody else a moment ago: remove whatever is there now.
RecoverUnlink(p) ==
    /\ pc[p] = "recover"
    /\ dir' = [dir EXCEPT ![call[p].path] = NoFile]
    /\ ReturnOnly(p)
    /\ UNCHANGED <<seen, born>>

\* rename(2) replaces a lock file of the new path, whoever owns it.
Moved(S, d, e) == IF d \in S THEN (S \ {d}) \cup {e} ELSE S

\* Mutant: g_ownedDataPaths keeps the old name.
RenameFileOnly(p) ==
    LET d == call[p].path
        e == call[p].to
    IN /\ pc[p] = "rename"
       /\ dir' = IF dir[d] = NoFile
                 THEN dir
                 ELSE [dir EXCEPT ![d] = NoFile, ![e] = dir[d]]
       /\ ReturnOnly(p)
       /\ UNCHANGED <<seen, born>>

Rename(p) ==
    LET d == call[p].path
        e == call[p].to
    IN /\ pc[p] = "rename"
       /\ \/ /\ dir[d] = NoFile
             /\ ReturnOnly(p) /\ UNCHANGED dir
          \/ /\ dir[d] # NoFile
             /\ dir' = [dir EXCEPT ![d] = NoFile, ![e] = dir[d]]
             /\ owned' = [owned EXCEPT ![p] = (@ \ {d}) \cup {e}]
             /\ holds' = [holds EXCEPT ![p] = Moved(@, d, e)]
             /\ Return(p)
       /\ UNCHANGED <<seen, born>>

\* The process dies wherever it is; the kernel closes the file it wrote.
Crash(p) == /\ pc[p] # "down"
            /\ pc' = [pc EXCEPT ![p] = "down"]
            /\ call' = [call EXCEPT ![p] = NoCall]
            /\ seen' = [seen EXCEPT ![p] = p]
            /\ owned' = [owned EXCEPT ![p] = {}]
            /\ holds' = [holds EXCEPT ![p] = {}]
            /\ dir' = Closed(p, "empty")
            /\ UNCHANGED born

Step(p) == \/ ReadLockRecord(p) \/ ProbeOwner(p) \/ RemoveStale(p)
           \/ OpenExclusive(p) \/ WriteRecord(p)
           \/ TerminateRead(p) \/ TerminateUnlink(p) \/ Sweep(p)
           \/ RecoverUnlink(p) \/ Rename(p)

Next == \E p \in Proc : Start(p) \/ Begin(p) \/ Step(p) \/ Crash(p)

Spec == Init /\ [][Next]_vars

\* A call that was made goes on: the operating system schedules everybody.
FairSpec == Spec /\ \A p \in Proc : WF_vars(Step(p))

-----------------------------------------------------------------------------
(* Properties.                                                             *)

\* No two callers in different processes both think they hold a path.
MutualExclusion == \A p, q \in Proc : p # q => holds[p] \cap holds[q] = {}

\* Who was told that it holds a path has its own record on disk there:
\* nobody took its lock away behind its back.
HolderOnDisk == \A p \in Proc :
                    \A d \in holds[p] : IsOwnedByCurrentProcess(p, d)

\* g_ownedDataPaths knows every lock file of this process, so that the sweep
\* at exit can find it.
LockFilesAreRemembered ==
    \A p \in Proc, d \in Path :
        pc[p] # "down" /\ IsOwnedByCurrentProcess(p, d) => d \in owned[p]

Exits(p) == pc[p] = "sweep" /\ pc'[p] = "down" /\ owned[p] = {}

\* A process that ends by exit leaves no lock behind, whatever the others
\* did to its lock files while it ran.
CleanExit == [][\A p \in Proc : Exits(p) =>
                    \A d \in Path : ~IsOwnedByCurrentProcess(p, d)]_vars

\* exclusiveLock and save return false.
Refused(p) == /\ call[p].stage \in {"exclusive", "save", "retry"}
              /\ pc'[p] = "idle"
              /\ call[p].path \notin holds'[p]

\* A lock is refused only for a complete record of somebody else whose pid
\* is in use, or whose host cannot be asked: a lock that a crash left, half
\* written or complete, does not block the data of this host.
NoFalseRefusal ==
    [][\A p \in Proc : Refused(p) =>
          LET d == call[p].path IN
          /\ HasRecord(d)
          /\ dir[d].by # Me(p)
          /\ \/ HostOf[dir[d].by[1]] # HostOf[p]
             \/ IsProcessAlive(dir[d].by[1])]_vars

\* Every call returns, whatever the other processes do in the meantime.
CallsReturn == \A p \in Proc : Busy(p) ~> ~Busy(p)

\* What the lock files say, in the terms of LeaseLock.
Live == {Me(p) : p \in {q \in Proc : pc[q] # "down"}}

Holder == [d \in Path |-> IF HasRecord(d) THEN dir[d].by ELSE NoFile]

Relies == [u \in Incarnation |-> IF u \in Live THEN holds[u[1]] ELSE {}]

Lease == INSTANCE LeaseLock WITH
           User <- Incarnation,
           Free <- NoFile,
           live <- Live,
           holder <- Holder,
           relies <- Relies

\* The lock files implement the lease: nobody takes away a lock that a live
\* process was told it has, and all others can be had.
ImplementsLease == Lease!LSpec

-----------------------------------------------------------------------------
(* Why the properties hold: what is true between any two steps.            *)

\* Lock files come from incarnations that have existed.
MadeByTheStarted == \A d \in Path :
                        dir[d] # NoFile => dir[d].by[2] <= born[dir[d].by[1]]

\* A file that a living process has open is the one it writes now.
OneOpenFile ==
    \A p \in Proc, d \in Path :
        pc[p] # "down" /\ HasOpen(p, d) => pc[p] = "write" /\ call[p].path = d

NobodyRenames == \A p \in Proc : /\ pc[p] # "rename"
                                 /\ call[p].stage # "rename"

\* Every lock file is in g_ownedDataPaths, however the calls overlap, and
\* this much has to be said about the files to see it.
RememberedInv == /\ MadeByTheStarted
                 /\ OneOpenFile
                 /\ NobodyRenames
                 /\ LockFilesAreRemembered

\* At most one process is inside a call.
Alone == \A p, q \in Proc : Busy(p) /\ Busy(q) => p = q

TheDeadHoldNothing == \A p \in Proc : pc[p] = "down" => holds[p] = {}

LockStages == {"save", "retry"}
ReadStages == {"exclusive", "save", "retry", "query", "recover"}
SweepStages == {"cleanup", "exit"}

\* What p is in the middle of.
StageFits(p) ==
    /\ ~Busy(p) => call[p].stage = "none"
    /\ pc[p] \in {"read", "probe", "unlink"} => call[p].stage \in ReadStages
    /\ pc[p] \in {"open", "write"} => call[p].stage \in LockStages
    /\ pc[p] = "recover" => call[p].stage = "recover"
    /\ pc[p] \in {"termRead", "termUnlink"} =>
           call[p].stage \in SweepStages \cup {"unlock"}
    /\ pc[p] = "sweep" => call[p].stage \in SweepStages

\* What p gives back it no longer counts on.
GaveUp(p) ==
    /\ call[p].stage \in SweepStages => holds[p] = {}
    /\ call[p].stage \in {"recover", "unlock"} => call[p].path \notin holds[p]

\* What p has found out about the lock file is still so when p acts on it.
StillSo(p) ==
    LET d == call[p].path IN
    /\ pc[p] = "probe" => /\ HasRecord(d)
                          /\ dir[d].by # Me(p)
                          /\ dir[d].by[1] = seen[p]
    /\ pc[p] = "unlink" /\ HasRecord(d) => dir[d].by \notin Live
    /\ pc[p] = "open" => dir[d] = NoFile
    /\ pc[p] = "write" => HasOpen(p, d)
    /\ pc[p] = "termUnlink" => IsOwnedByCurrentProcess(p, d)
    /\ pc[p] = "recover" => dir[d] = NoFile \/ IsOwnedByCurrentProcess(p, d)

\* With calls that do not overlap, every holder has its lock on disk.
SerialInv == /\ MadeByTheStarted
             /\ OneOpenFile
             /\ NobodyRenames
             /\ Alone
             /\ TheDeadHoldNothing
             /\ HolderOnDisk
             /\ \A p \in Proc : StageFits(p) /\ GaveUp(p) /\ StillSo(p)
=============================================================================
