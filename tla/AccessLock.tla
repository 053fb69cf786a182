----------------------------- MODULE AccessLock -----------------------------
(***************************************************************************)
(* The write access to one library: IAccessControl::getAccess and          *)
(* releaseAccess of oaDMFileSysComp and the .alock file in the library's   *)
(* root directory (src/src/aividmfilesys/oaAiviDMFileSysComp.cpp).         *)
(*                                                                         *)
(* The record in the file names host and pid, and unlike an edit lock it   *)
(* is compared without a creation time: a process that gets the pid of a   *)
(* dead one takes the dead one's lock for its own.  So processes have no   *)
(* incarnations here, and Start may bring a process back.                  *)
(*                                                                         *)
(* A component object belongs to a process, which runs one call at a time. *)
(* getAccess tries several times and sleeps in between.                    *)
(***************************************************************************)
EXTENDS Naturals

CONSTANTS Proc, Host, HostOf,
          Comp,         \* oaDMFileSysComp objects opened on the library, for
                        \* writing: getAccess refuses a read-only library
          ProcOf,       \* ProcOf[c]: the process of component c
          NoFile,
          MaxAttempts,  \* bound: attempts of one getAccess
          Settings      \* the circumstances to be looked at

\* The components that are opened; may attempts of different processes
\* interleave; may open, fdopen and fclose fail; bounds on the nested calls and
\* the read accesses of one component.
Setting == [comps : SUBSET Comp, overlap : BOOLEAN, errors : BOOLEAN,
            nested : Nat, reads : Nat]

Lock == [by : Proc, st : {"open", "empty", "full"}]

ASSUME AccessAssumption == /\ HostOf \in [Proc -> Host]
                           /\ ProcOf \in [Comp -> Proc]
                           /\ NoFile \notin Lock \cup Proc
                           /\ MaxAttempts \in Nat \ {0}
                           /\ \A s \in Settings : s \in Setting

VARIABLES env,     \* the setting, which stays as it is
          up,      \* the processes that run
          pc,      \* where each component is in its call
          left,    \* the attempts that the loop of getAccess has left
          again,   \* TRUE when the file is created after a stale one went
          locked,  \* accessLocked_
          count,   \* accessLockCount_
          uses,    \* getAccess(write) calls that are not released yet
          reads,   \* getAccess(read) calls that are not released yet
          alock    \* the .alock file

vars == <<env, up, pc, left, again, locked, count, uses, reads, alock>>

Location == {"idle", "create", "write", "read", "unlink", "sleep",
             "relRead", "relUnlink"}

TypeOK == /\ env \in Settings
          /\ up \in SUBSET Proc
          /\ pc \in [Comp -> Location]
          /\ left \in [Comp -> 0 .. MaxAttempts]
          /\ again \in [Comp -> BOOLEAN]
          /\ locked \in [Comp -> BOOLEAN]
          /\ count \in [Comp -> 0 .. env.nested]
          /\ uses \in [Comp -> 0 .. env.nested]
          /\ reads \in [Comp -> 0 .. env.reads]
          /\ alock \in Lock \cup {NoFile}

Init == /\ env \in Settings
        /\ up = {}
        /\ pc = [c \in Comp |-> "idle"]
        /\ left = [c \in Comp |-> 0]
        /\ again = [c \in Comp |-> FALSE]
        /\ locked = [c \in Comp |-> FALSE]
        /\ count = [c \in Comp |-> 0]
        /\ uses = [c \in Comp |-> 0]
        /\ reads = [c \in Comp |-> 0]
        /\ alock = NoFile

-----------------------------------------------------------------------------
HasRecord == alock # NoFile /\ alock.st = "full"

IsOwnedByCurrentProcess(c) == HasRecord /\ alock.by = ProcOf[c]

\* Mutant: the lock of a foreign host is stale when its pid is free here.
IsActiveHere(c) == HasRecord /\ HostOf[alock.by] = HostOf[ProcOf[c]]
                             /\ alock.by \in up

\* A record of another host, or of a local process that is running.  The
\* process sees its own incarnation alive, so it owns what has its pid.
IsActive(c) == /\ HasRecord
               /\ \/ HostOf[alock.by] # HostOf[ProcOf[c]]
                  \/ alock.by \in up

InCall(c) == pc[c] # "idle"

\* Between two attempts a component sleeps, and others may do what they like.
AtFiles(c) == pc[c] \notin {"idle", "sleep"}

\* The process of c can go on: it is not in a call on another component, and
\* without overlap nobody else is at the lock file.
MayRun(c) == /\ ProcOf[c] \in up
             /\ \A e \in Comp \ {c} :
                   /\ ProcOf[e] = ProcOf[c] => ~InCall(e)
                   /\ env.overlap \/ ~AtFiles(e)

GoTo(c, loc) == pc' = [pc EXCEPT ![c] = loc]

-----------------------------------------------------------------------------
(* Processes.                                                              *)

Start(p) == /\ p \notin up
            /\ \E c \in env.comps : ProcOf[c] = p
            /\ up' = up \cup {p}
            /\ UNCHANGED <<env, pc, left, again, locked, count, uses, reads,
                           alock>>

\* What the file of a process that stops writing it turns into.
Closed(p, st) == IF alock = [by |-> p, st |-> "open"]
                 THEN [by |-> p, st |-> st] ELSE alock

\* Exit or crash: nothing removes the lock, for OpenAccess never destroys the
\* component (release returns 1 and does not delete).
Stop(p) == LET Mine(f, v) == [c \in Comp |-> IF ProcOf[c] = p THEN v ELSE f[c]]
           IN /\ p \in up
              /\ up' = up \ {p}
              /\ UNCHANGED env
              /\ pc' = Mine(pc, "idle")
              /\ left' = Mine(left, 0)
              /\ again' = Mine(again, FALSE)
              /\ locked' = Mine(locked, FALSE)
              /\ count' = Mine(count, 0)
              /\ uses' = Mine(uses, 0)
              /\ reads' = Mine(reads, 0)
              /\ alock' = Closed(p, "empty")

-----------------------------------------------------------------------------
(* getAccess(oacWriteLibAccess, timeOut).                                  *)

\* The component has the lock: one more level.
GetNested(c) == /\ MayRun(c) /\ pc[c] = "idle"
                /\ locked[c] /\ count[c] < env.nested /\ uses[c] < env.nested
                /\ count' = [count EXCEPT ![c] = @ + 1]
                /\ uses' = [uses EXCEPT ![c] = @ + 1]
                /\ UNCHANGED <<env, up, pc, left, again, locked, reads, alock>>

\* getAccess(oacReadLibAccess) only looks at the directory's permissions.
GetRead(c) == /\ MayRun(c) /\ pc[c] = "idle"
              /\ reads[c] < env.reads
              /\ reads' = [reads EXCEPT ![c] = @ + 1]
              /\ UNCHANGED <<env, up, pc, left, again, locked, count, uses,
                             alock>>

GetAccess(c, n) == /\ MayRun(c) /\ pc[c] = "idle"
                   /\ ~locked[c] /\ uses[c] < env.nested
                   /\ GoTo(c, "create")
                   /\ left' = [left EXCEPT ![c] = n]
                   /\ again' = [again EXCEPT ![c] = FALSE]
                   /\ UNCHANGED <<env, up, locked, count, uses, reads, alock>>

\* tryAcquireAccessLock returns true.
Acquired(c) == /\ GoTo(c, "idle")
               /\ left' = [left EXCEPT ![c] = 0]
               /\ again' = [again EXCEPT ![c] = FALSE]
               /\ locked' = [locked EXCEPT ![c] = TRUE]
               /\ count' = [count EXCEPT ![c] = 1]
               /\ uses' = [uses EXCEPT ![c] = @ + 1]
               /\ UNCHANGED reads

\* It returns false: sleep before the next attempt, or give up.
NotAcquired(c) == /\ GoTo(c, IF left[c] > 1 THEN "sleep" ELSE "idle")
                  /\ left' = [left EXCEPT ![c] = @ - 1]
                  /\ again' = [again EXCEPT ![c] = FALSE]
                  /\ UNCHANGED <<locked, count, uses, reads>>

\* open(O_CREAT | O_EXCL).  Only the first open of an attempt looks at a file
\* that is in the way.
Create(c) ==
    /\ pc[c] = "create" /\ MayRun(c)
    /\ \/ /\ alock = NoFile
          /\ alock' = [by |-> ProcOf[c], st |-> "open"]
          /\ GoTo(c, "write")
          /\ UNCHANGED <<left, again, locked, count, uses, reads>>
       \/ /\ alock # NoFile /\ ~again[c]
          /\ GoTo(c, "read")
          /\ UNCHANGED <<left, again, locked, count, uses, reads, alock>>
       \/ /\ (alock # NoFile /\ again[c]) \/ env.errors
          /\ NotAcquired(c) /\ UNCHANGED alock
    /\ UNCHANGED <<env, up>>

\* fdopen may fail.  So may fclose, but nobody looks at its result.
Write(c) ==
    /\ pc[c] = "write" /\ MayRun(c)
    /\ \/ alock' = Closed(ProcOf[c], "full") /\ Acquired(c)
       \/ /\ env.errors
          /\ alock' = Closed(ProcOf[c], "empty")
          /\ Acquired(c) \/ NotAcquired(c)
    /\ UNCHANGED <<env, up>>

\* Mutant: somebody else's running process does not keep the lock.
ReadNoProbe(c) ==
    /\ pc[c] = "read" /\ MayRun(c)
    /\ \/ alock = NoFile /\ NotAcquired(c)
       \/ IsOwnedByCurrentProcess(c) /\ Acquired(c)
       \/ /\ alock # NoFile /\ ~IsOwnedByCurrentProcess(c)
          /\ GoTo(c, "unlink")
          /\ UNCHANGED <<left, again, locked, count, uses, reads>>
    /\ UNCHANGED <<env, up, alock>>

\* Read the record and probe its process.
Read(c) ==
    /\ pc[c] = "read" /\ MayRun(c)
    /\ \/ alock = NoFile /\ NotAcquired(c)
       \/ IsOwnedByCurrentProcess(c) /\ Acquired(c)
       \/ ~IsOwnedByCurrentProcess(c) /\ IsActive(c) /\ NotAcquired(c)
       \/ /\ alock # NoFile /\ ~IsOwnedByCurrentProcess(c) /\ ~IsActive(c)
          /\ GoTo(c, "unlink")
          /\ UNCHANGED <<left, again, locked, count, uses, reads>>
    /\ UNCHANGED <<env, up, alock>>

\* Mutant: a stale lock is waited for like any other.
KeepStale(c) == /\ pc[c] = "unlink" /\ MayRun(c)
                /\ NotAcquired(c)
                /\ UNCHANGED <<env, up, alock>>

\* The lock was stale when it was read: remove whatever is there now.
RemoveStale(c) == /\ pc[c] = "unlink" /\ MayRun(c)
                  /\ alock' = NoFile
                  /\ GoTo(c, "create")
                  /\ again' = [again EXCEPT ![c] = TRUE]
                  /\ UNCHANGED <<env, up, left, locked, count, uses, reads>>

\* Mutant: the attempts are not counted.
WakeForever(c) == /\ pc[c] = "sleep" /\ MayRun(c)
                  /\ GoTo(c, "create")
                  /\ left' = [left EXCEPT ![c] = 2]
                  /\ UNCHANGED <<env, up, again, locked, count, uses, reads,
                                 alock>>

Wake(c) == /\ pc[c] = "sleep" /\ MayRun(c)
           /\ GoTo(c, "create")
           /\ UNCHANGED <<env, up, left, again, locked, count, uses, reads,
                          alock>>

-----------------------------------------------------------------------------
(* releaseAccess, which libPreClose and onAbort also call.                  *)

\* Mutant: releaseAccess forgets the nesting.
UnlockAll(c) == /\ IF locked[c] THEN GoTo(c, "relRead") ELSE UNCHANGED pc
                /\ UNCHANGED <<env, up, left, again, locked, count, alock>>

\* Mutant: accessLocked_ is not looked at.
UnlockUnchecked(c) == /\ count' = [count EXCEPT ![c] = @ - 1]
                      /\ IF count[c] = 1
                            THEN GoTo(c, "relRead") ELSE UNCHANGED pc
                      /\ UNCHANGED <<env, up, left, again, locked, alock>>

\* One level less, and for the last one the file is looked at.
UnlockOne(c) == /\ \/ ~locked[c] /\ UNCHANGED <<pc, count>>
                   \/ /\ locked[c] /\ count[c] > 1
                      /\ count' = [count EXCEPT ![c] = @ - 1]
                      /\ UNCHANGED pc
                   \/ /\ locked[c] /\ count[c] <= 1
                      /\ GoTo(c, "relRead")
                      /\ UNCHANGED count
                /\ UNCHANGED <<env, up, left, again, locked, alock>>

\* The user of a write access, or of a read access, gives it back: releaseAccess
\* cannot tell them apart.
ReleaseAccess(c) == /\ MayRun(c) /\ pc[c] = "idle"
                    /\ \/ /\ uses[c] > 0
                          /\ uses' = [uses EXCEPT ![c] = @ - 1]
                          /\ UNCHANGED reads
                       \/ /\ reads[c] > 0
                          /\ reads' = [reads EXCEPT ![c] = @ - 1]
                          /\ UNCHANGED uses
                    /\ UnlockOne(c)

\* The library is closed whatever accesses are left, and one level is released.
LibPreClose(c) == /\ MayRun(c) /\ pc[c] = "idle"
                  /\ uses[c] + reads[c] > 0
                  /\ uses' = [uses EXCEPT ![c] = 0]
                  /\ reads' = [reads EXCEPT ![c] = 0]
                  /\ UnlockOne(c)

Unlocked(c) == /\ GoTo(c, "idle")
               /\ locked' = [locked EXCEPT ![c] = FALSE]
               /\ count' = [count EXCEPT ![c] = 0]

\* Mutant: the lock file is left where it is.
ReleaseFlagOnly(c) == /\ pc[c] = "relRead" /\ MayRun(c)
                      /\ Unlocked(c)
                      /\ UNCHANGED <<env, up, left, again, uses, reads, alock>>

ReleaseRead(c) == /\ pc[c] = "relRead" /\ MayRun(c)
                  /\ \/ /\ IsOwnedByCurrentProcess(c)
                        /\ GoTo(c, "relUnlink")
                        /\ UNCHANGED <<locked, count>>
                     \/ ~IsOwnedByCurrentProcess(c) /\ Unlocked(c)
                  /\ UNCHANGED <<env, up, left, again, uses, reads, alock>>

ReleaseUnlink(c) == /\ pc[c] = "relUnlink" /\ MayRun(c)
                    /\ alock' = NoFile
                    /\ Unlocked(c)
                    /\ UNCHANGED <<env, up, left, again, uses, reads>>

Step(c) == \/ Create(c) \/ Write(c) \/ Read(c) \/ RemoveStale(c) \/ Wake(c)
           \/ ReleaseRead(c) \/ ReleaseUnlink(c)

Call(c) == \/ GetNested(c) \/ GetRead(c) \/ ReleaseAccess(c) \/ LibPreClose(c)
           \/ \E n \in 1 .. MaxAttempts : GetAccess(c, n)

Next == \/ \E p \in Proc : Start(p) \/ Stop(p)
        \/ \E c \in env.comps : Call(c) \/ Step(c)

Spec == Init /\ [][Next]_vars

\* Calls go on, the ones that sleep included: with overlap nobody else
\* can keep a component from its next step.
FairSpec == Spec /\ \A c \in Comp : WF_vars(Step(c))

-----------------------------------------------------------------------------
(* Properties.                                                             *)

\* As long as attempts do not overlap, components of different processes never
\* both count on write access.
OneWriter == ~env.overlap =>
                 \A c, e \in Comp :
                     uses[c] > 0 /\ uses[e] > 0 => ProcOf[c] = ProcOf[e]

\* As long as one of its getAccess calls is not released, the record of the
\* process is on the disk: nested calls and releases do not lose it.  It takes
\* more than attempts that do not overlap: in the settings without overlap no
\* I/O fails, nobody asks for read access (releasing one takes a level of a write
\* access), and a process has the library open once (the first of two components
\* to release removes the record under the other).
WriterOnDisk == ~env.overlap =>
                    \A c \in Comp : uses[c] > 0 => IsOwnedByCurrentProcess(c)

\* When a component gives up the lock, at the end of its last releaseAccess,
\* no record of its process is left for others to wait for.
ReleasedIsGone ==
    [][\A c \in Comp : locked[c] /\ ~locked'[c] /\ ProcOf[c] \in up'
          => ~IsOwnedByCurrentProcess(c)']_vars

\* getAccess gives up.
TimedOut(c) == left[c] = 1 /\ left'[c] = 0 /\ ProcOf[c] \in up' /\ ~locked'[c]

\* Without overlapping attempts and failing I/O it gives up only when its last
\* look found a complete record of a process that runs, or of another host: a
\* lock left by a crash never costs a user the write access.
JustTimeout == [][~env.overlap /\ ~env.errors =>
                      \A c \in Comp : TimedOut(c) =>
                          IsActive(c) /\ ~IsOwnedByCurrentProcess(c)]_vars

\* Every call returns, whatever the others do in between: getAccess does not
\* wait forever for a lock that others keep or keep taking.
CallsReturn == \A c \in Comp : env.overlap /\ InCall(c) ~> ~InCall(c)

\* The refinement is about the settings without overlap; in the others LeaseLock
\* is shown a lock that nobody touches.
Serial(f, g) == IF env.overlap THEN g ELSE f

Lease == INSTANCE LeaseLock WITH
           Path <- {"alock"},
           User <- Proc,
           Free <- NoFile,
           live <- Serial(up, {}),
           holder <- [d \in {"alock"} |->
                         Serial(IF HasRecord THEN alock.by
                                ELSE NoFile, NoFile)],
           relies <- [p \in Proc |->
                         Serial(IF \E c \in Comp : ProcOf[c] = p /\ uses[c] > 0
                                THEN {"alock"} ELSE {}, {})]

\* The lock file implements a lease of processes, as long as attempts do not
\* overlap: a pid that comes back finds its lock as it was.
ImplementsLease == Lease!LSpec
=============================================================================
