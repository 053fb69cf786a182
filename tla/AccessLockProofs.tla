-------------------------- MODULE AccessLockProofs --------------------------
(***************************************************************************)
(* Theorems about AccessLock, for any processes, hosts, components and     *)
(* settings.  What holds of attempts that do not overlap needs SerialUse:  *)
(* then each process has the library open once, no I/O fails, and nobody   *)
(* asks for read access, whose release the code takes for that of a write  *)
(* access.                                                                 *)
(***************************************************************************)
EXTENDS AccessLock, TLAPS

SerialUse == \A s \in Settings : ~s.overlap =>
                 /\ ~s.errors
                 /\ s.reads = 0
                 /\ \A c, e \in s.comps : ProcOf[c] = ProcOf[e] => c = e

Acquiring(c) == pc[c] \in {"create", "write", "read", "unlink", "sleep"}

Releasing(c) == pc[c] \in {"relRead", "relUnlink"}

\* Where a component is in its call fits its own counters, in every setting.
Fits(c) == /\ Acquiring(c) => left[c] > 0 /\ uses[c] < env.nested /\ ~locked[c]
           /\ Releasing(c) => locked[c]
           /\ c \notin env.comps \/ ProcOf[c] \notin up =>
                  pc[c] = "idle" /\ ~locked[c] /\ uses[c] = 0

CallInv == TypeOK /\ \A c \in Comp : Fits(c)

\* The flag is backed by the record, and the uses by the flag.
Backed(c) == /\ locked[c] => IsOwnedByCurrentProcess(c)
             /\ uses[c] > 0 => locked[c]
             /\ uses[c] <= count[c]
             /\ Releasing(c) => uses[c] = 0

\* What a component has learned of the file is still so.
StillSo(c) ==
    /\ pc[c] = "create" /\ again[c] => alock = NoFile
    /\ pc[c] = "write" => alock = [by |-> ProcOf[c], st |-> "open"]
    /\ pc[c] = "sleep" => ~again[c]
    /\ pc[c] = "read" => alock # NoFile
    /\ pc[c] = "unlink" => alock # NoFile /\ \A e \in Comp : ~locked[e]

OneAtFiles == \A c, e \in Comp : AtFiles(c) /\ AtFiles(e) => c = e

SerialInv == /\ OneAtFiles
             /\ \A c \in Comp : Backed(c) /\ StillSo(c)

\* The setting as SerialUse has it.
Alone == /\ ~env.overlap
         /\ ~env.errors
         /\ env.reads = 0
         /\ \A c, e \in env.comps : ProcOf[c] = ProcOf[e] => c = e

-----------------------------------------------------------------------------
LEMMA SettingType ==
    ASSUME TypeOK
    PROVE  /\ env \in Setting /\ env.nested \in Nat /\ env.reads \in Nat
           /\ env.comps \subseteq Comp
BY AccessAssumption DEF TypeOK, Setting

LEMMA InitCall == Init => CallInv
<1> SUFFICES ASSUME Init PROVE CallInv
  OBVIOUS
<1>1. env \in Setting /\ MaxAttempts \in Nat
  BY AccessAssumption DEF Init
<1>2. env.nested \in Nat /\ env.reads \in Nat
  BY <1>1 DEF Setting
<1>3. TypeOK
  BY <1>1, <1>2 DEF Init, TypeOK, Location
<1>4. \A c \in Comp : Fits(c)
  BY DEF Init, Fits, Acquiring, Releasing
<1> QED BY <1>3, <1>4 DEF CallInv

LEMMA StartCall == ASSUME CallInv, NEW p \in Proc, Start(p) PROVE CallInv'
BY DEF CallInv, Start, TypeOK, Fits, Acquiring, Releasing

LEMMA ClosedType ==
    ASSUME TypeOK, NEW p \in Proc, NEW st \in {"open", "empty", "full"}
    PROVE  Closed(p, st) \in Lock \cup {NoFile}
BY DEF TypeOK, Closed, Lock

LEMMA StopCall == ASSUME CallInv, NEW p \in Proc, Stop(p) PROVE CallInv'
<1> DEFINE Mine(f, v) == [c \in Comp |-> IF ProcOf[c] = p THEN v ELSE f[c]]
<1>0. TypeOK /\ env.nested \in Nat /\ env.reads \in Nat
  BY SettingType DEF CallInv
<1>3. /\ pc' = Mine(pc, "idle") /\ left' = Mine(left, 0)
      /\ again' = Mine(again, FALSE) /\ locked' = Mine(locked, FALSE)
      /\ count' = Mine(count, 0) /\ uses' = Mine(uses, 0)
      /\ reads' = Mine(reads, 0) /\ env' = env /\ up' = up \ {p}
      /\ alock' = Closed(p, "empty")
  BY DEF Stop
<1>4. Mine(pc, "idle") \in [Comp -> Location]
  BY <1>0 DEF TypeOK, Location
<1>5. \A f : /\ f \in [Comp -> BOOLEAN] => Mine(f, FALSE) \in [Comp -> BOOLEAN]
             /\ \A n \in Nat : f \in [Comp -> 0 .. n] =>
                                    Mine(f, 0) \in [Comp -> 0 .. n]
  <2>1. ASSUME NEW S, NEW v \in S, NEW f \in [Comp -> S]
        PROVE  Mine(f, v) \in [Comp -> S]
    OBVIOUS
  <2>2. \A n \in Nat : 0 \in 0 .. n
    OBVIOUS
  <2> HIDE DEF Mine
  <2> QED BY <2>1, <2>2
<1>6. alock' \in Lock \cup {NoFile}
  BY <1>0, <1>3, ClosedType
<1> HIDE DEF Mine
<1>1. TypeOK'
  BY <1>0, <1>3, <1>4, <1>5, <1>6, AccessAssumption DEF TypeOK
<1>2. \A c \in Comp : Fits(c)'
  BY DEF CallInv, Stop, TypeOK, Fits, Acquiring, Releasing
<1> QED BY <1>1, <1>2 DEF CallInv

LEMMA GetCall ==
    ASSUME CallInv, NEW c \in env.comps,
           \/ GetNested(c) \/ GetRead(c)
           \/ \E n \in 1 .. MaxAttempts : GetAccess(c, n)
    PROVE  CallInv'
<1>0. /\ TypeOK /\ env.nested \in Nat /\ env.reads \in Nat /\ c \in Comp
      /\ MaxAttempts \in Nat
  BY SettingType, AccessAssumption DEF CallInv
<1>3. ASSUME GetNested(c) PROVE TypeOK'
  BY <1>0, <1>3 DEF TypeOK, GetNested
<1>4. ASSUME GetRead(c) PROVE TypeOK'
  BY <1>0, <1>4 DEF TypeOK, GetRead
<1>5. ASSUME NEW n \in 1 .. MaxAttempts, GetAccess(c, n) PROVE TypeOK'
  BY <1>0, <1>5 DEF TypeOK, GetAccess, GoTo, Location
<1>1. TypeOK'
  BY <1>3, <1>4, <1>5
<1>2. \A e \in Comp : Fits(e)'
  BY SettingType, AccessAssumption
  DEF CallInv, TypeOK, Fits, Acquiring, Releasing, GetNested, GetRead,
      GetAccess, GoTo, MayRun
<1> QED BY <1>1, <1>2 DEF CallInv

LEMMA ReleaseCall ==
    ASSUME CallInv, NEW c \in env.comps, ReleaseAccess(c) \/ LibPreClose(c)
    PROVE  CallInv'
<1>1. TypeOK'
  BY SettingType, AccessAssumption
  DEF CallInv, TypeOK, ReleaseAccess, LibPreClose, UnlockOne, GoTo, Location
<1>2. \A e \in Comp : Fits(e)'
  BY SettingType, AccessAssumption
  DEF CallInv, TypeOK, Fits, Acquiring, Releasing, ReleaseAccess, LibPreClose,
      UnlockOne, GoTo, MayRun
<1> QED BY <1>1, <1>2 DEF CallInv

LEMMA StepCall == ASSUME CallInv, NEW c \in env.comps, Step(c) PROVE CallInv'
<1>0. /\ c \in Comp /\ ProcOf[c] \in Proc /\ UNCHANGED <<env, up>>
  BY SettingType, AccessAssumption
  DEF CallInv, Step, Create, Write, Read, RemoveStale, Wake, ReleaseRead,
      ReleaseUnlink
<1>1. CASE Acquired(c) /\ Acquiring(c) /\ alock' \in Lock \cup {NoFile}
  <2>1. /\ env.nested \in Nat /\ uses[c] \in Nat /\ uses[c] < env.nested
        /\ ProcOf[c] \in up
    BY <1>0, <1>1, SettingType DEF CallInv, TypeOK, Fits, Acquiring
  <2>2. TypeOK'
    BY <1>0, <1>1, <2>1, AccessAssumption
    DEF CallInv, TypeOK, Acquired, GoTo, Location
  <2>3. \A e \in Comp : Fits(e)'
    BY <1>0, <1>1, <2>1
    DEF CallInv, TypeOK, Fits, Acquiring, Releasing, Acquired, GoTo
  <2> QED BY <2>2, <2>3 DEF CallInv
<1>2. CASE NotAcquired(c) /\ Acquiring(c) /\ alock' \in Lock \cup {NoFile}
           /\ ProcOf[c] \in up
  <2>1. /\ left[c] \in 0 .. MaxAttempts /\ left[c] > 0
        /\ MaxAttempts \in Nat
    BY <1>0, <1>2, AccessAssumption DEF CallInv, TypeOK, Fits
  <2>2. left[c] - 1 \in 0 .. MaxAttempts /\ (left[c] > 1 => left[c] - 1 > 0)
    BY <2>1
  <2>3. TypeOK'
    BY <1>0, <1>2, <2>2 DEF CallInv, TypeOK, NotAcquired, GoTo, Location
  <2>4. \A e \in Comp : Fits(e)'
    BY <1>0, <1>2, <2>2
    DEF CallInv, TypeOK, Fits, Acquiring, Releasing, NotAcquired, GoTo
  <2> QED BY <2>3, <2>4 DEF CallInv
<1>3. CASE /\ Acquiring(c) /\ alock' \in Lock \cup {NoFile}
           /\ ProcOf[c] \in up
           /\ \E loc \in {"create", "write", "read", "unlink"} : GoTo(c, loc)
           /\ again' \in [Comp -> BOOLEAN]
           /\ UNCHANGED <<left, locked, count, uses, reads>>
  <2>1. TypeOK'
    BY <1>0, <1>3 DEF CallInv, TypeOK, GoTo, Location
  <2>2. \A e \in Comp : Fits(e)'
    BY <1>0, <1>3 DEF CallInv, TypeOK, Fits, Acquiring, Releasing, GoTo
  <2> QED BY <2>1, <2>2 DEF CallInv
<1>4. CASE ReleaseRead(c) \/ ReleaseUnlink(c)
  <2>0. env.nested \in Nat
    BY SettingType DEF CallInv
  <2>1. TypeOK'
    <3>1. ASSUME Unlocked(c), UNCHANGED <<left, again, uses, reads>>,
                 alock' \in Lock \cup {NoFile}
          PROVE  TypeOK'
      BY <1>0, <2>0, <3>1 DEF CallInv, TypeOK, Unlocked, GoTo, Location
    <3>2. ASSUME ReleaseRead(c), GoTo(c, "relUnlink"),
                 UNCHANGED <<locked, count>>
          PROVE  TypeOK'
      BY <1>0, <3>2 DEF CallInv, TypeOK, ReleaseRead, GoTo, Location
    <3> QED BY <1>4, <3>1, <3>2 DEF ReleaseRead, ReleaseUnlink, CallInv, TypeOK
  <2>2. \A e \in Comp : Fits(e)'
    BY <1>0, <1>4
    DEF CallInv, TypeOK, Fits, Acquiring, Releasing, ReleaseRead,
        ReleaseUnlink, Unlocked, GoTo, MayRun
  <2> QED BY <2>1, <2>2 DEF CallInv
<1>5. CASE Create(c)
  <2>1. Acquiring(c) /\ alock' \in Lock \cup {NoFile} /\ ProcOf[c] \in up
    BY <1>0, <1>5 DEF CallInv, TypeOK, Create, Acquiring, Lock, MayRun
  <2> QED BY <1>2, <1>3, <1>5, <2>1 DEF Create, CallInv, TypeOK
<1>6. CASE Write(c)
  <2>1. Acquiring(c) /\ alock' \in Lock \cup {NoFile} /\ ProcOf[c] \in up
    BY <1>0, <1>6, ClosedType DEF CallInv, Write, Acquiring, MayRun
  <2> QED BY <1>1, <1>2, <1>6, <2>1 DEF Write
<1>7. CASE Read(c)
  <2>1. Acquiring(c) /\ alock' \in Lock \cup {NoFile} /\ ProcOf[c] \in up
    BY <1>0, <1>7 DEF CallInv, TypeOK, Read, Acquiring, MayRun
  <2> QED BY <1>1, <1>2, <1>3, <1>7, <2>1 DEF Read, CallInv, TypeOK
<1>8. CASE RemoveStale(c)
  BY <1>0, <1>3, <1>8 DEF RemoveStale, CallInv, TypeOK, Acquiring, MayRun
<1>9. CASE Wake(c)
  BY <1>0, <1>3, <1>9 DEF Wake, CallInv, TypeOK, Acquiring, MayRun
<1> QED BY <1>4, <1>5, <1>6, <1>7, <1>8, <1>9 DEF Step

LEMMA NextCall == CallInv /\ [Next]_vars => CallInv'
<1> SUFFICES ASSUME CallInv, [Next]_vars PROVE CallInv'
  OBVIOUS
<1>1. CASE UNCHANGED vars
  BY <1>1 DEF vars, CallInv, TypeOK, Fits, Acquiring, Releasing
<1> QED BY <1>1, StartCall, StopCall, GetCall, ReleaseCall, StepCall
        DEF Next, Call

LEMMA CallInductive == Spec => []CallInv
BY InitCall, NextCall, PTL DEF Spec

\* Every variable of AccessLock keeps its type: no count falls below zero or
\* gets above the nested calls, and the loop of getAccess does not run on.
THEOREM TypeCorrect == Spec => []TypeOK
<1>1. CallInv => TypeOK BY DEF CallInv
<1> QED BY <1>1, CallInductive, PTL

-----------------------------------------------------------------------------
(* Releasing, in every setting.                                            *)

\* No record of its process is left when a component gives the lock up: it is
\* the last step of releaseAccess, and that has looked at the file.
THEOREM ReleaseLeavesNothing == Spec => ReleasedIsGone
<1>1. ASSUME CallInv, [Next]_vars, NEW c \in Comp,
             locked[c], ~locked'[c], ProcOf[c] \in up'
      PROVE  ~IsOwnedByCurrentProcess(c)'
  <2>1. CASE \E p \in Proc : Stop(p)
    BY <1>1, <2>1 DEF Stop, CallInv, TypeOK
  <2>2. CASE \E e \in env.comps : ReleaseRead(e) \/ ReleaseUnlink(e)
    BY <1>1, <2>2
    DEF CallInv, TypeOK, ReleaseRead, ReleaseUnlink, Unlocked,
        IsOwnedByCurrentProcess, HasRecord
  <2>3. ASSUME NEW e \in env.comps, Acquired(e) PROVE FALSE
    BY <1>1, <2>3 DEF CallInv, TypeOK, Acquired
  <2>4. CASE \E p \in Proc : Start(p)
    BY <1>1, <2>4 DEF Start
  <2>5. CASE \E e \in env.comps : Call(e)
    BY <1>1, <2>5 DEF Call, GetNested, GetRead, GetAccess, ReleaseAccess,
       LibPreClose, UnlockOne
  <2>6. CASE \E e \in env.comps : \/ Create(e) \/ Write(e) \/ Read(e)
                                  \/ RemoveStale(e) \/ Wake(e)
    BY <1>1, <2>3, <2>6
    DEF Create, Write, Read, RemoveStale, Wake, NotAcquired
  <2>7. CASE UNCHANGED vars
    BY <1>1, <2>7 DEF vars
  <2> QED BY <1>1, <2>1, <2>2, <2>4, <2>5, <2>6, <2>7 DEF Next, Step
<1>2. CallInv /\ [Next]_vars =>
          [\A c \in Comp : locked[c] /\ ~locked'[c] /\ ProcOf[c] \in up'
              => ~IsOwnedByCurrentProcess(c)']_vars
  BY <1>1
<1> QED BY <1>2, CallInductive, PTL DEF ReleasedIsGone, Spec

-----------------------------------------------------------------------------
(* Attempts that do not overlap.                                           *)

LEMMA AloneOrNot == ASSUME SerialUse, TypeOK PROVE ~env.overlap => Alone
BY DEF SerialUse, Alone, TypeOK

LEMMA InitSerial == Init => SerialInv
BY DEF Init, SerialInv, OneAtFiles, AtFiles, Backed, Releasing, StillSo

LEMMA StartSerial ==
    ASSUME SerialInv, NEW p \in Proc, Start(p) PROVE SerialInv'
BY DEF Start, SerialInv, OneAtFiles, AtFiles, Backed, Releasing, StillSo,
       IsOwnedByCurrentProcess, HasRecord

LEMMA StopSerial ==
    ASSUME CallInv, SerialInv, NEW p \in Proc, Stop(p) PROVE SerialInv'
<1>1. \A c \in Comp : /\ pc'[c] = IF ProcOf[c] = p THEN "idle" ELSE pc[c]
                      /\ locked'[c] = IF ProcOf[c] = p THEN FALSE ELSE locked[c]
                      /\ count'[c] = IF ProcOf[c] = p THEN 0 ELSE count[c]
                      /\ uses'[c] = IF ProcOf[c] = p THEN 0 ELSE uses[c]
                      /\ again'[c] = IF ProcOf[c] = p THEN FALSE ELSE again[c]
  BY DEF Stop
<1>2. /\ alock' = Closed(p, "empty")
      /\ NoFile \notin Lock /\ alock \in Lock \cup {NoFile}
  BY AccessAssumption DEF Stop, CallInv, TypeOK
<1>3. \/ alock' = alock
      \/ /\ alock = [by |-> p, st |-> "open"]
         /\ alock' = [by |-> p, st |-> "empty"]
  BY <1>2 DEF Closed
<1>4. OneAtFiles'
  BY <1>1 DEF SerialInv, OneAtFiles, AtFiles
<1>5. CASE alock' = alock
  <2>1. ASSUME NEW c \in Comp PROVE Backed(c)'
    <3>1. CASE ProcOf[c] = p
      <4>1. pc'[c] = "idle" /\ ~locked'[c] /\ count'[c] = 0 /\ uses'[c] = 0
        BY <1>1, <3>1
      <4> QED BY <4>1 DEF Backed, Releasing
    <3>2. CASE ProcOf[c] # p
      BY <1>1, <1>5, <3>2
      DEF SerialInv, Backed, Releasing, IsOwnedByCurrentProcess, HasRecord
    <3> QED BY <3>1, <3>2
  <2>2. \A c \in Comp : StillSo(c)'
    BY <1>1, <1>5 DEF SerialInv, StillSo
  <2> QED BY <1>4, <2>1, <2>2 DEF SerialInv
<1>6. CASE /\ alock = [by |-> p, st |-> "open"]
           /\ alock' = [by |-> p, st |-> "empty"]
  <2>1. /\ alock.st # "full" /\ alock.by = p
        /\ alock \in Lock /\ alock' \in Lock
    BY <1>6 DEF Lock
  <2>2. \A c \in Comp : ~locked[c]
    BY <2>1 DEF SerialInv, Backed, IsOwnedByCurrentProcess, HasRecord
  <2>3. ASSUME NEW c \in Comp PROVE Backed(c)'
    <3>1. CASE ProcOf[c] = p
      <4>1. pc'[c] = "idle" /\ ~locked'[c] /\ count'[c] = 0 /\ uses'[c] = 0
        BY <1>1, <3>1
      <4> QED BY <4>1 DEF Backed, Releasing
    <3>2. CASE ProcOf[c] # p
      BY <1>1, <2>2, <3>2 DEF SerialInv, Backed, Releasing
    <3> QED BY <3>1, <3>2
  <2>4. \A c \in Comp : pc'[c] # "write"
    BY <1>1, <1>6, <2>1 DEF SerialInv, StillSo
  <2>5. alock' # NoFile /\ alock # NoFile
    BY <1>2, <2>1
  <2>6. \A c \in Comp : StillSo(c)'
    BY <1>1, <2>2, <2>4, <2>5 DEF SerialInv, StillSo
  <2> QED BY <1>4, <2>3, <2>6 DEF SerialInv
<1> QED BY <1>3, <1>5, <1>6

LEMMA CallSerial ==
    ASSUME CallInv, SerialInv, Alone, NEW c \in env.comps, Call(c)
    PROVE  SerialInv'
<1>1. /\ c \in Comp /\ pc[c] = "idle" /\ MayRun(c) /\ UNCHANGED alock
      /\ reads[c] = 0
  BY SettingType DEF CallInv, TypeOK, Alone, Call, GetNested, GetRead,
     GetAccess, ReleaseAccess, LibPreClose, UnlockOne
<1>2. OneAtFiles'
  BY <1>1 DEF CallInv, TypeOK, Alone, MayRun, SerialInv, OneAtFiles, AtFiles,
     Call, GetNested, GetRead, GetAccess, ReleaseAccess, LibPreClose,
     UnlockOne, GoTo
<1>3. \A e \in Comp : Backed(e)'
  BY <1>1, SettingType
  DEF CallInv, TypeOK, Alone, SerialInv, Backed, Releasing,
     IsOwnedByCurrentProcess, HasRecord, Call, GetNested, GetRead, GetAccess,
     ReleaseAccess, LibPreClose, UnlockOne, GoTo
<1>4. \A e \in Comp : StillSo(e)'
  BY <1>1
  DEF CallInv, TypeOK, SerialInv, StillSo, Call, GetNested, GetRead,
     GetAccess, ReleaseAccess, LibPreClose, UnlockOne, GoTo
<1> QED BY <1>2, <1>3, <1>4 DEF SerialInv

\* Only the component that takes a step at the file is at the file.
LEMMA OthersAreAway ==
    ASSUME SerialInv, Alone, NEW c \in Comp, MayRun(c)
    PROVE  \A e \in Comp \ {c} : pc[e] \in {"idle", "sleep"}
BY DEF Alone, MayRun, AtFiles

LEMMA StepSerial ==
    ASSUME CallInv, SerialInv, Alone, NEW c \in env.comps, Step(c)
    PROVE  SerialInv'
<1>1. /\ c \in Comp /\ MayRun(c) /\ ProcOf[c] \in Proc
      /\ NoFile \notin Lock /\ alock \in Lock \cup {NoFile}
  BY SettingType, AccessAssumption
  DEF CallInv, TypeOK, Step, Create, Write, Read, RemoveStale, Wake,
      ReleaseRead, ReleaseUnlink
<1>2. \A e \in Comp \ {c} : pc[e] \in {"idle", "sleep"}
  BY <1>1, OthersAreAway
<1>3. \E loc : GoTo(c, loc)
  BY DEF Step, Create, Write, Read, RemoveStale, Wake, ReleaseRead,
     ReleaseUnlink, Acquired, NotAcquired, Unlocked
<1>4. \A e \in Comp \ {c} : pc'[e] \in {"idle", "sleep"}
  BY <1>2, <1>3 DEF GoTo, CallInv, TypeOK
<1>14. \A e \in Comp \ {c} : again'[e] = again[e]
  BY <1>1 DEF CallInv, TypeOK, Step, Create, Write, Read, RemoveStale, Wake,
     ReleaseRead, ReleaseUnlink, Acquired, NotAcquired, Unlocked
<1>15. \A e \in Comp \ {c} : pc'[e] = pc[e]
  BY <1>3 DEF GoTo, CallInv, TypeOK
<1>16. \A e \in Comp \ {c} : StillSo(e)'
  BY <1>2, <1>14, <1>15 DEF StillSo, SerialInv
<1>5. OneAtFiles'
  BY <1>4 DEF OneAtFiles, AtFiles
<1>6. ASSUME Acquired(c), pc[c] \in {"write", "read"},
             IsOwnedByCurrentProcess(c)', HasRecord => UNCHANGED alock
      PROVE  SerialInv'
  <2>1. uses[c] = 0
    BY <1>1, <1>6 DEF CallInv, TypeOK, Fits, Acquiring, SerialInv, Backed
  <2>2. \A e \in Comp : Backed(e)'
    BY <1>1, <1>2, <1>6, <2>1
    DEF CallInv, TypeOK, SerialInv, Backed, Releasing, Acquired, GoTo,
        IsOwnedByCurrentProcess
  <2>3. \A e \in Comp : StillSo(e)'
    BY <1>1, <1>16, <1>6 DEF CallInv, TypeOK, StillSo, Acquired, GoTo
  <2> QED BY <1>5, <2>2, <2>3 DEF SerialInv
<1>7. ASSUME NotAcquired(c), UNCHANGED alock PROVE SerialInv'
  <2>1. \A e \in Comp : Backed(e)'
    BY <1>1, <1>2, <1>7
    DEF CallInv, TypeOK, SerialInv, Backed, Releasing, NotAcquired, GoTo,
        IsOwnedByCurrentProcess, HasRecord
  <2>2. \A e \in Comp : StillSo(e)'
    BY <1>1, <1>16, <1>7 DEF CallInv, TypeOK, StillSo, NotAcquired, GoTo
  <2> QED BY <1>5, <2>1, <2>2 DEF SerialInv
<1>8. CASE Create(c)
  <2>1. ASSUME alock = NoFile, alock' = [by |-> ProcOf[c], st |-> "open"],
               GoTo(c, "write"),
               UNCHANGED <<left, again, locked, count, uses, reads>>
        PROVE  SerialInv'
    <3>1. \A e \in Comp : ~locked[e]
      BY <2>1 DEF SerialInv, Backed, IsOwnedByCurrentProcess, HasRecord
    <3>2. \A e \in Comp : Backed(e)'
      BY <1>1, <1>2, <2>1, <3>1
      DEF CallInv, TypeOK, SerialInv, Backed, Releasing, GoTo
    <3>3. \A e \in Comp : StillSo(e)'
      BY <1>1, <1>16, <2>1 DEF CallInv, TypeOK, StillSo, GoTo
    <3> QED BY <1>5, <3>2, <3>3 DEF SerialInv
  <2>2. ASSUME alock # NoFile, GoTo(c, "read"),
               UNCHANGED <<left, again, locked, count, uses, reads, alock>>
        PROVE  SerialInv'
    <3>1. \A e \in Comp : Backed(e)'
      BY <1>1, <1>2, <2>2
      DEF CallInv, TypeOK, SerialInv, Backed, Releasing, GoTo,
          IsOwnedByCurrentProcess, HasRecord
    <3>2. \A e \in Comp : StillSo(e)'
      BY <1>1, <1>16, <2>2 DEF CallInv, TypeOK, StillSo, GoTo
    <3> QED BY <1>5, <3>1, <3>2 DEF SerialInv
  <2> QED BY <1>7, <1>8, <2>1, <2>2 DEF Create
<1>9. CASE Write(c)
  <2>1. /\ alock = [by |-> ProcOf[c], st |-> "open"] /\ pc[c] = "write"
        /\ Acquired(c) /\ alock' = Closed(ProcOf[c], "full")
    BY <1>1, <1>9 DEF Write, Alone, SerialInv, StillSo
  <2>2. alock' = [by |-> ProcOf[c], st |-> "full"]
    BY <2>1 DEF Closed
  <2>3. alock.st = "open" /\ alock'.by = ProcOf[c] /\ alock'.st = "full"
        /\ alock' \in Lock
    BY <1>1, <2>1, <2>2 DEF Lock
  <2>4. IsOwnedByCurrentProcess(c)' /\ ~HasRecord
    BY <1>1, <2>3 DEF IsOwnedByCurrentProcess, HasRecord
  <2> QED BY <1>6, <2>1, <2>4
<1>10. CASE Read(c)
  <2>1. ASSUME alock # NoFile, ~IsOwnedByCurrentProcess(c), ~IsActive(c),
               GoTo(c, "unlink"), pc[c] = "read",
               UNCHANGED <<up, left, again, locked, count, uses, reads, alock>>
        PROVE  SerialInv'
    <3>1. \A e \in Comp : ~locked[e]
      <4> SUFFICES ASSUME NEW e \in Comp, locked[e] PROVE FALSE
        OBVIOUS
      <4>1. IsOwnedByCurrentProcess(e) /\ ProcOf[e] \in up
        BY DEF SerialInv, Backed, CallInv, Fits
      <4> QED BY <2>1, <4>1 DEF IsOwnedByCurrentProcess, IsActive
    <3>2. \A e \in Comp : Backed(e)'
      BY <1>1, <1>2, <2>1, <3>1
      DEF CallInv, TypeOK, SerialInv, Backed, Releasing, GoTo
    <3>3. \A e \in Comp : StillSo(e)'
      BY <1>1, <1>16, <2>1, <3>1 DEF CallInv, TypeOK, StillSo, GoTo
    <3> QED BY <1>5, <3>2, <3>3 DEF SerialInv
  <2>2. ASSUME IsOwnedByCurrentProcess(c), Acquired(c), UNCHANGED alock,
               pc[c] = "read"
        PROVE  SerialInv'
    BY <1>6, <2>2 DEF IsOwnedByCurrentProcess, HasRecord
  <2> QED BY <1>7, <1>10, <2>1, <2>2 DEF Read
<1>11. CASE RemoveStale(c)
  <2>1. \A e \in Comp : ~locked[e]
    BY <1>1, <1>11 DEF RemoveStale, SerialInv, StillSo
  <2>2. \A e \in Comp : Backed(e)'
    BY <1>1, <1>2, <1>11, <2>1
    DEF CallInv, TypeOK, SerialInv, Backed, Releasing, GoTo, RemoveStale
  <2>3. \A e \in Comp : StillSo(e)'
    BY <1>1, <1>16, <1>11 DEF CallInv, TypeOK, StillSo, GoTo, RemoveStale
  <2> QED BY <1>5, <2>2, <2>3 DEF SerialInv
<1>12. CASE Wake(c)
  <2>1. \A e \in Comp : Backed(e)'
    BY <1>1, <1>2, <1>12
    DEF CallInv, TypeOK, SerialInv, Backed, Releasing, GoTo, Wake,
        IsOwnedByCurrentProcess, HasRecord
  <2>2. \A e \in Comp : StillSo(e)'
    BY <1>1, <1>16, <1>12 DEF CallInv, TypeOK, StillSo, GoTo, Wake, SerialInv
  <2> QED BY <1>5, <2>1, <2>2 DEF SerialInv
<1>13. CASE ReleaseRead(c) \/ ReleaseUnlink(c)
  <2>1. pc[c] \in {"relRead", "relUnlink"} /\ uses[c] = 0 /\ UNCHANGED uses
        /\ locked[c] /\ IsOwnedByCurrentProcess(c)
    BY <1>1, <1>13 DEF ReleaseRead, ReleaseUnlink, SerialInv, Backed,
       Releasing, CallInv, Fits
  <2>2. \A e \in Comp \ {c} : ~locked[e]
    <3> SUFFICES ASSUME NEW e \in Comp \ {c}, locked[e] PROVE FALSE
      OBVIOUS
    <3>1. IsOwnedByCurrentProcess(e) /\ e \in env.comps
      BY DEF SerialInv, Backed, CallInv, Fits
    <3> QED BY <2>1, <3>1 DEF IsOwnedByCurrentProcess, Alone
  <2>3. \A e \in Comp : Backed(e)'
    BY <1>1, <1>2, <1>13, <2>1, <2>2
    DEF CallInv, TypeOK, SerialInv, Backed, Releasing, GoTo, ReleaseRead,
        ReleaseUnlink, Unlocked, IsOwnedByCurrentProcess, HasRecord
  <2>4. \A e \in Comp : StillSo(e)'
    BY <1>1, <1>16, <1>13 DEF CallInv, TypeOK, StillSo, GoTo, ReleaseRead,
       ReleaseUnlink, Unlocked
  <2> QED BY <1>5, <2>3, <2>4 DEF SerialInv
<1> QED BY <1>8, <1>9, <1>10, <1>11, <1>12, <1>13 DEF Step

\* The setting stays, so one without overlap stays without.
LEMMA NextSerial ==
    ASSUME SerialUse, CallInv, [Next]_vars,
           ~env.overlap => SerialInv
    PROVE  ~env'.overlap => SerialInv'
<1> SUFFICES ASSUME ~env'.overlap PROVE SerialInv'
  OBVIOUS
<1>1. UNCHANGED env
  BY DEF Next, vars, Start, Stop, Call, GetNested, GetRead, GetAccess,
     ReleaseAccess, LibPreClose, UnlockOne, Step, Create, Write, Read,
     RemoveStale, Wake, ReleaseRead, ReleaseUnlink
<1>2. SerialInv /\ Alone
  BY <1>1, AloneOrNot DEF CallInv
<1>3. CASE UNCHANGED vars
  BY <1>2, <1>3 DEF vars, SerialInv, OneAtFiles, AtFiles, Backed, Releasing,
     StillSo, IsOwnedByCurrentProcess, HasRecord
<1> QED BY <1>2, <1>3, StartSerial, StopSerial, CallSerial, StepSerial
        DEF Next

IInv == CallInv /\ (~env.overlap => SerialInv)

LEMMA Inductive == SerialUse /\ Spec => []IInv
<1> SUFFICES ASSUME SerialUse PROVE Spec => []IInv
  OBVIOUS
<1>1. Init => IInv
  BY InitCall, InitSerial DEF IInv
<1>2. IInv /\ [Next]_vars => IInv'
  BY NextCall, NextSerial DEF IInv
<1> QED BY <1>1, <1>2, PTL DEF Spec

\* While one of its getAccess calls is not released, a process has its record in
\* .alock: nested calls and releases do not lose it.
THEOREM WritersAreOnDisk == SerialUse /\ Spec => []WriterOnDisk
<1>1. IInv => WriterOnDisk
  BY DEF IInv, WriterOnDisk, SerialInv, Backed
<1> QED BY <1>1, Inductive, PTL

\* Components of different processes never both count on write access.
THEOREM WritersExclude == SerialUse /\ Spec => []OneWriter
<1>1. IInv => OneWriter
  BY DEF IInv, OneWriter, SerialInv, Backed, IsOwnedByCurrentProcess
<1> QED BY <1>1, Inductive, PTL

\* getAccess gives up only when its last look found a complete record of
\* somebody else who runs, or is on another host: a crash costs nobody access.
THEOREM TimeoutsAreJust == SerialUse /\ Spec => JustTimeout
<1>1. ASSUME IInv, [Next]_vars, ~env.overlap, ~env.errors,
             NEW c \in Comp, TimedOut(c)
      PROVE  IsActive(c) /\ ~IsOwnedByCurrentProcess(c)
  <2>1. SerialInv /\ CallInv /\ left[c] = 1 /\ left'[c] = 0
        /\ ~locked'[c] /\ ProcOf[c] \in up'
    BY <1>1 DEF IInv, TimedOut
  <2>2. CASE \E p \in Proc : Start(p)
    BY <2>1, <2>2 DEF Start
  <2>3. CASE \E p \in Proc : Stop(p)
    BY <2>1, <2>3 DEF Stop, CallInv, TypeOK
  <2>4. ASSUME NEW e \in env.comps, Acquired(e) PROVE e # c
    BY <2>1, <2>4 DEF Acquired, CallInv, TypeOK
  <2>5. ASSUME NEW e \in env.comps, Call(e) PROVE FALSE
    BY <2>1, <2>5, SettingType, AccessAssumption
    DEF Call, GetNested, GetRead, GetAccess, ReleaseAccess,
        LibPreClose, UnlockOne, CallInv, TypeOK
  <2>6. ASSUME NEW e \in env.comps, e # c, Step(e) PROVE FALSE
    BY <2>1, <2>6 DEF Step, Create, Write, Read, RemoveStale, Wake,
       ReleaseRead, ReleaseUnlink, Acquired, NotAcquired, CallInv, TypeOK
  <2>7. CASE Create(c)
    BY <1>1, <2>1, <2>7 DEF Create, SerialInv, StillSo
  <2>8. CASE Read(c)
    BY <2>1, <2>4, <2>8 DEF Read, Acquired, SerialInv, StillSo, CallInv, TypeOK
  <2>9. CASE Write(c)
    BY <1>1, <2>1, <2>9 DEF Write, Acquired, CallInv, TypeOK
  <2>10. CASE RemoveStale(c) \/ Wake(c) \/ ReleaseRead(c) \/ ReleaseUnlink(c)
    BY <2>1, <2>10 DEF RemoveStale, Wake, ReleaseRead, ReleaseUnlink
  <2>11. CASE UNCHANGED vars
    BY <2>1, <2>11 DEF vars
  <2> QED BY <1>1, <2>2, <2>3, <2>5, <2>6, <2>7, <2>8, <2>9, <2>10, <2>11
          DEF Next, Step
<1>2. IInv /\ [Next]_vars =>
          [~env.overlap /\ ~env.errors =>
              \A c \in Comp : TimedOut(c) =>
                  IsActive(c) /\ ~IsOwnedByCurrentProcess(c)]_vars
  BY <1>1
<1> QED BY <1>2, Inductive, PTL DEF JustTimeout, Spec

-----------------------------------------------------------------------------
(* The lease.                                                              *)

Holder == IF HasRecord THEN alock.by ELSE NoFile

Relies(p) == IF \E c \in Comp : ProcOf[c] = p /\ uses[c] > 0
             THEN {"alock"} ELSE {}

\* What the steps of the lease are in these terms.
LEMMA LeaseStutters ==
    ASSUME ~env.overlap, UNCHANGED <<env, up>>, Holder' = Holder,
           \A p \in Proc : Relies(p)' = Relies(p)
    PROVE  UNCHANGED Lease!lvars
BY DEF Lease!lvars, Serial, Holder, Relies

LEMMA LeaseJoins ==
    ASSUME ~env.overlap, UNCHANGED env, NEW p \in Proc, p \notin up,
           up' = up \cup {p}, Holder' = Holder,
           \A q \in Proc : Relies(q)' = Relies(q)
    PROVE  Lease!LNext
<1>1. Lease!Join(p)
  BY DEF Lease!Join, Serial, Holder, Relies
<1> QED BY <1>1 DEF Lease!LNext

LEMMA LeaseLeaves ==
    ASSUME ~env.overlap, UNCHANGED env, NEW p \in Proc, p \in up,
           up' = up \ {p}, Holder' = Holder,
           \A q \in Proc : Relies(q)' = IF q = p THEN {} ELSE Relies(q)
    PROVE  Lease!LNext
<1>1. Lease!Leave(p)
  BY DEF Lease!Leave, Serial, Holder, Relies
<1> QED BY <1>1 DEF Lease!LNext

LEMMA LeaseAcquires ==
    ASSUME ~env.overlap, UNCHANGED <<env, up>>, NEW p \in Proc, p \in up,
           Holder \in {NoFile, p}, Holder' = p,
           \A q \in Proc : Relies(q)' = IF q = p THEN {"alock"} ELSE Relies(q)
    PROVE  Lease!LNext
<1> DEFINE h == [d \in {"alock"} |-> Holder]
           r == [q \in Proc |-> Relies(q)]
<1>2. h["alock"] \in {NoFile, p} /\ h' = [h EXCEPT !["alock"] = p]
  OBVIOUS
<1>3. Relies(p) \cup {"alock"} = {"alock"}
  BY DEF Relies
<1>4. r' = [r EXCEPT ![p] = @ \cup {"alock"}]
  BY <1>3
<1>1. Lease!Acquire(p, "alock")
  BY <1>2, <1>4 DEF Lease!Acquire, Serial, Holder, Relies
<1> QED BY <1>1 DEF Lease!LNext

LEMMA LeaseGivesUp ==
    ASSUME ~env.overlap, UNCHANGED <<env, up>>, NEW p \in Proc, p \in up,
           Holder' = Holder,
           \A q \in Proc : Relies(q)' = IF q = p THEN {} ELSE Relies(q)
    PROVE  Lease!LNext
<1>1. Lease!GiveUp(p, {"alock"})
  BY DEF Lease!GiveUp, Serial, Holder, Relies
<1> QED BY <1>1 DEF Lease!LNext

LEMMA LeaseReleases ==
    ASSUME ~env.overlap, UNCHANGED <<env, up>>, NEW p \in Proc,
           Holder = p, Holder' = NoFile, Relies(p) = {},
           \A q \in Proc : Relies(q)' = Relies(q)
    PROVE  Lease!LNext
<1>1. Lease!Release("alock")
  BY AccessAssumption DEF Lease!Release, Serial, Holder, Relies
<1> QED BY <1>1 DEF Lease!LNext

\* Who relies on the lock follows from the uses, when a process has the library
\* open once.
LEMMA ReliesOnly ==
    ASSUME CallInv, SerialInv, Alone, NEW c \in env.comps
    PROVE  Relies(ProcOf[c]) = IF uses[c] > 0 THEN {"alock"} ELSE {}
<1>1. \A e \in Comp : ProcOf[e] = ProcOf[c] /\ uses[e] > 0 => e = c
  BY DEF CallInv, Fits, Alone, SerialInv, Backed
<1> QED BY <1>1, SettingType DEF Relies, CallInv

LEMMA ReliesThen ==
    ASSUME CallInv', SerialInv', Alone, UNCHANGED env, NEW c \in env.comps,
           c \in Comp
    PROVE  Relies(ProcOf[c])' = IF uses'[c] > 0 THEN {"alock"} ELSE {}
<1>1. \A e \in Comp : ProcOf[e] = ProcOf[c] /\ uses'[e] > 0 => e = c
  BY DEF CallInv, Fits, Alone, SerialInv, Backed
<1> QED BY <1>1 DEF Relies

LEMMA LeaseCalls ==
    ASSUME CallInv, CallInv', SerialInv, SerialInv', Alone, UNCHANGED env,
           NEW c \in env.comps, Call(c)
    PROVE  [Lease!LNext]_(Lease!lvars)
<1> DEFINE p == ProcOf[c]
<1>1. /\ c \in Comp /\ p \in Proc /\ p \in up /\ UNCHANGED <<up, alock>>
      /\ \E n : uses' = [uses EXCEPT ![c] = n]
  BY SettingType, AccessAssumption
  DEF CallInv, TypeOK, Call, GetNested, GetRead, GetAccess, ReleaseAccess,
      LibPreClose, UnlockOne, MayRun
<1>2. Holder' = Holder
  BY <1>1 DEF Holder, HasRecord
<1>3. \A q \in Proc \ {p} : Relies(q)' = Relies(q)
  BY <1>1 DEF Relies, CallInv, TypeOK
<1>6. Relies(p)' = IF uses'[c] > 0 THEN {"alock"} ELSE {}
  BY <1>1, ReliesThen
<1>7. CASE uses'[c] > 0
  <2>1. locked[c]
    BY <1>1, <1>7 DEF CallInv, TypeOK, SerialInv, Backed, Call, GetNested,
       GetRead, GetAccess, ReleaseAccess, LibPreClose, UnlockOne
  <2>2. Holder = p
    BY <1>1, <2>1 DEF SerialInv, Backed, IsOwnedByCurrentProcess, Holder
  <2> QED BY <1>1, <1>2, <1>3, <1>6, <1>7, <2>2, LeaseAcquires DEF Alone
<1>8. CASE ~(uses'[c] > 0)
  BY <1>1, <1>2, <1>3, <1>6, <1>8, LeaseGivesUp DEF Alone
<1> QED BY <1>7, <1>8

LEMMA LeaseSteps ==
    ASSUME CallInv, CallInv', SerialInv, SerialInv', Alone, UNCHANGED env,
           NEW c \in env.comps, Step(c)
    PROVE  [Lease!LNext]_(Lease!lvars)
<1> DEFINE p == ProcOf[c]
<1>1. /\ c \in Comp /\ p \in Proc /\ p \in up /\ UNCHANGED up
      /\ alock \in Lock \cup {NoFile} /\ NoFile \notin Lock
      /\ NoFile \notin Proc
  BY SettingType, AccessAssumption
  DEF CallInv, TypeOK, Step, Create, Write, Read, RemoveStale, Wake,
      ReleaseRead, ReleaseUnlink, MayRun
<1>2. ASSUME UNCHANGED uses PROVE \A q \in Proc : Relies(q)' = Relies(q)
  BY <1>2 DEF Relies
<1>3. ASSUME Acquired(c), Holder \in {NoFile, p}, Holder' = p
      PROVE  [Lease!LNext]_(Lease!lvars)
  <2>1. \A q \in Proc \ {p} : Relies(q)' = Relies(q)
    BY <1>1, <1>3 DEF Relies, Acquired, CallInv, TypeOK
  <2>2. Relies(p)' = {"alock"}
    <3>1. uses'[c] > 0
      BY <1>1, <1>3, SettingType DEF Acquired, CallInv, TypeOK
    <3> QED BY <1>1, <3>1, ReliesThen
  <2> QED BY <1>1, <1>3, <2>1, <2>2, LeaseAcquires DEF Alone
<1>4. ASSUME UNCHANGED uses, Holder' = Holder
      PROVE  [Lease!LNext]_(Lease!lvars)
  BY <1>1, <1>2, <1>4, LeaseStutters DEF Alone
<1>5. CASE Create(c)
  <2>1. Holder' = Holder
    BY <1>1, <1>5 DEF Create, Holder, HasRecord, NotAcquired
  <2> QED BY <1>4, <1>5, <2>1 DEF Create, NotAcquired
<1>6. CASE Write(c)
  <2>1. /\ alock = [by |-> p, st |-> "open"] /\ Acquired(c)
        /\ alock' = Closed(p, "full")
    BY <1>1, <1>6 DEF Write, Alone, SerialInv, StillSo
  <2>2. alock' = [by |-> p, st |-> "full"]
    BY <2>1 DEF Closed
  <2>3. /\ alock.st = "open" /\ alock'.by = p /\ alock'.st = "full"
        /\ alock' \in Lock
    BY <1>1, <2>1, <2>2 DEF Lock
  <2>4. Holder = NoFile /\ Holder' = p
    BY <1>1, <2>3 DEF Holder, HasRecord
  <2> QED BY <1>3, <2>1, <2>4
<1>7. CASE Read(c)
  <2>1. Holder' = Holder
    BY <1>7 DEF Read, Holder, HasRecord
  <2>2. IsOwnedByCurrentProcess(c) => Holder = p
    BY DEF Holder, IsOwnedByCurrentProcess
  <2> QED BY <1>3, <1>4, <1>7, <2>1, <2>2 DEF Read, NotAcquired
<1>8. CASE RemoveStale(c) \/ ReleaseUnlink(c)
  <2>1. Holder' = NoFile /\ UNCHANGED uses
    BY <1>8 DEF RemoveStale, ReleaseUnlink, Holder, HasRecord
  <2>2. Holder # NoFile => Holder \in Proc
    BY <1>1 DEF Holder, HasRecord, Lock
  <2>3. ASSUME Holder \in Proc PROVE Relies(Holder) = {}
    <3>1. CASE RemoveStale(c)
      <4>1. \A e \in Comp : ~(uses[e] > 0)
        BY <1>1, <3>1 DEF RemoveStale, SerialInv, StillSo, Backed
      <4> QED BY <4>1 DEF Relies
    <3>2. CASE ReleaseUnlink(c)
      <4>1. uses[c] = 0 /\ IsOwnedByCurrentProcess(c)
        BY <1>1, <3>2 DEF ReleaseUnlink, SerialInv, Backed, Releasing,
           CallInv, Fits
      <4>2. Holder = p /\ Relies(p) = {}
        BY <4>1, ReliesOnly DEF Holder, IsOwnedByCurrentProcess
      <4> QED BY <4>2
    <3> QED BY <1>8, <3>1, <3>2
  <2>4. CASE Holder = NoFile
    BY <1>4, <2>1, <2>4
  <2>5. CASE Holder \in Proc
    BY <1>1, <1>2, <2>1, <2>3, <2>5, LeaseReleases DEF Alone
  <2> QED BY <2>2, <2>4, <2>5
<1>9. CASE Wake(c) \/ ReleaseRead(c)
  <2>1. Holder' = Holder
    BY <1>9 DEF Wake, ReleaseRead, Holder, HasRecord
  <2> QED BY <1>4, <1>9, <2>1 DEF Wake, ReleaseRead
<1> QED BY <1>5, <1>6, <1>7, <1>8, <1>9 DEF Step

\* The .alock file implements a lease of processes: whose record it is has the
\* library, a dead or finished process can lose it, and nobody else can.
THEOREM FileImplementsLease == SerialUse /\ Spec => ImplementsLease
<1>1. Init => Lease!LInit
  BY DEF Init, Lease!LInit, Serial, HasRecord
<1>2. ASSUME IInv, IInv', [Next]_vars, SerialUse
      PROVE  [Lease!LNext]_(Lease!lvars)
  <2>1. UNCHANGED env
    BY <1>2
    DEF Next, vars, Start, Stop, Call, GetNested, GetRead, GetAccess,
        ReleaseAccess, LibPreClose, UnlockOne, Step, Create, Write, Read,
        RemoveStale, Wake, ReleaseRead, ReleaseUnlink
  <2>2. CASE env.overlap
    BY <2>1, <2>2 DEF Lease!lvars, Serial
  <2>3. CASE ~env.overlap
    <3>1. CallInv /\ CallInv' /\ SerialInv /\ SerialInv' /\ Alone
      BY <1>2, <2>1, <2>3, AloneOrNot DEF IInv, CallInv
    <3>2. ASSUME NEW p \in Proc, Start(p) PROVE Lease!LNext
      BY <2>1, <2>3, <3>2, LeaseJoins
      DEF Start, Holder, HasRecord, Relies
    <3>3. ASSUME NEW p \in Proc, Stop(p) PROVE Lease!LNext
      <4>1. \A c \in Comp : uses'[c] = IF ProcOf[c] = p THEN 0 ELSE uses[c]
        BY <3>3 DEF Stop
      <4>2. \A q \in Proc : Relies(q)' = IF q = p THEN {} ELSE Relies(q)
        BY <4>1 DEF Relies
      <4>3. /\ alock' = Closed(p, "empty") /\ up' = up \ {p} /\ p \in up
        BY <3>3 DEF Stop
      <4>4. \/ alock' = alock
            \/ /\ alock = [by |-> p, st |-> "open"]
               /\ alock' = [by |-> p, st |-> "empty"]
        BY <4>3 DEF Closed
      <4>5. Holder' = Holder
        BY <4>4 DEF Holder, HasRecord
      <4> QED BY <2>1, <2>3, <4>2, <4>3, <4>5, LeaseLeaves
    <3>4. CASE UNCHANGED vars
      BY <2>1, <2>3, <3>4, LeaseStutters DEF vars, Holder, HasRecord, Relies
    <3> QED BY <1>2, <2>1, <3>1, <3>2, <3>3, <3>4, LeaseCalls, LeaseSteps
            DEF Next
  <2> QED BY <2>2, <2>3
<1> SUFFICES ASSUME SerialUse PROVE Spec => ImplementsLease
  OBVIOUS
<1>3. IInv /\ IInv' /\ [Next]_vars => [Lease!LNext]_(Lease!lvars)
  BY <1>2
<1>4. Spec => []IInv
  BY Inductive
<1> QED BY <1>1, <1>3, <1>4, PTL DEF ImplementsLease, Lease!LSpec, Spec

=============================================================================
