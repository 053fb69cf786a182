----------------------------- MODULE EditLockMC -----------------------------
(* Small instances of EditLock: two processes of one host, one of another. *)
EXTENDS EditLock

CONSTANTS p1, p2, p3, near, far, d1, d2

MCProc == {p1, p2, p3}
MCHost == {near, far}
MCHostOf == [p \in Proc |-> IF p = p3 THEN far ELSE near]
TwoNear == {p1, p2}

\* The calls that take and give back locks.
LockingCalls == {"lock", "save", "status", "recover", "unlock", "cleanup",
                 "exit", "destroy"}
LockOnly == {"lock"}
AllButRename == AllCalls \ {"rename"}

\* Without those whose steps are also steps of lock, unlock and exit.
Changing == AllCalls \ {"save", "status", "recover", "cleanup"}
=============================================================================
