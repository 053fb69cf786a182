----------------------------- MODULE LeaseLock -----------------------------
(***************************************************************************)
(* What a lock file promises its users, with no files in sight.  A path    *)
(* has at most one holder.  A user that was told that it has the path      *)
(* relies on it until it gives it up, and until then nobody takes the path *)
(* away from it; the path of a user that has ended, or has given it up,    *)
(* can be taken away.                                                      *)
(*                                                                         *)
(* A user is a process, or an incarnation of one where the record in the   *)
(* file tells them apart.  EditLock and AccessLock are shown to implement  *)
(* this module as long as their calls do not overlap in time.              *)
(***************************************************************************)
CONSTANTS Path,     \* what can be locked
          User,     \* who can hold a lock
          Free      \* the holder of a path nobody holds, not a user

VARIABLES live,     \* the users that are running
          holder,   \* holder[d] is the user that holds path d, or Free
          relies    \* relies[u]: the paths that u was told it holds

lvars == <<live, holder, relies>>

LTypeOK == /\ live \in SUBSET User
           /\ holder \in [Path -> User \cup {Free}]
           /\ relies \in [User -> SUBSET Path]

LInit == /\ live = {}
         /\ holder = [d \in Path |-> Free]
         /\ relies = [u \in User |-> {}]

Join(u) == /\ u \in User \ live
           /\ live' = live \cup {u}
           /\ UNCHANGED <<holder, relies>>

Leave(u) == /\ u \in live
            /\ live' = live \ {u}
            /\ relies' = [relies EXCEPT ![u] = {}]
            /\ UNCHANGED holder

Acquire(u, d) == /\ u \in live
                 /\ holder[d] \in {Free, u}
                 /\ holder' = [holder EXCEPT ![d] = u]
                 /\ relies' = [relies EXCEPT ![u] = @ \cup {d}]
                 /\ UNCHANGED live

GiveUp(u, S) == /\ u \in live
                /\ relies' = [relies EXCEPT ![u] = @ \ S]
                /\ UNCHANGED <<live, holder>>

\* A holder that relies on its path no longer, because it gave it up or ended,
\* loses it.
Release(d) == /\ holder[d] # Free
              /\ d \notin relies[holder[d]]
              /\ holder' = [holder EXCEPT ![d] = Free]
              /\ UNCHANGED <<live, relies>>

LNext == \/ \E u \in User : Join(u) \/ Leave(u)
         \/ \E u \in User, d \in Path : Acquire(u, d)
         \/ \E u \in User, S \in SUBSET Path : GiveUp(u, S)
         \/ \E d \in Path : Release(d)

LSpec == LInit /\ [][LNext]_lvars
=============================================================================
