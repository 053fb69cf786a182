---------------------------- MODULE LibObjectsMC ----------------------------
(***************************************************************************)
(* One cell view.  The primary file of a schematic is sch.oa; the other    *)
(* type has no primary file.  part, a file that is not there, resolves to  *)
(* sch in a schematic and to itself in the other.                          *)
(***************************************************************************)
EXTENDS LibObjects, TLC

CONSTANTS s1, s2, c1, v1, sch, part, schematic, other

MCPrimaryOf == schematic :> sch @@ other :> NoName

Both(r) == s1 :> r @@ s2 :> r
Pair(q, r) == s1 :> q @@ s2 :> r

Editor == {"create", "find", "lock"}
Browser == {"create", "destroy", "cache"}
Cleaner == {"create", "destroy"}

\* Two editors; two browsers; an editor and somebody who removes things, which
\* by symmetry is either of the processes.
SharedRoles == {Both(Editor), Both(Browser), Pair(Editor, Cleaner)}

Exchange == Permutations(Session)
=============================================================================
