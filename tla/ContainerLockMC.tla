--------------------------- MODULE ContainerLockMC ---------------------------
(***************************************************************************)
(* A cell and a view that have one cell view in common.  The cell has a    *)
(* file of its own, the cell view a primary file sch and another file part *)
(* that stands for sch when it is not there.                               *)
(***************************************************************************)
EXTENDS ContainerLock, TLC

CONSTANTS p1, p2, near, cell, view, cv, own, sch, part

MCHostOf == [p \in Proc |-> near]
MCInner == [b \in Box |-> IF b = cv THEN {} ELSE {cv}]
MCBoxOf == [f \in Path |-> IF f = own THEN cell ELSE cv]
Exchange == Permutations({p1, p2})
MCPrimaryOf == [b \in CellView |-> sch]
MCCalls == {"lock", "status", "unlock", "destroy"}
=============================================================================
