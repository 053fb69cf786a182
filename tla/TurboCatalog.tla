---------------------------- MODULE TurboCatalog ----------------------------
(***************************************************************************)
(* What a Turbo library promises about the files that applications make:   *)
(* each name has one data file, numbered once and for all, and no data     *)
(* file belongs to two names.  What can break that: lib.xml is not read,   *)
(* or not written by the time when its process closes it or dies, or the   *)
(* server overwrites it.                                                   *)
(***************************************************************************)
EXTENDS Naturals

CONSTANTS Name, Number

VARIABLES catalog,  \* the names that have a data file, and its number
          breaks    \* 0 until the index is broken, then 1 and 2 in turn

vars == <<catalog, breaks>>

Catalogs == UNION {[N -> Number] : N \in SUBSET Name}

Taken == {catalog[n] : n \in DOMAIN catalog}

TypeOK == catalog \in Catalogs /\ breaks \in 0 .. 2

Init == catalog = [n \in {} |-> 0] /\ breaks = 0

\* The catalogue when n has the number k.
With(n, k) ==
    [m \in DOMAIN catalog \cup {n} |-> IF m = n THEN k ELSE catalog[m]]

Create(n) == /\ n \notin DOMAIN catalog
             /\ UNCHANGED breaks
             /\ \E k \in Number \ Taken : catalog' = With(n, k)

Break == /\ breaks' = IF breaks = 1 THEN 2 ELSE 1
         /\ catalog' \in Catalogs

Next == \/ \E n \in Name : Create(n)
        \/ Break

Spec == Init /\ [][Next]_vars
=============================================================================
