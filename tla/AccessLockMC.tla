---------------------------- MODULE AccessLockMC ----------------------------
(* Small instances of AccessLock: two processes of one host, one of another, *)
(* each with a component, and an additional component in the first process.  *)
EXTENDS AccessLock

CONSTANTS p1, p2, p3, near, far, c1, c2, c3, c4

MCHost == {near, far}
MCHostOf == [p \in Proc |-> IF p = p3 THEN far ELSE near]
MCProcOf == [c \in Comp |-> CASE c = c2 -> p2
                               [] c = c3 -> p3
                               [] OTHER -> p1]

\* Three processes one after the other, with nested calls; and every
\* interleaving of two processes with failing I/O, one of which has the library
\* open twice.
MCSettings == {[comps |-> {c1, c2, c3}, overlap |-> FALSE, errors |-> FALSE,
                nested |-> 2, reads |-> 0],
               [comps |-> {c1, c2, c4}, overlap |-> TRUE, errors |-> TRUE,
                nested |-> 1, reads |-> 1]}
=============================================================================
