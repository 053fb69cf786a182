----------------------------- MODULE CheckoutMC -----------------------------
(* Small instances of Checkout: a cell view v1 with a file and a file of the  *)
(* library, which is the root of the work area; two identities.               *)
EXTENDS Checkout

CONSTANTS u1, u2, k1, k2, lib, v1, f0, f1

MCUserOf == [c \in Client |-> IF c = k2 THEN u2 ELSE u1]

ViewAndFile == [r \in {v1, f0, f1} |-> IF r = f1 THEN v1 ELSE lib]

\* The plug-in of one user and the command of another that may die, and one
\* plug-in by itself, under Git and under Subversion.
MCSettings == [git : BOOLEAN, crashes : {TRUE}, clients : {{k1, k2}}]
              \cup [git : BOOLEAN, crashes : {FALSE}, clients : {{k1}}]

\* One command by itself.
OneCommand == {[git |-> TRUE, crashes |-> FALSE, clients |-> {k2}]}
=============================================================================
