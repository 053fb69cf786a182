------------------------------- MODULE TurboMC -------------------------------
(***************************************************************************)
(* Plug-ins alone, and plug-ins whose reads and writes of files may fail;  *)
(* one client that may send anything; two clients; one whose calls may     *)
(* fail; a plug-in beside a client that opens and closes the library.      *)
(* Plug-ins come one after another, so one name of a session stands for    *)
(* all.                                                                    *)
(***************************************************************************)
EXTENDS TurboServer

CONSTANTS s1, c1, v1, f, g, amp, k1, k2, lib, other, a, b, t

Setting(n, errors, clients, ops, fails) ==
    [nums |-> n, errors |-> errors, clients |-> clients, ops |-> ops,
     fails |-> fails]

MCSettings == {Setting(3, FALSE, {}, {}, FALSE),
               Setting(2, TRUE, {}, {}, FALSE),
               Setting(0, FALSE, {k1}, Ops, FALSE),
               Setting(0, FALSE, {k1, k2}, {"CreateCell", "Shutdown"}, FALSE),
               Setting(0, FALSE, {k1}, {"CreateCell", "Shutdown"}, TRUE),
               Setting(1, FALSE, {k1}, {"OpenLib", "CloseLib"}, FALSE)}
=============================================================================
