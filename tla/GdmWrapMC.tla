----------------------------- MODULE GdmWrapMC -----------------------------
(* The wrapper on a small pipe and a small buffer: the record of a path    *)
(* has up to 23 pieces, so that it fits with no noise and is cut off with  *)
(* some, in the middle of any field.                                       *)
EXTENDS GdmWrap

Path(true) ==
  [exists |-> "exists" \in true, dir |-> "dir" \in true,
   managed |-> "managed" \in true, modified |-> "modified" \in true,
   deleted |-> "deleted" \in true, update |-> "update" \in true,
   mine |-> "mine" \in true, others |-> "others" \in true,
   writable |-> "writable" \in true]

(* A file checked in, one of the user's that was changed, the same in a    *)
(* work area that is behind, somebody else's directory, a new file, one    *)
(* that was removed.                                                       *)
FewFacts ==
  {Path({"exists", "managed"}),
   Path({"exists", "managed", "mine", "writable", "modified"}),
   Path({"exists", "managed", "mine", "writable", "update"}),
   Path({"exists", "managed", "others", "dir"}),
   Path({"exists", "modified", "writable"}),
   Path({"managed", "deleted"})}

FewNames == {"checkin", "commit", "cancelCheckout"}

FewTokensOf ==
  [n \in FewNames |-> CASE n = "checkin" -> {"checkin"}
                        [] n = "commit" -> {"co"}
                        [] n = "cancelCheckout" -> {"cancel", "checkout"}]
=============================================================================
