------------------------------ MODULE Checkout ------------------------------
(***************************************************************************)
(* Checkouts of a work area under Git or Subversion.  Two programs work on *)
(* the same marker files and permission bits: the plug-in oaAiviVC         *)
(* (src/src/aivivc/oaAiviVC.cpp, oaAiviVCBackend.cpp) inside a design      *)
(* application, and the command src/src/aivivc/gdm/aivivc-gdm, which the   *)
(* Library Manager and the GDM library start for every operation.          *)
(*                                                                         *)
(* A checkout is a marker file per path that names its owner, user@host,   *)
(* in a directory inside .git or .aivivc.  It covers the path and all      *)
(* below it.  Files that nobody has checked out are made read-only.        *)
(*                                                                         *)
(* The identities of the model are those of one account on several hosts   *)
(* that share the work area, so each may change every permission bit.  The *)
(* version control system is external: a command may fail, and what it     *)
(* rewrites is new and writable.  A marker file without an owner counts    *)
(* for nothing in both programs and is not told from a missing one.        *)
(***************************************************************************)
EXTENDS Naturals, FiniteSets

CONSTANTS Dir, File, Root,
          Parent,      \* Parent[r]: the directory of a file or directory
          Admin,       \* the subdirectories of .git, or of .svn and .aivivc
          User, Nobody,
          Client,      \* plug-in instances and running commands
          UserOf,
          Plugin,      \* the clients that are plug-in instances
          Tracked,     \* the files that are under control at first
          Overlap,     \* may calls of different clients interleave?
          MaxTargets,  \* bound: paths on one command line
          Settings     \* the backends, the clients that work together, and
                       \* whether they may die in a call

Rel == Dir \cup File
Node == Rel \cup {Admin}

ASSUME CheckoutAssumption == /\ Root \in Dir
                             /\ Dir \cap File = {}
                             /\ Parent \in [Rel \ {Root} -> Dir]
                             /\ Admin \notin Rel
                             /\ Nobody \notin User
                             /\ UserOf \in [Client -> User]
                             /\ Plugin \subseteq Client
                             /\ Tracked \subseteq File
                             /\ Overlap \in BOOLEAN
                             /\ MaxTargets \in Nat
                             /\ Settings \subseteq [git : BOOLEAN, crashes : BOOLEAN,
                                                    clients : SUBSET Client]

PluginOps == {"getStatus", "makeEditable", "cancelEdit", "commitEdits",
              "update", "setControlled", "unsetControlled"}
AdapterOps == {"status", "co", "ci", "cancel", "update", "delete", "protect"}
Op == PluginOps \cup AdapterOps \cup {"none"}
Stage == {"idle", "look", "check", "mark", "open", "lock", "vcs", "clear",
          "list", "unlink", "shut", "load", "protect"}

VARIABLES marker,    \* marker[r]: the owner that the marker of r names
          writable,  \* what its owner may write
          tracked,   \* the files under version control
          present,   \* the files in the work area
          call,      \* call[c]: the operation that c is in
          setting    \* who works on the work area; it never changes

vars == <<marker, writable, tracked, present, call, setting>>

Git == setting.git   \* otherwise Subversion

CallRecord == [op : Op, at : Stage, targets : SUBSET Rel,
               todo : SUBSET Rel, seen : SUBSET Rel]

Idle == [op |-> "none", at |-> "idle", targets |-> {}, todo |-> {}, seen |-> {}]

TypeOK == /\ marker \in [Rel -> User \cup {Nobody}]
          /\ writable \in SUBSET Node
          /\ tracked \in SUBSET File
          /\ present \in SUBSET File
          /\ call \in [Client -> CallRecord]
          /\ setting \in Settings

\* A fresh copy of the repository: everything may be written.
Init == /\ marker = [r \in Rel |-> Nobody]
        /\ writable = Dir \cup Tracked \cup {Admin}
        /\ tracked = Tracked
        /\ present = Tracked
        /\ call = [c \in Client |-> Idle]
        /\ setting \in Settings

-----------------------------------------------------------------------------
(* The tree of paths.                                                      *)

\* A set of paths with the directories of all that are in it.
WithParents(S) == \A r \in S \ {Root} : Parent[r] \in S

\* The path and all directories above it.
Above == [r \in Rel |-> {a \in Rel : \A S \in SUBSET Rel :
                            r \in S /\ WithParents(S) => a \in S}]

RelIsUnder(r, a) == a \in Above[r]

Overlaps(r, s) == RelIsUnder(r, s) \/ RelIsUnder(s, r)

FilesUnder(rels) == {f \in File : \E r \in rels : RelIsUnder(f, r)}

CheckedOut(f, rels) == \E r \in rels : RelIsUnder(f, r)

\* Everything that a walk from a directory finds; the version control system's
\* own directory is skipped, but not what is below it.
Tree(r) == {s \in Rel : RelIsUnder(s, r)} \cup (IF r = Root THEN {Admin} ELSE {})

\* The command's set_tree_writable of a file works on the directory of the file.
Siblings(files) == UNION {Tree(Parent[f]) : f \in files}

\* The command checks out and releases the directories of the files it is given.
Scope(r) == IF r \in Dir THEN r ELSE Parent[r]

-----------------------------------------------------------------------------
(* Markers.                                                                *)

\* The owner of the nearest marker at or above r.
EffectiveOwner(r) ==
    LET marked == {a \in Above[r] : marker[a] # Nobody}
    IN  IF marked = {} THEN Nobody
        ELSE marker[CHOOSE a \in marked : \A b \in marked : RelIsUnder(a, b)]

OverlapsOther(u, r) == \E s \in Rel : /\ marker[s] \notin {u, Nobody}
                                      /\ Overlaps(r, s)

RelsOf(u) == {r \in Rel : marker[r] = u}

Managed(r) == tracked \cap FilesUnder({r}) # {}

-----------------------------------------------------------------------------
(* Calls.                                                                  *)

In(c, stage) == call[c].at = stage
Targets(c) == call[c].targets

\* What a call checks out, releases and protects.
Areas(c) == IF c \in Plugin \/ call[c].op = "status" THEN Targets(c)
                                                    ELSE {Scope(r) : r \in Targets(c)}

To(c, stage) == call' = [call EXCEPT ![c].at = stage]
ToWith(c, stage, todo) ==
    call' = [call EXCEPT ![c].at = stage, ![c].todo = todo]
Return(c) == call' = [call EXCEPT ![c] = Idle]

FirstStage(op) == CASE op \in {"getStatus", "status"} -> "look"
                    [] op \in {"makeEditable", "co"} -> "check"
                    [] op = "protect" -> "load"
                    [] OTHER -> "vcs"

OpsOf(c) == IF c \in Plugin THEN PluginOps ELSE AdapterOps

CommandLines == {rels \in SUBSET Rel : rels # {} /\ Cardinality(rels) <= MaxTargets}

Begin(c, op, rels) ==
    /\ (c \in Plugin \/ op = "status") => Cardinality(rels) = 1
    /\ call' = [call EXCEPT ![c] = [op |-> op, at |-> FirstStage(op),
                                    targets |-> rels, todo |-> {}, seen |-> {}]]
    /\ UNCHANGED <<marker, writable, tracked, present>>

Invoke(c) == /\ In(c, "idle") /\ c \in setting.clients
             /\ Overlap \/ \A d \in Client : In(d, "idle")
             /\ \E op \in OpsOf(c), rels \in CommandLines : Begin(c, op, rels)

Crash(c) == /\ setting.crashes /\ ~In(c, "idle")
            /\ Return(c)
            /\ UNCHANGED <<marker, writable, tracked, present>>

\* The application saves a new file.
SaveNew(f) == /\ f \notin present /\ Parent[f] \in writable
              /\ present' = present \cup {f}
              /\ writable' = writable \cup {f}
              /\ UNCHANGED <<marker, tracked, call>>

-----------------------------------------------------------------------------
(* makeEditable and co.                                                    *)

\* Mutant: only markers at and above the path are looked at.
CheckAbove(c) ==
    /\ In(c, "check")
    /\ IF \E r \in Areas(c) : EffectiveOwner(r) \notin {UserOf[c], Nobody}
       THEN Return(c)
       ELSE ToWith(c, "mark", Areas(c))
    /\ UNCHANGED <<marker, writable, tracked, present>>

\* Refuse what somebody else has checked out, in whole or in part.
Check(c) ==
    /\ In(c, "check")
    /\ IF \E r \in Areas(c) : OverlapsOther(UserOf[c], r)
       THEN Return(c)
       ELSE ToWith(c, "mark", Areas(c))
    /\ UNCHANGED <<marker, writable, tracked, present>>

\* Write a marker.  When that fails, the plug-in goes on and the command dies.
Mark(c) == \E r \in call[c].todo :
    /\ In(c, "mark")
    /\ \/ /\ Admin \in writable
          /\ marker' = [marker EXCEPT ![r] = UserOf[c]]
       \/ Admin \notin writable /\ UNCHANGED marker
    /\ IF Admin \notin writable /\ c \notin Plugin
       THEN Return(c)
       ELSE LET rest == call[c].todo \ {r}
            IN  ToWith(c, IF rest = {} THEN "open" ELSE "mark", rest)
    /\ UNCHANGED <<writable, tracked, present>>

\* What the command's set_paths_writable works on.
Reached(rels) == LET files == tracked \cap FilesUnder(rels)
                 IN  IF Git /\ files # {} THEN Siblings(files)
                                          ELSE UNION {Tree(r) : r \in rels}

Open(c) ==
    /\ In(c, "open")
    /\ writable' = writable \cup
           ((IF c \in Plugin THEN UNION {Tree(r) : r \in Areas(c)}
                             ELSE Reached(Areas(c)))
            \cap (Dir \cup present \cup {Admin}))
    /\ \/ Return(c)
       \/ ~Git /\ c \in Plugin /\ To(c, "lock")
    /\ UNCHANGED <<marker, tracked, present>>

\* svn lock, when the caller asks for it: give the checkout up if it fails.
SvnLock(c) == /\ In(c, "lock")
              /\ Return(c) \/ To(c, "clear")
              /\ UNCHANGED <<marker, writable, tracked, present>>

-----------------------------------------------------------------------------
(* The version control system's part of a call.                            *)

\* Files that it may replace: it removes the old one from its directory.
Replaceable(files) == SUBSET {f \in files : Parent[f] \in writable}

Rewrite(files) == /\ writable' = writable \cup files
                  /\ present' = present \cup files

\* Back to the repository's version, and perhaps without the files it lacks.
Revert(c) ==
    /\ \E files \in Replaceable(tracked \cap FilesUnder(Targets(c))),
          gone \in {{}, (present \cap FilesUnder(Targets(c))) \ tracked} :
            /\ gone # {} => Git
            /\ writable' = (writable \cup files) \ gone
            /\ present' = (present \cup files) \ gone
    /\ UNCHANGED tracked

\* Bring files under control.
Add(c) == /\ \E files \in {{}, present \cap FilesUnder(Targets(c))} :
                /\ files \subseteq tracked \/ Admin \in writable
                /\ tracked' = tracked \cup files
          /\ UNCHANGED <<writable, present>>

\* git pull works on the whole work area, svn update on the targets.
Pull(c) == LET area == IF Git THEN File ELSE FilesUnder(Targets(c))
           IN  \E files \in Replaceable(area \cap (tracked \cup (File \ present))) :
                   Rewrite(files) /\ tracked' = tracked \cup files

Remove(c) == LET files == tracked \cap FilesUnder(Targets(c))
             IN  /\ tracked' = tracked \ files
                 /\ \/ Rewrite({}) /\ c \in Plugin
                    \/ present' = present \ files /\ writable' = writable \ files

VcsSucceeds(c) ==
    LET op == call[c].op
    IN  /\ In(c, "vcs")
        /\ \/ op \in {"cancelEdit", "cancel"} /\ Revert(c)
           \/ op \in {"commitEdits", "ci", "setControlled"} /\ Add(c)
           \/ op = "update" /\ Pull(c)
           \/ op \in {"unsetControlled", "delete"} /\ Remove(c)
        /\ \/ op \in {"cancelEdit", "commitEdits"} /\ To(c, "clear")
           \/ op \in {"ci", "cancel", "delete"} /\ To(c, "list")
           \/ op \in {"update", "setControlled"} /\ To(c, "load")
           \/ op = "unsetControlled" /\ Return(c)
        /\ UNCHANGED marker

\* A commit may fail when its files are under control already.
VcsFails(c) == /\ In(c, "vcs")
               /\ \/ UNCHANGED <<writable, tracked, present>>
                  \/ call[c].op \in {"commitEdits", "ci"} /\ Add(c)
               /\ Return(c)
               /\ UNCHANGED marker

-----------------------------------------------------------------------------
(* Giving a checkout back.                                                 *)

\* The plug-in removes the marker of the path itself, whoever owns it.
ClearCheckedOut(c) ==
    /\ In(c, "clear")
    /\ marker' = IF Admin \in writable
                 THEN [r \in Rel |-> IF r \in Targets(c) THEN Nobody ELSE marker[r]]
                 ELSE marker
    /\ To(c, "load")
    /\ UNCHANGED <<writable, tracked, present>>

\* The command looks for the caller's markers that overlap what it releases.
Released(c) == LET area == IF call[c].op = "delete" THEN Targets(c) ELSE Areas(c)
               IN  {r \in RelsOf(UserOf[c]) : \E a \in area : Overlaps(r, a)}

\* delete ends with the markers, ci and cancel go on.
AfterUnlink(c) == \/ call[c].op = "delete" /\ Return(c)
                  \/ call[c].op # "delete" /\ ToWith(c, "shut", {})

Release(c, rels) ==
    \/ rels = {} /\ AfterUnlink(c)
    \/ /\ rels # {}
       /\ call' = [call EXCEPT ![c] = [op |-> @.op, at |-> "unlink",
                                       targets |-> @.targets,
                                       todo |-> rels, seen |-> rels]]

\* Mutant: the markers of other users go as well.
ListAll(c) ==
    /\ In(c, "list")
    /\ LET all == {r \in Rel : /\ marker[r] # Nobody
                               /\ \E a \in Areas(c) : Overlaps(r, a)}
       IN  Release(c, all)
    /\ UNCHANGED <<marker, writable, tracked, present>>

\* Mutant: a marker above the target stays.
ListBelow(c) ==
    /\ In(c, "list")
    /\ LET mine == {r \in RelsOf(UserOf[c]) : \E a \in Areas(c) : RelIsUnder(r, a)}
       IN  Release(c, mine)
    /\ UNCHANGED <<marker, writable, tracked, present>>

List(c) ==
    /\ In(c, "list")
    /\ Release(c, Released(c))
    /\ UNCHANGED <<marker, writable, tracked, present>>

\* One marker after the other; the command dies when it cannot remove one.
Unlink(c) == \E r \in call[c].todo :
    /\ In(c, "unlink")
    /\ LET rest == call[c].todo \ {r}
       IN  IF Admin \notin writable
           THEN Return(c) /\ UNCHANGED marker
           ELSE /\ marker' = [marker EXCEPT ![r] = Nobody]
                /\ IF rest # {} THEN ToWith(c, "unlink", rest)
                                ELSE AfterUnlink(c)
    /\ UNCHANGED <<writable, tracked, present>>

\* What was released becomes read-only.
Shut(c) == /\ In(c, "shut")
           /\ writable' = writable \ Reached(Areas(c) \cup call[c].seen)
           /\ Return(c)
           /\ UNCHANGED <<marker, tracked, present>>

-----------------------------------------------------------------------------
(* Protecting what the caller has not checked out.                         *)

\* A status query protects a path that is under control and not the caller's.
Look(c) == /\ In(c, "look")
           /\ IF \A r \in Targets(c) : /\ Managed(r)
                                       /\ EffectiveOwner(r) # UserOf[c]
                                       /\ r \in Dir \cup present
              THEN To(c, "load") ELSE Return(c)
           /\ UNCHANGED <<marker, writable, tracked, present>>

Load(c) == /\ In(c, "load")
           /\ call' = [call EXCEPT ![c].at = "protect",
                                   ![c].seen = RelsOf(UserOf[c])]
           /\ UNCHANGED <<marker, writable, tracked, present>>

\* The plug-in's protectPathFiles: the files, one by one.
PluginProtects(c) ==
    {f \in present \cap FilesUnder(Areas(c)) : ~CheckedOut(f, call[c].seen)}

\* The command's protect_paths: with each file its whole directory.  Without a
\* controlled file, and with Subversion, it walks the tree itself.
AdapterProtects(c) ==
    LET free(files) == {f \in files : ~CheckedOut(f, call[c].seen)}
        controlled == tracked \cap FilesUnder(Areas(c))
    IN  IF Git /\ controlled # {}
        THEN Siblings(free(controlled))
        ELSE Siblings(free(present \cap FilesUnder(Areas(c))))
             \cup (IF Root \in Areas(c) \ call[c].seen THEN {Admin} ELSE {})

\* Mutants: nothing is spared; everything is.
ProtectAll(c) == /\ In(c, "protect")
                 /\ writable' = writable \ FilesUnder(Areas(c))
                 /\ Return(c)
                 /\ UNCHANGED <<marker, tracked, present>>
ProtectNone(c) == /\ In(c, "protect")
                  /\ Return(c)
                  /\ UNCHANGED <<marker, writable, tracked, present>>

Protect(c) == /\ In(c, "protect")
              /\ writable' = writable \ (IF c \in Plugin THEN PluginProtects(c)
                                                         ELSE AdapterProtects(c))
              /\ Return(c)
              /\ UNCHANGED <<marker, tracked, present>>

-----------------------------------------------------------------------------
Step(c) == \/ Check(c) \/ Mark(c) \/ Open(c) \/ SvnLock(c)
           \/ VcsSucceeds(c) \/ VcsFails(c)
           \/ ClearCheckedOut(c) \/ List(c) \/ Unlink(c) \/ Shut(c)
           \/ Look(c) \/ Load(c) \/ Protect(c)

Next == /\ \/ \E c \in Client : Invoke(c) \/ Step(c) \/ Crash(c)
           \/ \E f \in File : SaveNew(f)
        /\ UNCHANGED setting

Spec == Init /\ [][Next]_vars

-----------------------------------------------------------------------------
(* Properties.                                                             *)

\* Two overlapping checkouts always have the same owner, a directory and a file
\* deep below it included: what a user may write is nobody else's.
Exclusive == \A r, s \in Rel :
                Overlaps(r, s) /\ marker[r] # Nobody /\ marker[s] # Nobody
                    => marker[r] = marker[s]

\* Plug-ins of one identity that do not die: a plug-in that dies between the
\* marker and the permissions leaves a checkout that is read-only, and so does a
\* protection that did not see the marker.
OneIdentity == /\ ~setting.crashes
               /\ setting.clients \subseteq Plugin
               /\ \A c, d \in setting.clients : UserOf[c] = UserOf[d]

\* With one identity and nothing going on, every file that it has checked out
\* may be written, whatever was queried, cancelled or committed around it.
CheckedOutWritable ==
    OneIdentity /\ (\A c \in Client : In(c, "idle")) =>
        \A f \in present : EffectiveOwner(f) # Nobody => f \in writable

\* The call of c goes through to its end.
Completes(c) == Shut(c) \/ Protect(c)

\* When a call that protects completes, no controlled file of its targets can be
\* written unless its caller has it checked out.
DoneIsProtected ==
    [][\A c \in Client : Completes(c) =>
          \A f \in tracked \cap FilesUnder(Targets(c)) :
             f \in writable' => CheckedOut(f, RelsOf(UserOf[c]))]_vars

\* A ci or cancel that completes leaves the caller no checkout that overlaps its
\* targets, neither above nor below them (gdm/README.md:22).
ReleasesOverlaps ==
    [][\A c \in Client : Shut(c) =>
          \A r \in Rel, t \in Targets(c) :
             Overlaps(r, t) => marker'[r] # UserOf[c]]_vars

\* No step of a command takes a checkout away from another user.
OthersKeepTheirs ==
    [][\A c \in Client \ Plugin, r \in Rel :
          /\ marker[r] \notin {Nobody, UserOf[c]}
          /\ call'[c] # call[c]
          => marker'[r] = marker[r]]_vars

\* "protect ... keeps the write permission of the paths that the current user has
\* checked out, and protects the other files" (gdm/README.md:23).
ProtectKeepsCheckouts ==
    [][\A c \in Client : call[c].op = "protect" /\ Protect(c) =>
          \A f \in present \cap writable :
             CheckedOut(f, RelsOf(UserOf[c])) => f \in writable']_vars
=============================================================================
