-------------------------------- MODULE LibDef --------------------------------
(***************************************************************************)
(* Loading and saving library definitions                                  *)
(* (src/src/aivilibdef/oaAiviLibDef.cpp).  A lib.defs file is read line by *)
(* line; an INCLUDE reads another file on the spot, so that the lines of   *)
(* several files take effect as if they stood in one.  ParseContext is     *)
(* what one load knows; the list of definitions outlives it, and a list    *)
(* that is opened again is loaded into once more.                          *)
(*                                                                         *)
(* A line has a path as it is written there, which resolvePath makes       *)
(* absolute when the line is read (LibDefPath), or NoPath, which stands    *)
(* for one that cannot be resolved and for the empty string.  A file that  *)
(* is read is its canonical path.                                          *)
(*                                                                         *)
(* The lines here are what is read of the text.  Paths, names and values   *)
(* may be in quotes there, and then are read as they are; save writes no   *)
(* quotes, and of what it wrote DEFINE reads the first word (Cut) and      *)
(* ASSIGN the words up to a comment, with one blank between them (Rest,    *)
(* Again).  SOFTDEFINE and SOFTINCLUDE differ from DEFINE and INCLUDE in   *)
(* their warnings only, and lines with a syntax error or a name that       *)
(* OpenAccess refuses do nothing; neither is told apart here.  oaLibDef    *)
(* and oaLibDefList belong to OpenAccess: a member that is created can be  *)
(* found until it is destroyed.                                            *)
(***************************************************************************)
EXTENDS Naturals, Sequences, FiniteSets

CONSTANTS Lib, Mode,
          Attribute,  \* records of a name, a value
          Raw, Path,  \* paths as they are written, and absolute ones
          Root,       \* those that are temporary root directories
          Resolve,    \* what a path means in a line of a file
          Wild,       \* paths with a wildcard
          Readable,   \* the paths of files that can be read
          Real,       \* their canonical paths
          Join,       \* the path of a library in a root directory
          Cut, Rest,  \* what DEFINE and ASSIGN read of a path without quotes
          Again,      \* what ASSIGN reads of an attribute without quotes
          File,       \* the canonical paths of files
          Top,        \* the file that is opened
          Shared,     \* the mode of a library that has none assigned
          NoPath, None,
          Texts,      \* what the files may contain at first
          MaxLoads,   \* bound: how often the list is loaded
          MaxEdits    \* bound: how often somebody else changes a file

\* Paths that name root directories, if anything, in whatever file they are.
RootRaw == {raw \in Raw : \A f \in File : Resolve[raw, f] \in Root \cup {NoPath}}

Line == [op : {"define", "write"}, lib : Lib, path : Raw]
        \cup [op : {"include"}, path : Raw]
        \cup [op : {"root"}, path : RootRaw]
        \cup [op : {"mode"}, lib : Lib, mode : Mode \cup {NoPath}]
        \cup [op : {"attr"}, lib : Lib, attr : Attribute]
        \cup [op : {"unattr"}, lib : Lib, name : {x.name : x \in Attribute}]
        \cup [op : {"undefine", "unwrite"}, lib : Lib]

Definition == [path : Path, write : Path \cup {NoPath}, mode : Mode,
               attr : SUBSET Attribute]

ASSUME LibDefAssumption == /\ Top \in File
                           /\ Path \subseteq Raw
                           /\ Root \subseteq Path
                           /\ Resolve \in [Raw \X File -> Path \cup {NoPath}]
                           /\ Real \in [Readable -> File]
                           /\ Join \in [Root \X Lib -> Path]
                           /\ Cut \in [Path -> Path]
                           /\ Rest \in [Path -> Path]
                           /\ IsFiniteSet(Attribute)
                           /\ Again \in [Attribute -> Attribute \cup {None}]
                           /\ Shared \in Mode
                           /\ NoPath \notin Path \cup Mode
                           /\ None \notin Definition \cup Attribute
                           /\ Texts \subseteq [File -> Seq(Line)]
                           /\ MaxLoads \in Nat
                           /\ MaxEdits \in Nat

VARIABLES text,      \* the lines of each file
          list,      \* the members of the oaLibDefList
          stack,     \* the files being read, the innermost last
          libsByName, explicitWritePath, allLibsTmpRoot,  \* of the ParseContext
          saving,    \* the list is being saved
          toSave,    \* the libraries that are not written yet
          loads,     \* how often the list has been loaded
          edits,     \* how often somebody else has changed a file
          prior      \* history: the list when this load began

ctx == <<libsByName, explicitWritePath, allLibsTmpRoot>>
history == <<edits, prior>>
vars == <<text, list, stack, libsByName, explicitWritePath, allLibsTmpRoot,
          saving, toSave, loads, edits, prior>>

Defined == {l \in Lib : list[l] # None}

Reading == [file : File, next : Nat \ {0}]

TypeOK == /\ text \in [File -> Seq(Line)]
          /\ list \in [Lib -> Definition \cup {None}]
          /\ stack \in Seq(Reading)
          /\ libsByName \in SUBSET Lib
          /\ explicitWritePath \in SUBSET Lib
          /\ allLibsTmpRoot \in Root \cup {NoPath}
          /\ saving \in BOOLEAN
          /\ toSave \in SUBSET Defined
          /\ loads \in 0 .. MaxLoads
          /\ edits \in 0 .. MaxEdits
          /\ prior \in [Lib -> Definition \cup {None}]

Init == /\ text \in Texts
        /\ list = [l \in Lib |-> None]
        /\ stack = <<>>
        /\ libsByName = {}
        /\ explicitWritePath = {}
        /\ allLibsTmpRoot = NoPath
        /\ saving = FALSE
        /\ toSave = {}
        /\ loads = 0
        /\ edits = 0
        /\ prior = [l \in Lib |-> None]

-----------------------------------------------------------------------------
\* The files that are being read: activeFiles.
Active == {stack[i].file : i \in DOMAIN stack}

Loading == stack # <<>>
Here == stack[Len(stack)]
AtEnd == Here.next > Len(text[Here.file])
Now == text[Here.file][Here.next]

\* The line that is read next has this keyword.
At(op) == Loading /\ ~AtEnd /\ Now.op = op

\* What the path in the line means, and the file that it names.
Target == Resolve[Now.path, Here.file]
Included == Real[Target]

\* Paths that DEFINE and INCLUDE take, and files that are read for an INCLUDE.
Usable == Target \notin Wild \cup {NoPath}
CanRead == Usable /\ Target \in Readable

Advanced == [stack EXCEPT ![Len(stack)] = [file |-> @.file, next |-> @.next + 1]]
Advance == stack' = Advanced /\ UNCHANGED <<text, saving, toSave, loads, history>>

\* The attributes without the one of this name.
But(attrs, name) == {x \in attrs : x.name # name}

Set(l, def) == list' = [list EXCEPT ![l] = def]

\* tmpRootPathForLib: where a library without a write path of its own is written.
TmpRootPath(l) == IF allLibsTmpRoot = NoPath THEN NoPath
                  ELSE Join[allLibsTmpRoot, l]

\* Mutant: the ParseContext is that of the last load.
OpenSameContext == /\ ~Loading /\ ~saving /\ loads < MaxLoads
                   /\ stack' = <<[file |-> Top, next |-> 1]>>
                   /\ loads' = loads + 1
                   /\ prior' = list
                   /\ UNCHANGED <<text, list, ctx, saving, toSave, edits>>

\* open: a fresh ParseContext, and the list that exists already if there is one.
Open == /\ ~Loading /\ ~saving /\ loads < MaxLoads
        /\ stack' = <<[file |-> Top, next |-> 1]>>
        /\ libsByName' = {}
        /\ explicitWritePath' = {}
        /\ allLibsTmpRoot' = NoPath
        /\ loads' = loads + 1
        /\ prior' = list
        /\ UNCHANGED <<text, list, saving, toSave, edits>>

\* The last definition of a library replaces the others with all they assigned.
Define ==
    /\ At("define") /\ Usable
    /\ Set(Now.lib, [path |-> Target, write |-> TmpRootPath(Now.lib),
                     mode |-> Shared, attr |-> {}])
    /\ libsByName' = libsByName \cup {Now.lib}
    /\ explicitWritePath' = explicitWritePath \ {Now.lib}
    /\ UNCHANGED allLibsTmpRoot
    /\ Advance

\* Mutant: the map keeps a library that is destroyed.
UndefineListed == /\ At("undefine")
                  /\ Set(Now.lib, None)
                  /\ explicitWritePath' = explicitWritePath \ {Now.lib}
                  /\ UNCHANGED <<libsByName, allLibsTmpRoot>>
                  /\ Advance

Undefine == /\ At("undefine")
            /\ Set(Now.lib, None)
            /\ libsByName' = libsByName \ {Now.lib}
            /\ explicitWritePath' = explicitWritePath \ {Now.lib}
            /\ UNCHANGED allLibsTmpRoot
            /\ Advance

\* Mutants: nobody asks whether the file is being read already; a file that was
\* included is included again at its end.
IncludeAny == /\ At("include") /\ CanRead
              /\ stack' = Append(Advanced, [file |-> Included, next |-> 1])
              /\ UNCHANGED <<text, list, ctx, saving, toSave, loads, history>>
IncludeAgain == /\ At("include") /\ CanRead /\ Included \notin Active
                /\ stack' = Append(stack, [file |-> Included, next |-> 1])
                /\ UNCHANGED <<text, list, ctx, saving, toSave, loads, history>>

Include == /\ At("include") /\ CanRead /\ Included \notin Active
           /\ stack' = Append(Advanced, [file |-> Included, next |-> 1])
           /\ UNCHANGED <<text, list, ctx, saving, toSave, loads, history>>

\* Mutant: only the libraries that are defined later are under the root.
AssignRootLater == /\ At("root") /\ Target # NoPath
                   /\ allLibsTmpRoot' = Target
                   /\ UNCHANGED <<list, libsByName, explicitWritePath>>
                   /\ Advance

\* ASSIGN AllLibs TmpRootDir: for the libraries defined later, and at once for
\* the ones defined before that have no write path of their own.
AssignRoot ==
    /\ At("root") /\ Target # NoPath
    /\ allLibsTmpRoot' = Target
    /\ list' = [l \in Lib |-> IF l \in libsByName \ explicitWritePath
                              THEN [list[l] EXCEPT !.write = Join[Target, l]]
                              ELSE list[l]]
    /\ UNCHANGED <<libsByName, explicitWritePath>>
    /\ Advance

\* ASSIGN and UNASSIGN work on the libraries that this load has defined.
AssignWrite == /\ At("write") /\ Target # NoPath /\ Now.lib \in libsByName
               /\ Set(Now.lib, [list[Now.lib] EXCEPT !.write = Target])
               /\ explicitWritePath' = explicitWritePath \cup {Now.lib}
               /\ UNCHANGED <<libsByName, allLibsTmpRoot>>
               /\ Advance

\* A mode that parseLibMode knows.
KnownMode == Now.mode # NoPath

AssignMode == /\ At("mode") /\ KnownMode /\ Now.lib \in libsByName
              /\ Set(Now.lib, [list[Now.lib] EXCEPT !.mode = Now.mode])
              /\ UNCHANGED ctx
              /\ Advance

AssignAttr == /\ At("attr") /\ Now.lib \in libsByName
              /\ Set(Now.lib, [list[Now.lib] EXCEPT
                                 !.attr = But(@, Now.attr.name) \cup {Now.attr}])
              /\ UNCHANGED ctx
              /\ Advance

UnassignWrite == /\ At("unwrite") /\ Now.lib \in libsByName
                 /\ Set(Now.lib, [list[Now.lib] EXCEPT
                                     !.write = TmpRootPath(Now.lib)])
                 /\ explicitWritePath' = explicitWritePath \ {Now.lib}
                 /\ UNCHANGED <<libsByName, allLibsTmpRoot>>
                 /\ Advance

UnassignAttr == /\ At("unattr") /\ Now.lib \in libsByName
                /\ Set(Now.lib, [list[Now.lib] EXCEPT !.attr = But(@, Now.name)])
                /\ UNCHANGED ctx
                /\ Advance

\* Lines that only give a warning.
Skip == /\ \/ At("define") /\ ~Usable
           \/ At("include") /\ ~(CanRead /\ Included \notin Active)
           \/ At("root") /\ Target = NoPath
           \/ At("write") /\ (Target = NoPath \/ Now.lib \notin libsByName)
           \/ At("mode") /\ (~KnownMode \/ Now.lib \notin libsByName)
           \/ \E op \in {"attr", "unwrite", "unattr"} :
                 At(op) /\ Now.lib \notin libsByName
        /\ UNCHANGED <<list, ctx>>
        /\ Advance

\* The end of a file: go on in the one that includes it.
Done == /\ Loading /\ AtEnd
        /\ stack' = SubSeq(stack, 1, Len(stack) - 1)
        /\ UNCHANGED <<text, list, ctx, saving, toSave, loads, history>>

-----------------------------------------------------------------------------
(* save: the file is emptied, then every library is written to it.         *)

Save == /\ ~Loading /\ ~saving /\ loads > 0
        /\ text' = [text EXCEPT ![Top] = <<>>]
        /\ saving' = TRUE
        /\ toSave' = Defined
        /\ UNCHANGED <<list, stack, ctx, loads, history>>

\* Mutant: the write path is left to the AllLibs line, which is not saved.
NotWritten(l) == <<>>

\* A library without a write path has its own path or an empty one in OpenAccess;
\* the line for the empty one is too short for an ASSIGN and does nothing.
WriteLine(l) ==
    IF list[l].write \in {NoPath, list[l].path} THEN <<>>
    ELSE <<[op |-> "write", lib |-> l, path |-> Rest[list[l].write]]>>

\* The attributes of which something is read again, and their lines in the order of
\* OpenAccess, which may be any.
Kept(l) == {x \in list[l].attr : Again[x] # None}

AttrLine(l, x) == [op |-> "attr", lib |-> l, attr |-> Again[x]]

AttrLines(l) ==
    LET places == 1 .. Cardinality(Kept(l))
    IN  {[i \in places |-> AttrLine(l, order[i])] :
            order \in {f \in [places -> Kept(l)] :
                          \A i, j \in places : f[i] = f[j] => i = j}}

LinesOf(l) == <<[op |-> "define", lib |-> l, path |-> Cut[list[l].path]]>>
              \o WriteLine(l)
              \o <<[op |-> "mode", lib |-> l, mode |-> list[l].mode]>>

SaveLib(l) == /\ saving /\ l \in toSave
              /\ \E attrs \in AttrLines(l) :
                     text' = [text EXCEPT ![Top] = @ \o LinesOf(l) \o attrs]
              /\ toSave' = toSave \ {l}
              /\ UNCHANGED <<list, stack, ctx, saving, loads, history>>

Saved == /\ saving /\ toSave = {}
         /\ saving' = FALSE
         /\ UNCHANGED <<text, list, stack, ctx, toSave, loads, history>>

\* The application ends, at any time: only the files are left.
Exit == /\ loads > 0
        /\ list' = [l \in Lib |-> None]
        /\ stack' = <<>>
        /\ libsByName' = {}
        /\ explicitWritePath' = {}
        /\ allLibsTmpRoot' = NoPath
        /\ saving' = FALSE
        /\ toSave' = {}
        /\ UNCHANGED <<text, loads, history>>

\* Somebody else takes a line out of a file while nobody reads or writes it.
Edit(f, i) ==
    /\ ~Loading /\ ~saving /\ edits < MaxEdits
    /\ i \in DOMAIN text[f]
    /\ text' = [text EXCEPT ![f] = SubSeq(@, 1, i - 1)
                                   \o SubSeq(@, i + 1, Len(@))]
    /\ edits' = edits + 1
    /\ UNCHANGED <<list, stack, ctx, saving, toSave, loads, prior>>

Read == \/ Define \/ Undefine \/ Include \/ AssignRoot \/ AssignWrite
        \/ AssignMode \/ AssignAttr \/ UnassignWrite \/ UnassignAttr
        \/ Skip \/ Done

Next == Open \/ Read \/ Save \/ (\E l \in Lib : SaveLib(l)) \/ Saved \/ Exit
        \/ \E f \in File : \E i \in DOMAIN text[f] : Edit(f, i)

Spec == Init /\ [][Next]_vars

\* Reading a file that nobody changes goes on.
FairSpec == Spec /\ WF_vars(Read)

-----------------------------------------------------------------------------
(* Properties.                                                             *)

\* No file is read inside itself, over however many others: loadLibDefList's
\* recursion is never deeper than there are files.
NoFileTwice == \A i, j \in DOMAIN stack : stack[i].file = stack[j].file => i = j

\* libsByName has no library that is destroyed, which ASSIGN would follow.
KnownIsListed == libsByName \subseteq Defined

\* Whatever the order of DEFINE, UNDEFINE, ASSIGN and UNASSIGN over the files,
\* exactly the libraries without a write path of their own are under the last
\* temporary root directory.
ImplicitUnderRoot ==
    /\ explicitWritePath \subseteq libsByName
    /\ \A l \in libsByName \ explicitWritePath : list[l].write = TmpRootPath(l)

\* Files that include each other do not keep a load from its end.
LoadEnds == Loading ~> ~Loading
=============================================================================
