----------------------------- MODULE LibDefProofs -----------------------------
(***************************************************************************)
(* Theorems about LibDef, for any libraries, files and texts of them and   *)
(* any number of loads and saves.  What a load leaves in the list is       *)
(* related to the text by recursion, and stays with the runs.              *)
(***************************************************************************)
EXTENDS LibDef, FiniteSetTheorems, TLAPS

\* A list is never saved and loaded at the same time, and nothing is left to
\* write when it is not saved: an UNDEFINE takes no library from a save.
OneAtATime == /\ Loading => ~saving
              /\ ~saving => toSave = {}

\* The inductive invariant.  NoFileTwice and the others need the types of what
\* they read; ImplicitUnderRoot needs KnownIsListed where AssignRoot changes all
\* the libraries that are known.
IInv == /\ TypeOK
        /\ OneAtATime
        /\ NoFileTwice
        /\ KnownIsListed
        /\ ImplicitUnderRoot

-----------------------------------------------------------------------------
(* Lines and definitions.                                                  *)

\* A library that is in the list has a definition.
LEMMA DefinedHasType ==
    ASSUME TypeOK, NEW l \in Defined
    PROVE  list[l] \in Definition
BY DEF TypeOK, Defined

\* A line that is read has the fields of its keyword.
LEMMA NowIsLine ==
    ASSUME TypeOK, NEW op, At(op)
    PROVE  Now \in Line /\ Now.op = op
<1>1. Len(stack) \in DOMAIN stack /\ Here \in Reading
  BY DEF TypeOK, At, Loading, Here
<1>2. Here.next \in DOMAIN text[Here.file] /\ text[Here.file] \in Seq(Line)
  BY <1>1 DEF TypeOK, At, AtEnd, Reading
<1> QED BY <1>2 DEF At, Now

\* The fields of each keyword.
LEMMA LineFields ==
    ASSUME NEW line \in Line
    PROVE  /\ line.op \in {"define", "write"} => line.lib \in Lib
           /\ line.op \in {"define", "write", "include"} => line.path \in Raw
           /\ line.op \in {"undefine", "unwrite", "unattr"} => line.lib \in Lib
           /\ line.op = "root" => line.path \in RootRaw
           /\ line.op = "mode" => line.lib \in Lib /\ line.mode \in Mode \cup {NoPath}
           /\ line.op = "attr" => line.lib \in Lib /\ line.attr \in Attribute
BY DEF Line

\* What the path of a line means.
LEMMA TargetType ==
    ASSUME TypeOK, NEW op \in {"define", "write", "include", "root"}, At(op)
    PROVE  /\ Target \in Path \cup {NoPath}
           /\ op = "root" => Target \in Root \cup {NoPath}
<1>1. Here.file \in File
  <2>1. Len(stack) \in DOMAIN stack /\ stack \in Seq(Reading)
    BY DEF TypeOK, At, Loading
  <2>2. stack[Len(stack)] \in Reading
    BY <2>1
  <2> QED BY <2>2 DEF Here, Reading
<1>2. Now \in Line /\ Now.op = op
  BY NowIsLine
<1>3. Now.path \in Raw /\ (op = "root" => Now.path \in RootRaw)
  BY <1>2, LineFields DEF RootRaw
<1> QED BY <1>1, <1>3, LibDefAssumption DEF Target, RootRaw

\* A file that is included is one that can be read.
LEMMA IncludedType ==
    ASSUME CanRead
    PROVE  Included \in File
BY LibDefAssumption DEF CanRead, Included

\* A library has a write path under the temporary root directory, or none.
LEMMA TmpRootType ==
    ASSUME TypeOK, NEW l \in Lib
    PROVE  TmpRootPath(l) \in Path \cup {NoPath}
BY LibDefAssumption DEF TypeOK, TmpRootPath

\* What is written for a library are lines, in whatever order its attributes are.
LEMMA LinesType ==
    ASSUME TypeOK, NEW l \in Defined, NEW attrs \in AttrLines(l)
    PROVE  LinesOf(l) \in Seq(Line) /\ attrs \in Seq(Line)
<1>1. /\ l \in Lib
      /\ list[l].path \in Path
      /\ list[l].write \in Path \cup {NoPath}
      /\ list[l].mode \in Mode
      /\ list[l].attr \in SUBSET Attribute
  BY DefinedHasType DEF Defined, Definition
<1>2. [op |-> "define", lib |-> l, path |-> Cut[list[l].path]] \in Line
  BY <1>1, LibDefAssumption DEF Line
<1>3. WriteLine(l) \in Seq(Line)
  <2>1. CASE list[l].write \in {NoPath, list[l].path}
    BY <2>1 DEF WriteLine
  <2>2. CASE list[l].write \notin {NoPath, list[l].path}
    <3>1. Rest[list[l].write] \in Raw
      BY <1>1, <2>2, LibDefAssumption
    <3>2. [op |-> "write", lib |-> l, path |-> Rest[list[l].write]] \in Line
      BY <1>1, <3>1 DEF Line
    <3> QED BY <2>2, <3>2 DEF WriteLine
  <2> QED BY <2>1, <2>2
<1>4. [op |-> "mode", lib |-> l, mode |-> list[l].mode] \in Line
  BY <1>1 DEF Line
<1>5. attrs \in Seq(Line)
  <2>1. Kept(l) \subseteq Attribute /\ \A x \in Kept(l) : AttrLine(l, x) \in Line
    <3>1. ASSUME NEW x \in Kept(l)
          PROVE  x \in Attribute /\ AttrLine(l, x) \in Line
      <4>1. x \in Attribute /\ Again[x] \in Attribute
        BY <1>1, LibDefAssumption DEF Kept
      <4> QED BY <1>1, <4>1 DEF AttrLine, Line
    <3> QED BY <3>1
  <2>2. Cardinality(Kept(l)) \in Nat
    BY <2>1, LibDefAssumption, FS_Subset, FS_CardinalityType
  <2> DEFINE places == 1 .. Cardinality(Kept(l))
  <2>3. PICK order \in [places -> Kept(l)] : attrs = [i \in places |-> AttrLine(l, order[i])]
    BY DEF AttrLines
  <2>4. attrs \in [places -> Line]
    BY <2>1, <2>3
  <2> QED BY <2>2, <2>4
<1> QED BY <1>2, <1>3, <1>4, <1>5 DEF LinesOf

-----------------------------------------------------------------------------
(* The files that are being read.                                          *)

\* Going on to the next line changes the position in the innermost file only.
LEMMA AdvancedStack ==
    ASSUME TypeOK, NoFileTwice, Loading
    PROVE  /\ Advanced \in Seq(Reading)
           /\ Len(Advanced) = Len(stack)
           /\ \A i \in DOMAIN stack : Advanced[i].file = stack[i].file
<1>1. stack \in Seq(Reading) /\ Len(stack) \in DOMAIN stack
  BY DEF TypeOK, Loading
<1>2. stack[Len(stack)] \in Reading
  BY <1>1
<1>3. [file |-> stack[Len(stack)].file, next |-> stack[Len(stack)].next + 1] \in Reading
  BY <1>2 DEF Reading
<1> QED BY <1>1, <1>3 DEF Advanced

\* A step to the next line keeps the type of everything the line is read from.
LEMMA AdvanceKeeps ==
    ASSUME TypeOK, NoFileTwice, Loading, Advance
    PROVE  /\ stack' \in Seq(Reading)
           /\ NoFileTwice'
           /\ text' = text /\ saving' = saving /\ toSave' = toSave /\ loads' = loads
           /\ edits' = edits /\ prior' = prior
<1>1. stack' = Advanced BY DEF Advance
<1>2. DOMAIN stack' = DOMAIN stack
  BY <1>1, AdvancedStack DEF TypeOK
<1>3. NoFileTwice'
  BY <1>1, <1>2, AdvancedStack DEF NoFileTwice
<1> QED BY <1>1, <1>3, AdvancedStack DEF Advance, history

-----------------------------------------------------------------------------
(* One lemma for each kind of line.                                        *)

\* Replacing one definition by another keeps the type of the list.
LEMMA SetKeeps ==
    ASSUME TypeOK, NEW l \in Lib, NEW def \in Definition \cup {None}, Set(l, def)
    PROVE  /\ list' \in [Lib -> Definition \cup {None}]
           /\ list'[l] = def
           /\ \A k \in Lib \ {l} : list'[k] = list[k]
BY DEF TypeOK, Set

\* The invariant after a line that changes one library: the library it is about
\* must be known exactly when it is defined, and be under the root unless it has a
\* write path of its own.
LEMMA OneLibrary ==
    ASSUME IInv, Loading, Advance,
           NEW l \in Lib, NEW def \in Definition \cup {None}, Set(l, def),
           libsByName' \in SUBSET Lib, explicitWritePath' \in SUBSET libsByName',
           \A k \in Lib \ {l} : /\ k \in libsByName' <=> k \in libsByName
                                /\ k \in explicitWritePath' <=> k \in explicitWritePath,
           allLibsTmpRoot' = allLibsTmpRoot,
           l \in libsByName' => def # None,
           l \in libsByName' \ explicitWritePath' => def.write = TmpRootPath(l)
    PROVE  IInv'
<1>1. /\ list' \in [Lib -> Definition \cup {None}]
      /\ list'[l] = def
      /\ \A k \in Lib \ {l} : list'[k] = list[k]
  BY SetKeeps DEF IInv
<1>2. TypeOK' /\ NoFileTwice'
  BY <1>1, AdvanceKeeps DEF IInv, OneAtATime, TypeOK, Defined
<1>3. KnownIsListed'
  BY <1>1 DEF IInv, KnownIsListed, Defined
<1>4. ImplicitUnderRoot'
  <2>1. \A k \in Lib : TmpRootPath(k)' = TmpRootPath(k)
    BY DEF TmpRootPath
  <2> QED BY <1>1, <2>1 DEF IInv, ImplicitUnderRoot
<1>5. OneAtATime'
  BY AdvanceKeeps DEF IInv, OneAtATime
<1> QED BY <1>2, <1>3, <1>4, <1>5 DEF IInv

\* A line that leaves the list and the context alone.
LEMMA NoLibrary ==
    ASSUME IInv, Loading, Advance, UNCHANGED <<list, ctx>>
    PROVE  IInv'
<1>1. TypeOK' /\ NoFileTwice' /\ OneAtATime'
  BY AdvanceKeeps DEF IInv, OneAtATime, TypeOK, Defined, ctx
<1>2. KnownIsListed'
  BY DEF IInv, KnownIsListed, Defined, ctx
<1>3. ImplicitUnderRoot'
  BY DEF IInv, ImplicitUnderRoot, TmpRootPath, ctx
<1> QED BY <1>1, <1>2, <1>3 DEF IInv

LEMMA DefineKeeps == IInv /\ Define => IInv'
<1> SUFFICES ASSUME IInv, Define PROVE IInv'
  OBVIOUS
<1>1. Loading /\ Now.lib \in Lib /\ Target \in Path
  BY NowIsLine, LineFields, TargetType DEF IInv, Define, Usable, At
<1> DEFINE lib == Now.lib
           def == [path |-> Target, write |-> TmpRootPath(Now.lib),
                   mode |-> Shared, attr |-> {}]
<1>2. def \in Definition
  BY <1>1, TmpRootType, LibDefAssumption DEF IInv, Definition
<1>3. def # None /\ def.write = TmpRootPath(lib)
  BY <1>2, LibDefAssumption
<1>4. /\ Advance
      /\ Set(lib, def)
      /\ libsByName' = libsByName \cup {lib}
      /\ explicitWritePath' = explicitWritePath \ {lib}
      /\ allLibsTmpRoot' = allLibsTmpRoot
  BY DEF Define
<1>5. explicitWritePath \subseteq libsByName /\ libsByName \subseteq Lib
  BY DEF IInv, ImplicitUnderRoot, TypeOK
<1> HIDE DEF lib, def
<1>6. lib \in Lib
  BY <1>1 DEF lib
<1> QED BY <1>1, <1>2, <1>3, <1>4, <1>5, <1>6, OneLibrary

LEMMA UndefineKeeps == IInv /\ Undefine => IInv'
<1> SUFFICES ASSUME IInv, Undefine PROVE IInv'
  OBVIOUS
<1>1. Loading /\ Now.lib \in Lib
  BY NowIsLine, LineFields DEF IInv, Undefine, At
<1> DEFINE lib == Now.lib
<1>2. /\ Advance
      /\ Set(lib, None)
      /\ libsByName' = libsByName \ {lib}
      /\ explicitWritePath' = explicitWritePath \ {lib}
      /\ allLibsTmpRoot' = allLibsTmpRoot
  BY DEF Undefine
<1>3. explicitWritePath \subseteq libsByName /\ libsByName \subseteq Lib
  BY DEF IInv, ImplicitUnderRoot, TypeOK
<1>4. lib \in Lib
  BY <1>1
<1> HIDE DEF lib
<1> QED BY <1>1, <1>2, <1>3, <1>4, OneLibrary

\* A known library has a definition to assign to.
LEMMA KnownHasType ==
    ASSUME IInv, NEW l \in libsByName
    PROVE  l \in Lib /\ list[l] \in Definition /\ list[l] # None
BY DefinedHasType DEF IInv, KnownIsListed, TypeOK, Defined

LEMMA AssignWriteKeeps == IInv /\ AssignWrite => IInv'
<1> SUFFICES ASSUME IInv, AssignWrite PROVE IInv'
  OBVIOUS
<1>1. Loading /\ Now.lib \in libsByName /\ Target \in Path
  BY NowIsLine, LineFields, TargetType DEF IInv, AssignWrite, At
<1> DEFINE lib == Now.lib
           def == [list[lib] EXCEPT !.write = Target]
<1>2. lib \in Lib /\ list[lib] \in Definition
  BY <1>1, KnownHasType
<1>3. /\ def \in Definition
      /\ def.write = Target
  BY <1>1, <1>2 DEF Definition
<1>4. def # None
  BY <1>3, LibDefAssumption
<1>5. /\ Advance
      /\ Set(lib, def)
      /\ libsByName' = libsByName
      /\ explicitWritePath' = explicitWritePath \cup {lib}
      /\ allLibsTmpRoot' = allLibsTmpRoot
  BY DEF AssignWrite, ctx
<1>6. explicitWritePath \subseteq libsByName /\ libsByName \subseteq Lib
  BY DEF IInv, ImplicitUnderRoot, TypeOK
<1>7. lib \in libsByName \ explicitWritePath => list[lib].write = TmpRootPath(lib)
  BY DEF IInv, ImplicitUnderRoot
<1> HIDE DEF lib, def
<1>8. lib \in libsByName
  BY <1>1 DEF lib
<1> QED BY <1>1, <1>2, <1>3, <1>4, <1>5, <1>6, <1>7, <1>8, OneLibrary

LEMMA AssignModeKeeps == IInv /\ AssignMode => IInv'
<1> SUFFICES ASSUME IInv, AssignMode PROVE IInv'
  OBVIOUS
<1>1. Loading /\ Now.lib \in libsByName /\ Now.mode \in Mode
  BY NowIsLine, LineFields DEF IInv, AssignMode, KnownMode, At
<1> DEFINE lib == Now.lib
           def == [list[lib] EXCEPT !.mode = Now.mode]
<1>2. lib \in Lib /\ list[lib] \in Definition
  BY <1>1, KnownHasType
<1>3. /\ def \in Definition
      /\ def.write = list[lib].write
  BY <1>1, <1>2 DEF Definition
<1>4. def # None
  BY <1>3, LibDefAssumption
<1>5. /\ Advance
      /\ Set(lib, def)
      /\ libsByName' = libsByName
      /\ explicitWritePath' = explicitWritePath
      /\ allLibsTmpRoot' = allLibsTmpRoot
  BY DEF AssignMode, ctx
<1>6. explicitWritePath \subseteq libsByName /\ libsByName \subseteq Lib
  BY DEF IInv, ImplicitUnderRoot, TypeOK
<1>7. lib \in libsByName \ explicitWritePath => list[lib].write = TmpRootPath(lib)
  BY DEF IInv, ImplicitUnderRoot
<1> HIDE DEF lib, def
<1>8. lib \in libsByName
  BY <1>1 DEF lib
<1> QED BY <1>1, <1>2, <1>3, <1>4, <1>5, <1>6, <1>7, <1>8, OneLibrary

LEMMA AssignAttrKeeps == IInv /\ AssignAttr => IInv'
<1> SUFFICES ASSUME IInv, AssignAttr PROVE IInv'
  OBVIOUS
<1>1. Loading /\ Now.lib \in libsByName /\ Now.attr \in Attribute
  BY NowIsLine, LineFields DEF IInv, AssignAttr, At
<1> DEFINE lib == Now.lib
           def == [list[lib] EXCEPT !.attr = But(@, Now.attr.name) \cup {Now.attr}]
<1>2. lib \in Lib /\ list[lib] \in Definition
  BY <1>1, KnownHasType
<1>3. /\ def \in Definition
      /\ def.write = list[lib].write
  BY <1>1, <1>2 DEF Definition, But
<1>4. def # None
  BY <1>3, LibDefAssumption
<1>5. /\ Advance
      /\ Set(lib, def)
      /\ libsByName' = libsByName
      /\ explicitWritePath' = explicitWritePath
      /\ allLibsTmpRoot' = allLibsTmpRoot
  BY DEF AssignAttr, ctx
<1>6. explicitWritePath \subseteq libsByName /\ libsByName \subseteq Lib
  BY DEF IInv, ImplicitUnderRoot, TypeOK
<1>7. lib \in libsByName \ explicitWritePath => list[lib].write = TmpRootPath(lib)
  BY DEF IInv, ImplicitUnderRoot
<1> HIDE DEF lib, def
<1>8. lib \in libsByName
  BY <1>1 DEF lib
<1> QED BY <1>1, <1>2, <1>3, <1>4, <1>5, <1>6, <1>7, <1>8, OneLibrary

LEMMA UnassignWriteKeeps == IInv /\ UnassignWrite => IInv'
<1> SUFFICES ASSUME IInv, UnassignWrite PROVE IInv'
  OBVIOUS
<1>1. Loading /\ Now.lib \in libsByName
  BY NowIsLine, LineFields DEF IInv, UnassignWrite, At
<1> DEFINE lib == Now.lib
           def == [list[lib] EXCEPT !.write = TmpRootPath(lib)]
<1>2. lib \in Lib /\ list[lib] \in Definition
  BY <1>1, KnownHasType
<1>3. /\ def \in Definition
      /\ def.write = TmpRootPath(lib)
  BY <1>1, <1>2, TmpRootType DEF IInv, Definition
<1>4. def # None
  BY <1>3, LibDefAssumption
<1>5. /\ Advance
      /\ Set(lib, def)
      /\ libsByName' = libsByName
      /\ explicitWritePath' = explicitWritePath \ {lib}
      /\ allLibsTmpRoot' = allLibsTmpRoot
  BY DEF UnassignWrite, ctx
<1>6. explicitWritePath \subseteq libsByName /\ libsByName \subseteq Lib
  BY DEF IInv, ImplicitUnderRoot, TypeOK
<1>7. lib \in libsByName \ explicitWritePath => list[lib].write = TmpRootPath(lib)
  BY DEF IInv, ImplicitUnderRoot
<1> HIDE DEF lib, def
<1>8. lib \in libsByName
  BY <1>1 DEF lib
<1> QED BY <1>1, <1>2, <1>3, <1>4, <1>5, <1>6, <1>7, <1>8, OneLibrary

LEMMA UnassignAttrKeeps == IInv /\ UnassignAttr => IInv'
<1> SUFFICES ASSUME IInv, UnassignAttr PROVE IInv'
  OBVIOUS
<1>1. Loading /\ Now.lib \in libsByName
  BY NowIsLine, LineFields DEF IInv, UnassignAttr, At
<1> DEFINE lib == Now.lib
           def == [list[lib] EXCEPT !.attr = But(@, Now.name)]
<1>2. lib \in Lib /\ list[lib] \in Definition
  BY <1>1, KnownHasType
<1>3. /\ def \in Definition
      /\ def.write = list[lib].write
  BY <1>1, <1>2 DEF Definition, But
<1>4. def # None
  BY <1>3, LibDefAssumption
<1>5. /\ Advance
      /\ Set(lib, def)
      /\ libsByName' = libsByName
      /\ explicitWritePath' = explicitWritePath
      /\ allLibsTmpRoot' = allLibsTmpRoot
  BY DEF UnassignAttr, ctx
<1>6. explicitWritePath \subseteq libsByName /\ libsByName \subseteq Lib
  BY DEF IInv, ImplicitUnderRoot, TypeOK
<1>7. lib \in libsByName \ explicitWritePath => list[lib].write = TmpRootPath(lib)
  BY DEF IInv, ImplicitUnderRoot
<1> HIDE DEF lib, def
<1>8. lib \in libsByName
  BY <1>1 DEF lib
<1> QED BY <1>1, <1>2, <1>3, <1>4, <1>5, <1>6, <1>7, <1>8, OneLibrary

\* The temporary root directory reaches every library without a write path of its
\* own.
LEMMA AssignRootKeeps == IInv /\ AssignRoot => IInv'
<1> SUFFICES ASSUME IInv, AssignRoot PROVE IInv'
  OBVIOUS
<1>1. Loading /\ Target \in Root /\ Advance
  BY NowIsLine, TargetType DEF IInv, AssignRoot, At
<1> DEFINE path == Target
<1>2. /\ allLibsTmpRoot' = path
      /\ list' = [l \in Lib |-> IF l \in libsByName \ explicitWritePath
                                THEN [list[l] EXCEPT !.write = Join[path, l]]
                                ELSE list[l]]
      /\ libsByName' = libsByName /\ explicitWritePath' = explicitWritePath
  BY DEF AssignRoot
<1> HIDE DEF path
<1>3. path \in Root /\ path # NoPath
  BY <1>1, LibDefAssumption DEF path
<1>4. ASSUME NEW l \in libsByName
      PROVE  [list[l] EXCEPT !.write = Join[path, l]] \in Definition
  BY <1>3, <1>4, KnownHasType, LibDefAssumption DEF Definition
<1>5. list' \in [Lib -> Definition \cup {None}]
  BY <1>2, <1>4 DEF IInv, TypeOK
<1>6. TypeOK' /\ NoFileTwice' /\ OneAtATime'
  <2>1. /\ stack' \in Seq(Reading)
        /\ NoFileTwice'
        /\ text' = text /\ saving' = saving /\ toSave' = toSave /\ loads' = loads
        /\ edits' = edits /\ prior' = prior
    BY <1>1, AdvanceKeeps DEF IInv
  <2>2. ~saving /\ toSave = {}
    BY <1>1 DEF IInv, OneAtATime
  <2>3. OneAtATime'
    BY <2>1, <2>2 DEF OneAtATime
  <2>4. allLibsTmpRoot' \in Root \cup {NoPath}
    BY <1>2, <1>3
  <2> QED BY <1>2, <1>5, <2>1, <2>2, <2>3, <2>4 DEF IInv, TypeOK
<1>7. KnownIsListed'
  BY <1>2, <1>4, LibDefAssumption, KnownHasType DEF KnownIsListed, Defined
<1>8. ImplicitUnderRoot'
  <2>1. explicitWritePath' \subseteq libsByName'
    BY <1>2 DEF IInv, ImplicitUnderRoot
  <2>2. ASSUME NEW l \in libsByName \ explicitWritePath
        PROVE  list'[l].write = TmpRootPath(l)'
    <3>1. TmpRootPath(l)' = Join[path, l]
      BY <1>2, <1>3 DEF TmpRootPath
    <3>2. list'[l] = [list[l] EXCEPT !.write = Join[path, l]]
      BY <1>2, <2>2, KnownHasType
    <3>3. [list[l] EXCEPT !.write = Join[path, l]].write = Join[path, l]
      BY <2>2, KnownHasType DEF Definition
    <3> QED BY <3>1, <3>2, <3>3
  <2> QED BY <1>2, <2>1, <2>2 DEF ImplicitUnderRoot
<1> QED BY <1>6, <1>7, <1>8 DEF IInv

LEMMA SkipKeeps == IInv /\ Skip => IInv'
BY NoLibrary DEF Skip, At

-----------------------------------------------------------------------------
(* The steps that begin and end a file, a load or a save.                  *)

\* What concerns the list only depends on the list and the context.
LEMMA SameLibraries ==
    ASSUME IInv, UNCHANGED <<list, ctx>>
    PROVE  KnownIsListed' /\ ImplicitUnderRoot'
BY DEF IInv, KnownIsListed, ImplicitUnderRoot, Defined, TmpRootPath, ctx

\* The file that is included is not being read, so it is read once.
LEMMA IncludeKeeps == IInv /\ Include => IInv'
<1> SUFFICES ASSUME IInv, Include PROVE IInv'
  OBVIOUS
<1> DEFINE file == Included
           frame == [file |-> file, next |-> 1]
<1>1. /\ Loading
      /\ file \in File \ Active
      /\ stack' = Append(Advanced, frame)
      /\ UNCHANGED <<text, list, ctx, saving, toSave, loads, history>>
  BY IncludedType DEF Include, At
<1>2. frame \in Reading /\ frame.file = file
  BY <1>1 DEF Reading
<1> HIDE DEF file, frame
<1>3. /\ Advanced \in Seq(Reading)
      /\ Len(Advanced) = Len(stack)
      /\ \A i \in DOMAIN stack : Advanced[i].file = stack[i].file
  BY <1>1, AdvancedStack DEF IInv
<1>4. stack \in Seq(Reading)
  BY DEF IInv, TypeOK
<1>5. stack' \in Seq(Reading)
  BY <1>1, <1>2, <1>3
<1>6. NoFileTwice'
  <2>1. \A i \in DOMAIN stack : i \in DOMAIN stack' /\ stack'[i].file = stack[i].file
    BY <1>1, <1>3, <1>4
  <2>2. DOMAIN stack' = DOMAIN stack \cup {Len(stack) + 1}
    BY <1>1, <1>3, <1>4
  <2>3. stack'[Len(stack) + 1].file = file
    BY <1>1, <1>2, <1>3
  <2>4. \A i \in DOMAIN stack : stack[i].file # file
    BY <1>1 DEF Active
  <2> QED BY <2>1, <2>2, <2>3, <2>4 DEF IInv, NoFileTwice
<1>7. TypeOK' /\ OneAtATime'
  BY <1>1, <1>5 DEF IInv, TypeOK, OneAtATime, Defined, ctx, history, Loading
<1> QED BY <1>1, <1>6, <1>7, SameLibraries DEF IInv

LEMMA DoneKeeps == IInv /\ Done => IInv'
<1> SUFFICES ASSUME IInv, Done PROVE IInv'
  OBVIOUS
<1>1. /\ stack \in Seq(Reading) /\ stack # <<>>
      /\ stack' = SubSeq(stack, 1, Len(stack) - 1)
      /\ UNCHANGED <<text, list, ctx, saving, toSave, loads, history>>
  BY DEF IInv, TypeOK, Done, Loading
<1>2. /\ stack' \in Seq(Reading)
      /\ \A i \in DOMAIN stack' : i \in DOMAIN stack /\ stack'[i] = stack[i]
  BY <1>1
<1>3. NoFileTwice'
  BY <1>2 DEF IInv, NoFileTwice
<1>4. TypeOK' /\ OneAtATime'
  BY <1>1, <1>2 DEF IInv, TypeOK, OneAtATime, Defined, ctx, history, Loading
<1> QED BY <1>1, <1>3, <1>4, SameLibraries DEF IInv

LEMMA OpenKeeps == IInv /\ Open => IInv'
<1> SUFFICES ASSUME IInv, Open PROVE IInv'
  OBVIOUS
<1> DEFINE frame == [file |-> Top, next |-> 1]
<1>1. frame \in Reading
  BY LibDefAssumption DEF Reading
<1>2. stack' = <<frame>>
  BY DEF Open
<1> HIDE DEF frame
<1>3. stack' \in Seq(Reading) /\ DOMAIN stack' = {1}
  BY <1>1, <1>2
<1>4. loads' \in 0 .. MaxLoads
  BY LibDefAssumption DEF IInv, TypeOK, Open
<1>5. TypeOK'
  BY <1>3, <1>4 DEF IInv, TypeOK, Open, Defined
<1>6. NoFileTwice'
  BY <1>3 DEF NoFileTwice
<1>7. OneAtATime' /\ KnownIsListed' /\ ImplicitUnderRoot'
  BY DEF IInv, OneAtATime, KnownIsListed, ImplicitUnderRoot, Open
<1> QED BY <1>5, <1>6, <1>7 DEF IInv

\* A save changes the text of the file that was opened and nothing in the list.
LEMMA SaveStepsKeep == IInv /\ (Save \/ (\E l \in Lib : SaveLib(l)) \/ Saved) => IInv'
<1> SUFFICES ASSUME IInv, Save \/ (\E l \in Lib : SaveLib(l)) \/ Saved PROVE IInv'
  OBVIOUS
<1>1. UNCHANGED <<list, stack, ctx, loads, history>> /\ ~Loading
  BY DEF Save, SaveLib, Saved, IInv, OneAtATime
<1>2. NoFileTwice'
  BY <1>1 DEF IInv, NoFileTwice
<1>3. text' \in [File -> Seq(Line)] /\ toSave' \in SUBSET Defined
  <2>1. CASE Save
    <3>1. <<>> \in Seq(Line)
      OBVIOUS
    <3> QED BY <2>1, <3>1 DEF IInv, TypeOK, Save
  <2>2. ASSUME NEW l \in Lib, SaveLib(l)
        PROVE  text' \in [File -> Seq(Line)] /\ toSave' \in SUBSET Defined
    <3>1. PICK attrs \in AttrLines(l) :
              text' = [text EXCEPT ![Top] = @ \o LinesOf(l) \o attrs]
      BY <2>2 DEF SaveLib
    <3>2. /\ LinesOf(l) \in Seq(Line) /\ attrs \in Seq(Line)
          /\ text[Top] \in Seq(Line)
      BY <2>2, <3>1, LinesType, LibDefAssumption DEF IInv, TypeOK, SaveLib
    <3>3. text[Top] \o LinesOf(l) \o attrs \in Seq(Line)
      BY <3>2
    <3>4. toSave' = toSave \ {l}
      BY <2>2 DEF SaveLib
    <3> QED BY <3>1, <3>3, <3>4 DEF IInv, TypeOK
  <2>3. CASE Saved
    BY <2>3 DEF IInv, TypeOK, Saved
  <2> QED BY <2>1, <2>2, <2>3
<1>4. saving' \in BOOLEAN /\ OneAtATime'
  BY <1>1 DEF Save, SaveLib, Saved, IInv, TypeOK, OneAtATime, Loading
<1>5. TypeOK'
  BY <1>1, <1>3, <1>4 DEF IInv, TypeOK, Defined, ctx, history
<1> QED BY <1>1, <1>2, <1>4, <1>5, SameLibraries DEF IInv

LEMMA ExitKeeps == IInv /\ Exit => IInv'
<1> SUFFICES ASSUME IInv, Exit PROVE IInv'
  OBVIOUS
<1>1. TypeOK'
  <2>1. stack' = <<>> /\ <<>> \in Seq(Reading)
    BY DEF Exit
  <2>2. list' \in [Lib -> Definition \cup {None}]
    BY DEF Exit
  <2>3. /\ libsByName' = {} /\ explicitWritePath' = {} /\ toSave' = {}
        /\ allLibsTmpRoot' = NoPath /\ saving' = FALSE
        /\ text' = text /\ loads' = loads
        /\ edits' = edits /\ prior' = prior
    BY DEF Exit, history
  <2> QED BY <2>1, <2>2, <2>3 DEF IInv, TypeOK
<1>2. NoFileTwice'
  BY DEF NoFileTwice, Exit
<1>3. OneAtATime' /\ KnownIsListed' /\ ImplicitUnderRoot'
  BY DEF OneAtATime, Loading, KnownIsListed, ImplicitUnderRoot, Exit
<1> QED BY <1>1, <1>2, <1>3 DEF IInv

\* What is left of a file without one of its lines are lines.
LEMMA EditKeeps ==
    ASSUME IInv, NEW f \in File, NEW i \in DOMAIN text[f], Edit(f, i)
    PROVE  IInv'
<1> DEFINE left == SubSeq(text[f], 1, i - 1) \o SubSeq(text[f], i + 1, Len(text[f]))
<1>1. text' = [text EXCEPT ![f] = left]
  BY DEF Edit
<1>2. left \in Seq(Line)
  <2>1. text[f] \in Seq(Line) /\ i \in 1 .. Len(text[f])
    BY DEF IInv, TypeOK
  <2>2. SubSeq(text[f], 1, i - 1) \in Seq(Line)
    BY <2>1
  <2>3. SubSeq(text[f], i + 1, Len(text[f])) \in Seq(Line)
    BY <2>1
  <2> QED BY <2>2, <2>3
<1> HIDE DEF left
<1>3. UNCHANGED <<list, stack, ctx, saving, toSave, loads, prior>>
  BY DEF Edit
<1>4. text' \in [File -> Seq(Line)]
  BY <1>1, <1>2 DEF IInv, TypeOK
<1>5. edits' \in 0 .. MaxEdits
  BY LibDefAssumption DEF IInv, TypeOK, Edit
<1>6. TypeOK' /\ NoFileTwice' /\ OneAtATime'
  BY <1>3, <1>4, <1>5
     DEF IInv, TypeOK, NoFileTwice, OneAtATime, Defined, Loading, ctx
<1> QED BY <1>3, <1>6, SameLibraries DEF IInv

-----------------------------------------------------------------------------
(* The theorems.                                                           *)

\* The inductive invariant holds of every step of loads and saves.
LEMMA Inductive == Spec => []IInv
<1>1. Init => IInv
  <2> SUFFICES ASSUME Init PROVE IInv
    OBVIOUS
  <2>1. TypeOK
    <3>1. stack = <<>> /\ <<>> \in Seq(Reading)
      BY DEF Init
    <3>2. list \in [Lib -> Definition \cup {None}]
      BY DEF Init
    <3>3. text \in [File -> Seq(Line)] /\ loads \in 0 .. MaxLoads
      BY LibDefAssumption DEF Init
    <3>5. /\ edits \in 0 .. MaxEdits
          /\ prior \in [Lib -> Definition \cup {None}]
      BY LibDefAssumption DEF Init
    <3>4. /\ libsByName = {} /\ explicitWritePath = {} /\ toSave = {}
          /\ allLibsTmpRoot = NoPath /\ saving = FALSE
      BY DEF Init
    <3> QED BY <3>1, <3>2, <3>3, <3>4, <3>5 DEF TypeOK
  <2>2. NoFileTwice /\ OneAtATime /\ KnownIsListed /\ ImplicitUnderRoot
    BY DEF Init, NoFileTwice, OneAtATime, KnownIsListed, ImplicitUnderRoot
  <2> QED BY <2>1, <2>2 DEF IInv
<1>2. IInv /\ [Next]_vars => IInv'
  <2> SUFFICES ASSUME IInv, [Next]_vars PROVE IInv'
    OBVIOUS
  <2>1. CASE Open
    BY <2>1, OpenKeeps
  <2>2. CASE Read
    BY <2>2, DefineKeeps, UndefineKeeps, IncludeKeeps, AssignRootKeeps,
       AssignWriteKeeps, AssignModeKeeps, AssignAttrKeeps, UnassignWriteKeeps,
       UnassignAttrKeeps, SkipKeeps, DoneKeeps DEF Read
  <2>3. CASE Save \/ (\E l \in Lib : SaveLib(l)) \/ Saved
    BY <2>3, SaveStepsKeep
  <2>4. CASE Exit
    BY <2>4, ExitKeeps
  <2>6. CASE \E f \in File : \E i \in DOMAIN text[f] : Edit(f, i)
    BY <2>6, EditKeeps
  <2>5. CASE UNCHANGED vars
    <3>1. UNCHANGED <<list, ctx>>
      BY <2>5 DEF vars, ctx
    <3>2. TypeOK' /\ NoFileTwice' /\ OneAtATime'
      BY <2>5 DEF vars, IInv, TypeOK, NoFileTwice, OneAtATime, Defined, Loading
    <3> QED BY <3>1, <3>2, SameLibraries DEF IInv
  <2> QED BY <2>1, <2>2, <2>3, <2>4, <2>5, <2>6 DEF Next
<1> QED BY <1>1, <1>2, PTL DEF Spec

\* Every variable keeps its type: in particular only defined libraries are written
\* to a saved file, and the lines that are written can be read.
THEOREM TypeCorrect == Spec => []TypeOK
<1>1. IInv => TypeOK BY DEF IInv
<1> QED BY <1>1, Inductive, PTL

\* However the files include each other, none is read inside itself
\* (loadLibDefList and its activeFiles).
THEOREM IncludesAreNotRecursive == Spec => []NoFileTwice
<1>1. IInv => NoFileTwice BY DEF IInv
<1> QED BY <1>1, Inductive, PTL

\* ASSIGN and UNASSIGN never reach a library that is destroyed (libsByName).
THEOREM AssignedLibrariesExist == Spec => []KnownIsListed
<1>1. IInv => KnownIsListed BY DEF IInv
<1> QED BY <1>1, Inductive, PTL

\* The temporary root directory is in force for exactly the libraries without a
\* write path of their own, wherever in the files it is assigned
\* (createOrReplaceLibDef, applyAllLibsTmpRoot, assignLib, unassignLib).
THEOREM RootIsInForce == Spec => []ImplicitUnderRoot
<1>1. IInv => ImplicitUnderRoot BY DEF IInv
<1> QED BY <1>1, Inductive, PTL
===============================================================================
