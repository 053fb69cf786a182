------------------------------ MODULE LibDefMC ------------------------------
(* Two files that may include each other, and what a load of them means.     *)
EXTENDS LibDef, LibDefPath

CONSTANTS a, b, shared, readOnly

\* /proj/ai.lib is in the working directory; /proj/sub.lib is a symbolic link to
\* /inst/defs/sub.lib.
MCFile == {<<"", "proj", "ai.lib">>, <<"", "inst", "defs", "sub.lib">>}
MCReal == <<"", "proj", "ai.lib">> :> <<"", "proj", "ai.lib">>
          @@ <<"", "proj", "sub.lib">> :> <<"", "inst", "defs", "sub.lib">>
          @@ <<"", "inst", "defs", "sub.lib">> :> <<"", "inst", "defs", "sub.lib">>
MCReadable == DOMAIN MCReal
MCExists == MCReadable \cup {<<"", "inst", "tools">>, <<"", "inst", "bin", "tool">>}
MCCwd == <<"", "proj">>
MCEnv == "HOME" :> <<"", "home", "me">> @@ "PROJ" :> <<"", "proj">>
         @@ "OA_HOME" :> <<"", "inst", ".", "oa", "">>
MCPasswdHome == "me" :> <<"", "home", "passwd">>
MCVariable == "$PROJ" :> "PROJ" @@ "${UNSET}" :> "UNSET"
MCUser == "~" :> ""
MCRootWith == "$(inst_root_with:bin/tool)" :> <<"bin", "tool">>
              @@ "$(inst_root_with:lost)" :> <<"lost">>
MCBlanks == "b c" :> "b" @@ "b  c" :> "b" @@ "tmp # old" :> "tmp"
MCSingle == "b  c" :> "b c"
MCComment == "tmp # old" :> "tmp"

\* Names and values of attributes; the ones of two words, with a comment or with
\* nothing in them are in quotes in the file.
Named(name, value) == [name |-> name, value |-> value]
color == <<"color">>
red == Named(color, <<"red">>)
dark == Named(<<"my">>, <<"dark", "red">>)
Quoted == {Named(color, <<"red", "#", "old">>), Named(color, <<"dark", "", "red">>),
           Named(color, <<"">>), Named(<<"my", "color">>, <<"red">>)}
MCAttribute == Quoted \cup {red, dark, Named(color, <<"dark", "red">>),
                            Named(<<"my">>, <<"color", "red">>)}
MCAgain == [x \in MCAttribute |-> IF AttributeAgain(x) = Nowhere THEN None
                                  ELSE AttributeAgain(x)]

MCPathDirs == <<<<"">>, <<"", "usr", "bin">>, <<"", "inst", "bin", "x86">>>>
MCStrmDirs == <<<<"", "home">>>>
ThisFileText == "$(compute:THIS_FILE_INST_ROOT)"
ThisToolText == "$(compute:THIS_TOOL_INST_ROOT)"

top == <<"", "proj", "ai.lib">>
sub == <<"", "inst", "defs", "sub.lib">>

\* The lines that the files are made of at first.
TopLines == {[op |-> "define", lib |-> a, path |-> <<"run", "..", ".", "lib">>],
             [op |-> "define", lib |-> a, path |-> <<"~", "b c">>],
             [op |-> "undefine", lib |-> a],
             [op |-> "include", path |-> <<"sub.lib">>],
             [op |-> "root", path |-> <<"~", "tmp">>],
             [op |-> "write", lib |-> a, path |-> <<"$PROJ", "own">>],
             [op |-> "unwrite", lib |-> a],
             [op |-> "attr", lib |-> a, attr |-> red]}

SubLines == {[op |-> "define", lib |-> b, path |-> <<"..", "..", "..", "lib">>],
             [op |-> "include", path |-> <<"$PROJ", "", "ai.lib">>],
             [op |-> "root", path |-> <<"$(inst_root_with:bin/tool)", "tmp">>],
             [op |-> "unattr", lib |-> a, name |-> color],
             [op |-> "undefine", lib |-> a]}

\* Lines after a DEFINE that say something a save may not keep.
QuotedLines ==
    {[op |-> "attr", lib |-> a, attr |-> x] : x \in Quoted \cup {red, dark}}
    \cup
    {[op |-> "unattr", lib |-> a, name |-> <<"my">>],
     [op |-> "write", lib |-> a, path |-> <<"~", "b  c">>],
     [op |-> "write", lib |-> a, path |-> <<"~", "tmp # old">>],
     [op |-> "define", lib |-> b, path |-> <<"~", "b c">>]}

\* The ones for which fewer lines in the other file are enough.
MoreSubLines ==
             {[op |-> "mode", lib |-> a, mode |-> readOnly],
              [op |-> "define", lib |-> a, path |-> <<"${UNSET}", "lib">>],
              [op |-> "define", lib |-> a,
                path |-> <<"$(inst_root_with:lost)", "lib">>],
              [op |-> "define", lib |-> a, path |-> <<"*">>],
              [op |-> "define", lib |-> b, path |-> <<ThisToolText, "lib">>],
              [op |-> "include", path |-> <<"$PROJ", "..", "inst", "lost.lib">>],
              [op |-> "root", path |-> <<"${unclosed">>],
              [op |-> "define", lib |-> b, path |-> <<ThisFileText, "lib">>],
              [op |-> "write", lib |-> a, path |-> <<"$PROJ", "lib">>]}

\* The paths in them, and what each means in a line of top and of sub.
Table ==
    {<<<<"run", "..", ".", "lib">>, <<"", "proj", "lib">>,
                                    <<"", "inst", "defs", "lib">>>>,
     <<<<"sub.lib">>, <<"", "proj", "sub.lib">>, sub>>,
     <<<<"*">>, <<"", "proj", "*">>, <<"", "inst", "defs", "*">>>>,
     <<<<ThisFileText, "lib">>, <<"", "proj", "lib">>, <<"", "inst", "lib">>>>}
    \cup
    {<<row[1], row[2], row[2]>> : row \in
        {<<<<"~", "b c">>, <<"", "home", "me", "b c">>>>,
         <<<<"~", "b  c">>, <<"", "home", "me", "b  c">>>>,
         <<<<"~", "tmp # old">>, <<"", "home", "me", "tmp # old">>>>,
         <<<<"~", "tmp">>, <<"", "home", "me", "tmp">>>>,
         <<<<"$PROJ", "own">>, <<"", "proj", "own">>>>,
         <<<<"$PROJ", "lib">>, <<"", "proj", "lib">>>>,
         <<<<"$PROJ", "", "ai.lib">>, top>>,
         <<<<"$PROJ", "..", "inst", "lost.lib">>, <<"", "inst", "lost.lib">>>>,
         <<<<"..", "..", "..", "lib">>, <<"", "lib">>>>,
         <<<<"$(inst_root_with:bin/tool)", "tmp">>, <<"", "inst", "tmp">>>>,
         <<<<ThisToolText, "lib">>, <<"", "inst", "oa", "lib">>>>,
         <<<<"${UNSET}", "lib">>, NoPath>>,
         <<<<"$(inst_root_with:lost)", "lib">>, NoPath>>,
         <<<<"${unclosed">>, NoPath>>}}

MCRoot == {<<"", "home", "me", "tmp">>, <<"", "inst", "tmp">>}
MCJoin == [p \in MCRoot \X {a, b} |-> Append(p[1], p[2])]
MCPath == ({row[i] : row \in Table, i \in {2, 3}} \ {NoPath})
          \cup {MCJoin[p] : p \in MCRoot \X {a, b}}
          \cup {<<"", "home", "me", "b">>}
MCRaw == MCPath \cup {row[1] : row \in Table}
MCResolve == [p \in MCRaw \X MCFile |->
                 IF p[1] \in MCPath THEN p[1]
                 ELSE (CHOOSE row \in Table : row[1] = p[1])
                          [IF p[2] = top THEN 2 ELSE 3]]
MCWild == {<<"", "proj", "*">>, <<"", "inst", "defs", "*">>}
Of(p) == <<"", "home", "me", p>>
MCCut == [p \in MCPath |-> IF p \in {Of("b c"), Of("b  c")} THEN Of("b")
                           ELSE IF p = Of("tmp # old") THEN Of("tmp") ELSE p]
MCRest == [p \in MCPath |-> IF p = Of("b  c") THEN Of("b c")
                            ELSE IF p = Of("tmp # old") THEN Of("tmp") ELSE p]

UpTo(n, S) == UNION {[1 .. k -> S] : k \in 0 .. n}

\* The lines that say where a library is written.
WriteLines == {line \in TopLines :
                  /\ line.op \in {"define", "root", "write", "unwrite"}
                  /\ line.op = "define" => line.path[1] # "~"}

MCTexts == {(top :> t) @@ (sub :> s) :
               t \in UpTo(3, TopLines) \cup [1 .. 4 -> WriteLines],
               s \in UpTo(1, SubLines)}
           \cup {(top :> t) @@ (sub :> s) :
                     t \in UpTo(2, TopLines), s \in [1 .. 1 -> MoreSubLines]}
           \cup {(top :> <<[op |-> "define", lib |-> a,
                             path |-> <<"$PROJ", "lib">>]>> \o t) @@ (sub :> <<>>) :
                     t \in UpTo(2, QuotedLines)}

-----------------------------------------------------------------------------
(* The table is what LibDefPath makes of these paths, and that is where     *)
(* they lead; and so it is for all short paths of names, dots and variables. *)

\* Where one gets to from the root directory: what no later ".." takes back.
Walk(p) ==
    LET Names(i, j) == {k \in i .. j : p[k] \notin {"", ".", ".."}}
        Ups(i, j) == {k \in i .. j : p[k] = ".."}
        stays == {i \in Names(1, Len(p)) : \A j \in i + 1 .. Len(p) :
                     Cardinality(Ups(i + 1, j)) <= Cardinality(Names(i + 1, j))}
        way == FlattenSeq([i \in DOMAIN p |-> IF i \in stays THEN <<p[i]>>
                                              ELSE <<>>])
    IN  IF way = <<>> THEN RootDir ELSE <<"">> \o way

Expanded(raw, dir) == IF ExpandTilde(raw) = NoPath THEN NoPath
                      ELSE ExpandVariables(ExpandTilde(raw), dir)

Leads(raw, dir) ==
    LET full == Expanded(raw, dir)
    IN  IF full = NoPath THEN NoPath
        ELSE IF Head(full) = "" THEN Walk(full) ELSE Walk(dir \o full)

ASSUME PathAssumption ==
    /\ \A raw \in MCRaw, f \in MCFile :
           /\ MCResolve[raw, f] = ResolvePath(raw, DirnameOf(f))
           /\ MCResolve[raw, f] = Leads(raw, DirnameOf(f))
    /\ \A raw \in UpTo(4, {"", ".", "..", "x", "$PROJ"}) \ {<<>>, <<"">>} :
           ResolvePath(raw, <<"", "proj">>) = Leads(raw, <<"", "proj">>)
    /\ \A r \in MCRoot, l \in {a, b} : MCJoin[r, l] = TmpRootPathForLib(r, l)
    /\ MCWild = {p \in MCPath : ContainsWildcard(p)}
    /\ \A p \in MCPath : MCCut[p] = FirstToken(p) /\ MCRest[p] = RestOfLine(p)
    /\ top = MCReal[FindDefaultPath(MCReadable)]

-----------------------------------------------------------------------------
(* The meaning of the files: the lines in the order in which they are read, *)
(* and for every setting of a library the last line that makes it.           *)

\* A line with what it names.
Said(line, f) ==
    IF line.op \notin {"define", "root", "write"} THEN line
    ELSE LET p == Resolve[line.path, f]
         IN  [line EXCEPT !.path = IF line.op = "define" /\ p \in Wild
                                   THEN NoPath ELSE p]

RECURSIVE Lines(_, _)
Lines(f, reading) ==
    FlattenSeq([i \in DOMAIN text[f] |->
        LET line == text[f][i]
            inside == reading \cup {f}
        IN  IF line.op # "include" THEN <<Said(line, f)>>
            ELSE LET p == Resolve[line.path, f]
                 IN  IF p \in Readable /\ Real[p] \notin inside
                     THEN Lines(Real[p], inside)
                     ELSE <<>>])

Meaning(l) ==
    LET s == Lines(Top, {})
        LastOf(S) == CHOOSE i \in S : \A j \in S : j <= i
        made == {i \in DOMAIN s :
                    \/ s[i].op = "define" /\ s[i].lib = l /\ s[i].path # NoPath
                    \/ s[i].op = "undefine" /\ s[i].lib = l}
        Later(ops) == {i \in DOMAIN s : /\ i > LastOf(made)
                                        /\ s[i].op \in ops /\ s[i].lib = l}
        roots == {i \in DOMAIN s : s[i].op = "root" /\ s[i].path # NoPath}
        writes == {i \in Later({"write", "unwrite"}) :
                      s[i].op = "write" => s[i].path # NoPath}
        modes == {i \in Later({"mode"}) : s[i].mode # NoPath}
        \* The lines that assign an attribute and the last to say of its name.
        attrs == {i \in Later({"attr"}) :
                     \A j \in Later({"attr", "unattr"}) : j > i =>
                        s[i].attr.name # IF s[j].op = "attr" THEN s[j].attr.name
                                         ELSE s[j].name}
    IN  IF made = {} \/ s[LastOf(made)].op = "undefine" THEN None
        ELSE [path |-> s[LastOf(made)].path,
              write |-> IF writes # {} /\ s[LastOf(writes)].op = "write"
                        THEN s[LastOf(writes)].path
                        ELSE IF roots = {} THEN NoPath
                        ELSE Append(s[LastOf(roots)].path, l),
              mode |-> IF modes = {} THEN Shared ELSE s[LastOf(modes)].mode,
              attr |-> {s[i].attr : i \in attrs}]

\* The files say something about a library: it is defined or undefined.
Mentioned(l) == LET s == Lines(Top, {})
                IN  \E i \in DOMAIN s :
                        \/ s[i].op = "undefine" /\ s[i].lib = l
                        \/ /\ s[i].op = "define" /\ s[i].lib = l
                           /\ s[i].path # NoPath

\* A load leaves in the list what the files mean, when it is the first one of the
\* application and when the list was there before: then a library that the files
\* no longer name stays exactly as it was, whatever they assign to it or to all
\* libraries, and nothing else stays.
LoadMeans == [][Done /\ stack' = <<>> =>
                    \A l \in Lib : list[l] = IF Mentioned(l) THEN Meaning(l)
                                             ELSE prior[l]]_vars

\* What OpenAccess answers for a definition.
Seen(def) == IF def = None \/ def.write # NoPath THEN def
             ELSE [def EXCEPT !.write = def.path]

\* What is read of a library again without quotes is what it was.
Plain(def) == /\ Cut[def.path] = def.path
              /\ def.write # NoPath => Rest[def.write] = def.write
              /\ \A x \in def.attr : Again[x] = x

\* A list can be saved and loaded again, the temporary root directory and the
\* included files no longer being needed: every library is defined as before, the
\* ones that are plain exactly as they were, whatever the others look like
\* (writeLibDef).
SaveKeeps == [][Saved => \A l \in Lib :
                    /\ Meaning(l) = None <=> list[l] = None
                    /\ list[l] # None /\ Plain(list[l]) =>
                           Seen(Meaning(l)) = Seen(list[l])]_vars
=============================================================================
