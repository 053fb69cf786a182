------------------------------ MODULE LibDefPath ------------------------------
(***************************************************************************)
(* How oaAiviLibDef.cpp turns what a line says into an absolute path, and  *)
(* where it looks for the file of an application that names none           *)
(* (src/src/aivilibdef/oaAiviLibDef.cpp).                                  *)
(*                                                                         *)
(* A path is the sequence of what is between its slashes: "/a/b" is        *)
(* <<"", "a", "b">>, "/" is RootDir, and the empty string is <<"">>.  To   *)
(* concatenate two strings with a slash between them is to concatenate the *)
(* sequences.  A segment may be ~ or ~user, $NAME or ${NAME}, or a $(...)  *)
(* expression; which of them it is, the constants say.                     *)
(***************************************************************************)
EXTENDS Naturals, Sequences, SequencesExt

CONSTANTS Variable,   \* the variable that a segment $NAME or ${NAME} names
          User,       \* the user that ~user names; "" for ~
          ThisFile,   \* the segments $(compute:THIS_FILE_INST_ROOT),
          ThisTool,   \* $(compute:THIS_TOOL_INST_ROOT)
          RootWith,   \* and $(inst_root_with:PATH), with the path
          Bad,        \* segments $(...) and ${... that say nothing
          Blanks,     \* segments with a blank, and what is before it
          Single,     \* segments with blanks side by side, and one in their place
          Comment,    \* segments with a comment, and what is before it
          Env,        \* values of environment variables that are set
          StrmDirs, PathDirs,  \* those that are lists
          Me, PasswdHome,      \* this user, and the home directories
          Cwd,        \* the working directory
          Exists,     \* the paths that are there
          Nowhere

RootDir == <<"", "">>

IsAbsolutePath(p) == Len(p) > 1 /\ Head(p) = ""

DirnameOf(p) == IF Len(p) = 1 THEN <<".">>
                ELSE IF Len(p) = 2 /\ Head(p) = "" THEN RootDir
                ELSE Front(p)

\* One segment more, after those that are left of the ones before it.
Enter(absolute, parts, s) ==
    IF s \in {"", "."} THEN parts
    ELSE IF s # ".." THEN Append(parts, s)
    ELSE IF parts # <<>> /\ Last(parts) # ".." THEN Front(parts)
    ELSE IF absolute THEN parts
    ELSE Append(parts, s)

LexicalNormalize(p) ==
    LET absolute == IsAbsolutePath(p)
        parts == FoldLeft(LAMBDA done, s : Enter(absolute, done, s), <<>>, p)
    IN  IF p = <<"">> THEN p
        ELSE IF parts = <<>> THEN IF absolute THEN RootDir ELSE <<".">>
        ELSE IF absolute THEN <<"">> \o parts ELSE parts

MakeAbsolute(p, base) ==
    LexicalNormalize(IF IsAbsolutePath(p) THEN p ELSE base \o p)

\* A segment with a wildcard stands for all that have one.
ContainsWildcard(p) == {"*", "?"} \cap ToSet(p) # {}

-----------------------------------------------------------------------------
\* The first member of a sequence that passes a test.
FirstOf(seq, Test(_)) ==
    LET i == SelectInSeq(seq, Test) IN IF i = 0 THEN Nowhere ELSE seq[i]

\* A variable that is not set or empty counts as none where it is tested.
NonEmpty(name) == name \in DOMAIN Env /\ Env[name] # <<"">>

SplitPathList(paths) == SelectSeq(paths, LAMBDA p : p # <<"">>)

\* From the directory upwards, the root directory last.
FindAncestorContaining(start, rel) ==
    LET path == MakeAbsolute(start, Cwd)
        upwards == [k \in 1 .. Len(path) |->
                        IF k = Len(path) THEN RootDir
                        ELSE SubSeq(path, 1, Len(path) + 1 - k)]
    IN  FirstOf(upwards, LAMBDA d : LexicalNormalize(d \o rel) \in Exists)

ToolRoot ==
    LET name == FirstOf(<<"CDS_INST_DIR", "CDSHOME", "OA_HOME", "OA_ROOT",
                          "OPENACCESS_HOME">>, NonEmpty)
    IN  IF name = Nowhere THEN Nowhere ELSE LexicalNormalize(Env[name])

\* The stream directories themselves, then the ancestors of those in PATH.
RootContaining(rel) ==
    LET strm == SplitPathList(StrmDirs)
        path == SplitPathList(PathDirs)
        roots == [i \in DOMAIN strm |-> MakeAbsolute(strm[i], Cwd)]
        root == FirstOf(roots, LAMBDA d : LexicalNormalize(d \o rel) \in Exists)
    IN  IF root # Nowhere THEN root
        ELSE FirstOf([i \in DOMAIN path |-> FindAncestorContaining(path[i], rel)],
                     LAMBDA d : d # Nowhere)

\* evalInstallRootExpression, for a file of the directory dir.
EvalInstallRootExpression(s, dir) ==
    IF s = ThisFile
    THEN LET root == FindAncestorContaining(dir, <<"tools">>)
         IN  IF root = Nowhere THEN dir ELSE root
    ELSE IF s = ThisTool THEN ToolRoot
    ELSE RootContaining(RootWith[s])

Home == IF NonEmpty("HOME") THEN Env["HOME"] ELSE PasswdHome[Me]

ExpandTilde(raw) ==
    IF Head(raw) \notin DOMAIN User THEN raw
    ELSE LET user == User[Head(raw)]
             home == IF user = "" THEN Home ELSE PasswdHome[user]
         IN  IF home \in {Nowhere, <<"">>} THEN Nowhere ELSE home \o Tail(raw)

\* What a segment stands for.
Expand(s, dir) ==
    IF s \in DOMAIN Variable
    THEN IF Variable[s] \in DOMAIN Env THEN Env[Variable[s]] ELSE Nowhere
    ELSE IF s \in Bad THEN Nowhere
    ELSE IF s \in {ThisFile, ThisTool} \cup DOMAIN RootWith
    THEN EvalInstallRootExpression(s, dir)
    ELSE <<s>>

ExpandVariables(p, dir) ==
    LET parts == [i \in DOMAIN p |-> Expand(p[i], dir)]
    IN  IF Nowhere \in ToSet(parts) THEN Nowhere ELSE FlattenSeq(parts)

ResolvePath(raw, dir) ==
    LET p == ExpandTilde(raw)
        q == IF p = Nowhere THEN Nowhere ELSE ExpandVariables(p, dir)
    IN  IF q = Nowhere THEN Nowhere ELSE MakeAbsolute(q, dir)

TmpRootPathForLib(root, lib) == LexicalNormalize(Append(root, lib))

\* tokenize: a path that is not in quotes ends at the first blank.
FirstToken(p) ==
    LET cut == SelectInSeq(p, LAMBDA s : s \in DOMAIN Blanks)
    IN  IF cut = 0 THEN p
        ELSE Append(SubSeq(p, 1, cut - 1), Blanks[p[cut]])

\* stripComment, tokenize and joinTokens: what is read of a path without quotes at
\* the end of an ASSIGN.
RestOfLine(p) ==
    LET cut == SelectInSeq(p, LAMBDA s : s \in DOMAIN Comment)
        left == IF cut = 0 THEN p
                ELSE Append(SubSeq(p, 1, cut - 1), Comment[p[cut]])
    IN  [i \in DOMAIN left |-> IF left[i] \in DOMAIN Single THEN Single[left[i]]
                               ELSE left[i]]

\* The same of the name and the value of an attribute, each the sequence of what is
\* between its blanks.  A line that is left with fewer than four words does nothing.
AttributeAgain(x) ==
    LET line == x.name \o x.value
        comment == SelectInSeq(line, LAMBDA s : s \in {"#", "--"})
        words == SelectSeq(IF comment = 0 THEN line
                           ELSE SubSeq(line, 1, comment - 1),
                           LAMBDA s : s # "")
    IN  IF Len(words) < 2 THEN Nowhere
        ELSE [name |-> <<Head(words)>>, value |-> Tail(words)]

-----------------------------------------------------------------------------
(* The file that is opened when the application names none.                *)

DefaultNames == <<"ai.lib", "lib.defs", "cds.lib">>

DataDirs ==
    FlattenSeq([i \in 1 .. 4 |->
        LET name == <<"OA_DATA_DIR", "OA_HOME", "OA_ROOT", "OPENACCESS_HOME">>[i]
            below == IF name = "OA_DATA_DIR" THEN <<"libraries">>
                     ELSE <<"data", "libraries">>
        IN  IF NonEmpty(name) THEN <<LexicalNormalize(Env[name]) \o below>>
            ELSE <<>>])

DefaultSearchDirs ==
    <<Cwd>> \o (IF Home = Nowhere THEN <<>> ELSE <<Home>>) \o DataDirs

FindDefaultPath(readable) ==
    LET dirs == DefaultSearchDirs
        names == Len(DefaultNames)
        paths == [k \in 1 .. Len(dirs) * names |->
                      MakeAbsolute(Append(dirs[((k - 1) \div names) + 1],
                                          DefaultNames[((k - 1) % names) + 1]),
                                   Cwd)]
    IN  FirstOf(paths, LAMBDA p : p \in readable)
===============================================================================
