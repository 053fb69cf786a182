---------------------------- MODULE TurboStorage ----------------------------
(***************************************************************************)
(* The storage of the Turbo plug-in                                        *)
(* (src/src/aividmturbo/oaAiviDMTurboStorage.cpp, oaDMTurboStorage.h and   *)
(* oaAiviDMTurboPlugIn.cpp).  A library is a directory with lib.xml, which *)
(* lists the files by name and number, and data files f000000000,          *)
(* f000000001, ...  Each process keeps the index in memory, looks names up *)
(* there and writes all of lib.xml after each change.                      *)
(*                                                                         *)
(* A file record is a name and a number; in memory it also has its place:  *)
(* the library, a cell, a view or a cell view.  A name is what the         *)
(* application called the file and how often xmlEscape has escaped it,     *)
(* for nothing turns &amp; back into & when lib.xml is read.  The mark of  *)
(* a primary file is left out: nothing reads it.                           *)
(***************************************************************************)
EXTENDS Naturals, Sequences, FiniteSets, SequencesExt

CONSTANTS Session,   \* the processes that have the library open
          Cell, View,
          Name,      \* the names that applications give to files
          Special,   \* those with a character that xmlEscape replaces
          Limit,     \* loadLibXml drops numbers from here on (1000000)
          Buffer,    \* records that fit into the buffer of a FILE
          NoXml, NoLib, Absent, Empty,
          Overlap,   \* whether several sessions may be open at a time
          Settings,  \* bounds: numbers that may be used, clients that run,
                     \* whether files of the library cannot be read or written
          MaxEscape  \* bound

Own == {"DMData", "netlist"}  \* the names that the plug-in itself gives

FileName == [of : Name \cup Own, esc : Nat]

\* What lib.xml has of a file, and what the plug-in has in memory.
XmlRecord == [name : FileName, num : Nat]
FileRecord == [at : {<<"lib">>} \cup {"cell"} \X Cell \cup {"view"} \X View
                    \cup {"cellview"} \X (Cell \X View),
               name : FileName, num : Nat]

LibStorage == [files : Seq(FileRecord), cells : Seq(Cell), views : Seq(View),
               cvs : Seq(Cell \X View), next : Nat]

ASSUME StorageAssumption ==
    /\ Special \subseteq Name
    /\ Own \cap Name = {}
    /\ NoXml \notin Seq(XmlRecord) /\ NoLib \notin LibStorage
    /\ \A b \in Settings : b.nums \in Nat /\ b.errors \in BOOLEAN
    /\ Limit \in Nat /\ Buffer \in Nat \ {0}
    /\ Empty # Absent /\ {Empty, Absent} \cap Name = {}
    /\ Overlap \in BOOLEAN
    /\ MaxEscape \in Nat

VARIABLES xml,      \* the records in lib.xml, or NoXml
          data,     \* data[k]: for which name file k was written last
          mem,      \* mem[s]: storage_ of the plug-in, or NoLib
          writing,  \* writing[s]: writeLibXml has emptied lib.xml; why
          setting,  \* the bounds of this behaviour
          torn,     \* history: a library is open and lib.xml does not have it
          breaks    \* history: 0, and 1, 2, 1, ... when lib.xml is broken

storage == <<xml, data, mem, writing, setting, torn, breaks>>

Named(n) == [of |-> n, esc |-> 0]

Broken(n) == IF n = 1 THEN 2 ELSE 1

StorageInit ==
    /\ setting \in Settings
    /\ xml = NoXml
    /\ data = [k \in 0 .. setting.nums - 1 |-> Absent]
    /\ mem = [s \in Session |-> NoLib]
    /\ writing = [s \in Session |-> "no"]
    /\ torn = FALSE
    /\ breaks = 0

-----------------------------------------------------------------------------
(* The index in memory: the records in the order in which they were added, *)
(* the cells, views and cell views likewise, and the next number.          *)

NewStorage == [files |-> <<>>, cells |-> <<>>, views |-> <<>>, cvs |-> <<>>,
               next |-> 0]

LibLevel == <<"lib">>

AddOnce(seq, x) == IF x \in ToSet(seq) THEN seq ELSE Append(seq, x)

AddCell(m, c) == [m EXCEPT !.cells = AddOnce(@, c)]

AddView(m, v) == [m EXCEPT !.views = AddOnce(@, v)]

AddCellView(m, c, v) == [AddCell(m, c) EXCEPT !.cvs = AddOnce(@, <<c, v>>)]

\* Mutant: the number is not used up.
AddFileSameNumber(m, place, n) ==
    [m EXCEPT !.files = Append(@, [at |-> place, name |-> n, num |-> m.next])]

\* addFile, for a parent that is there.
AddFile(m, place, n) ==
    [m EXCEPT !.files = Append(@, [at |-> place, name |-> n, num |-> m.next]),
              !.next = @ + 1]

\* Where a member of a sequence stands first, 0 when it is not there.
Place(seq, x) == IF x \in ToSet(seq)
                 THEN CHOOSE k \in DOMAIN seq : seq[k] = x ELSE 0

\* When it is the turn of a file in a loop over the library, the cells, each
\* followed by its cell views, and the views: the cells come before or after
\* the views.
Turn(m, i, cells, views) ==
    LET at == m.files[i].at
    IN  IF at[1] = "lib" THEN <<0, 0, 0, i>>
        ELSE IF at[1] = "cell" THEN <<cells, Place(m.cells, at[2]), 0, i>>
        ELSE IF at[1] = "cellview"
        THEN <<cells, Place(m.cells, at[2][1]), Place(m.cvs, at[2]), i>>
        ELSE <<views, Place(m.views, at[2]), 0, i>>

Earlier(t, u) == \/ t[1] < u[1]
                 \/ t[1] = u[1] /\ t[2] < u[2]
                 \/ t[1] = u[1] /\ t[2] = u[2] /\ t[3] < u[3]
                 \/ t[1] = u[1] /\ t[2] = u[2] /\ t[3] = u[3] /\ t[4] < u[4]

Hits(m, n) == {i \in DOMAIN m.files : m.files[i].name = n}

Knows(m, n) == Hits(m, n) # {}

\* findFile has the cells before the views.
FindFile(m, n) ==
    m.files[CHOOSE i \in Hits(m, n) : \A j \in Hits(m, n) \ {i} :
                Earlier(Turn(m, i, 1, 2), Turn(m, j, 1, 2))].num

XmlEscape(n) == IF n.of \in Special THEN [n EXCEPT !.esc = @ + 1] ELSE n

\* The file whose turn it is when k others have had theirs.
Written(m, k) == CHOOSE i \in DOMAIN m.files :
    Cardinality({j \in DOMAIN m.files :
                    Earlier(Turn(m, j, 2, 1), Turn(m, i, 2, 1))}) = k

\* writeLibXml has the views before the cells.
Text(m) ==
    [k \in DOMAIN m.files |->
        LET r == m.files[Written(m, k - 1)]
        IN  [name |-> XmlEscape(r.name), num |-> r.num]]

\* The records with a number that is not too large, in their order.
Kept(text) ==
    LET small == {i \in DOMAIN text : text[i].num < Limit}
    IN  [k \in 1 .. Cardinality(small) |->
            text[CHOOSE i \in small : Cardinality(small \cap (1 .. i)) = k]]

Restored(kept, next) ==
    [NewStorage EXCEPT
        !.files = [i \in DOMAIN kept |-> [at |-> LibLevel,
                       name |-> kept[i].name, num |-> kept[i].num]],
        !.next = next]

MaxNum(kept) == Max({0} \cup {kept[i].num : i \in DOMAIN kept})

\* Mutant: the largest number that was read is given out again.
LoadAtMax(text) == Restored(Kept(text), MaxNum(Kept(text)))

\* loadLibXml: every record goes to the library level.
LoadLibXml(text) == Restored(Kept(text), MaxNum(Kept(text)) + 1)

-----------------------------------------------------------------------------
(* lib.xml is emptied by fopen and filled by fclose, or, when it does not  *)
(* fit into the buffer, piece by piece.                                    *)

\* What a write that begins at the start of the file leaves of what another
\* process has written there since fopen.
Over(text, old) ==
    IF old = NoXml THEN text
    ELSE text \o SubSeq(old, Len(text) + 1, Len(old))

\* What there is of the text when it ends after or in record i + 1.  A number
\* that is cut off is read as far as it goes, and as 0 when nothing of it is there.
CutAfter(text, i) ==
    LET whole == SubSeq(text, 1, i)
        cut == text[i + 1].num
    IN  {whole} \cup {Append(whole, [text[i + 1] EXCEPT !.num = k]) :
                          k \in {0, cut \div 10, cut}}

\* What is in the file when the process dies in writeLibXml: some full
\* buffers, the last of which ends anywhere in a record.
Torn(text) ==
    {<<>>} \cup UNION {CutAfter(text, i) :
                          i \in {j \in 1 .. Len(text) - 1 : j % Buffer = 0}}

\* What is in it when the disk is full: that, and some of the last buffer.
Short(text) ==
    {<<>>} \cup UNION {CutAfter(text, j - 1) : j \in 1 .. Len(text)}

FOpen(s, why) == /\ writing' = [writing EXCEPT ![s] = why]
                 /\ xml' = <<>>
                 /\ torn' = TRUE

\* fopen may fail, and no caller of writeLibXml looks at that.
Rewrite(s) == \/ FOpen(s, "change")
              \/ /\ setting.errors
                 /\ torn' = TRUE
                 /\ UNCHANGED <<xml, writing>>

\* Nor does writeLibXml look at what fprintf and fclose say.  Bound: they fail
\* until the index is broken.
FClose(s) ==
    /\ writing[s] # "no"
    /\ mem' = [mem EXCEPT ![s] = IF writing[s] = "close" THEN NoLib ELSE @]
    /\ writing' = [writing EXCEPT ![s] = "no"]
    /\ \/ /\ xml' = Over(Text(mem[s]), xml)
          /\ torn' = FALSE
          /\ UNCHANGED breaks
       \/ /\ setting.errors /\ breaks = 0
          /\ \E left \in Short(Text(mem[s])) : xml' = Over(left, xml)
          /\ torn' = (writing[s] # "close")
          /\ breaks' = IF writing[s] = "close" THEN Broken(breaks) ELSE breaks
    /\ UNCHANGED <<data, setting>>

-----------------------------------------------------------------------------
(* Opening and closing, by a process or by the end of it.                  *)

Alone == Overlap \/ \A s \in Session : mem[s] = NoLib

\* A library is made only where lib.xml is not there: libExists is asked.
LibPreCreate(s) == /\ Alone /\ setting.nums > 0
                   /\ mem[s] = NoLib /\ xml = NoXml
                   /\ mem' = [mem EXCEPT ![s] = NewStorage]
                   /\ UNCHANGED <<xml, data, writing, setting, torn, breaks>>

LibPostCreate(s) == /\ mem[s] = NewStorage /\ writing[s] = "no"
                    /\ Rewrite(s)
                    /\ UNCHANGED <<data, mem, setting, breaks>>

\* What loadLibXml finds.
Records == IF xml = NoXml THEN <<>> ELSE xml

\* Bound: no name is escaped more often.
CanEscape == \A i \in DOMAIN Records : Records[i].name.esc < MaxEscape

\* When lib.xml cannot be read the library is empty.  Bound: not twice.
LibPreOpen(s) ==
    /\ Alone /\ setting.nums > 0
    /\ mem[s] = NoLib
    /\ CanEscape
    /\ \/ /\ mem' = [mem EXCEPT ![s] = IF xml = NoXml THEN NewStorage
                                       ELSE LoadLibXml(xml)]
          /\ UNCHANGED <<torn, breaks>>
       \/ /\ setting.errors /\ breaks = 0 /\ xml # NoXml
          /\ mem' = [mem EXCEPT ![s] = NewStorage]
          /\ torn' = TRUE /\ breaks' = Broken(breaks)
    /\ UNCHANGED <<xml, data, writing, setting>>

\* The index in memory goes, and lib.xml stays as it is.
GiveUp(s) == /\ mem' = [mem EXCEPT ![s] = NoLib]
             /\ breaks' = IF torn THEN Broken(breaks) ELSE breaks
             /\ torn' = FALSE
             /\ UNCHANGED <<xml, data, writing, setting>>

LibPreClose(s) ==
    /\ mem[s] # NoLib /\ writing[s] = "no"
    /\ \/ FOpen(s, "close") /\ UNCHANGED <<data, mem, setting, breaks>>
       \/ setting.errors /\ GiveUp(s)

\* Bound: one crash in the middle of a write.
Crash(s) ==
    /\ mem[s] # NoLib
    /\ writing[s] # "no" => breaks = 0
    /\ mem' = [mem EXCEPT ![s] = NoLib]
    /\ writing' = [writing EXCEPT ![s] = "no"]
    /\ \E left \in IF writing[s] = "no" THEN {<<>>} ELSE Torn(Text(mem[s])) :
          xml' = IF writing[s] = "no" THEN xml ELSE Over(left, xml)
    /\ breaks' = IF torn THEN Broken(breaks) ELSE breaks
    /\ torn' = FALSE
    /\ UNCHANGED <<data, setting>>

-----------------------------------------------------------------------------
(* Cells, views, cell views and files.                                     *)

\* Bound: k more numbers may be given out.
Ready(s, k) == /\ mem[s] # NoLib /\ writing[s] = "no"
               /\ mem[s].next + k <= setting.nums

CellCreate(s, c) ==
    /\ Ready(s, 1)
    /\ mem' = [mem EXCEPT ![s] =
                   AddFile(AddCell(@, c), <<"cell", c>>, Named("DMData"))]
    /\ Rewrite(s)
    /\ UNCHANGED <<data, setting, breaks>>

ViewCreate(s, v) ==
    /\ Ready(s, 1)
    /\ mem' = [mem EXCEPT ![s] =
                   AddFile(AddView(@, v), <<"view", v>>, Named("DMData"))]
    /\ Rewrite(s)
    /\ UNCHANGED <<data, setting, breaks>>

CellViewCreate(s, c, v) ==
    LET place == <<"cellview", <<c, v>>>>
    IN  /\ Ready(s, 2)
        /\ mem' = [mem EXCEPT ![s] =
               AddFile(AddFile(AddCellView(@, c, v), place, Named("DMData")),
                       place, Named("netlist"))]
        /\ Rewrite(s)
        /\ UNCHANGED <<data, setting, breaks>>

\* The parent is not looked at: every file is one of the library.
FileCreate(s, n) ==
    /\ Ready(s, 1)
    /\ mem' = [mem EXCEPT ![s] = AddFile(@, LibLevel, Named(n))]
    /\ \/ data' = [data EXCEPT ![mem[s].next] = Empty]
       \/ setting.errors /\ UNCHANGED data
    /\ Rewrite(s)
    /\ UNCHANGED <<setting, breaks>>

\* The record and the file have to be there.
FileFind(m, n) == Knows(m, Named(n)) /\ data[FindFile(m, Named(n))] # Absent

\* The application writes the file that getPath names.
SaveData(s, n) ==
    /\ mem[s] # NoLib /\ writing[s] = "no"
    /\ Knows(mem[s], Named(n))
    /\ data' = [data EXCEPT ![FindFile(mem[s], Named(n))] = n]
    /\ UNCHANGED <<xml, mem, writing, setting, torn, breaks>>

-----------------------------------------------------------------------------
StorageNext ==
    \E s \in Session :
        \/ LibPreCreate(s) \/ LibPostCreate(s)
        \/ LibPreOpen(s) \/ LibPreClose(s)
        \/ FClose(s) \/ Crash(s)
        \/ \E c \in Cell : CellCreate(s, c)
        \/ \E v \in View : ViewCreate(s, v)
        \/ \E c \in Cell, v \in View : CellViewCreate(s, c, v)
        \/ \E n \in Name : FileCreate(s, n)
        \/ \E n \in Name \cup Own : SaveData(s, n)

StorageSpec == StorageInit /\ [][StorageNext]_storage

-----------------------------------------------------------------------------
(* Properties.                                                             *)

\* The index that is in force: that of the process that has the library open,
\* or the one that would be read from lib.xml.
Index == IF \E s \in Session : mem[s] # NoLib
         THEN mem[CHOOSE s \in Session : mem[s] # NoLib]
         ELSE IF xml = NoXml THEN NewStorage ELSE LoadLibXml(xml)

Plain == Name \ Special

CatalogOf(m) == [n \in {k \in Plain : Knows(m, Named(k))} |->
                     FindFile(m, Named(n))]

\* The catalogue of the index, which TLC is to evaluate once.
CatalogNow == CHOOSE c \in {CatalogOf(m) : m \in {Index}} : TRUE

Catalog == INSTANCE TurboCatalog WITH
               Name <- Plain, catalog <- CatalogNow,
               Number <- UNION {0 .. b.nums - 1 : b \in Settings}

\* Each file that an application has made keeps its number over all that is
\* added, written, closed and opened again, although everything moves to the
\* library level when lib.xml is read, and its number is not given to another
\* file.  It is about findFile, writeLibXml, loadLibXml and the allocator; for
\* sessions one after another and names without special characters.
ImplementsCatalog == Catalog!Spec

\* Who finds a file by an application's name has its own data: what was
\* written last through getPath for that name, or nothing, and never what was
\* written for another name, DMData and netlist included.
OwnData ==
    breaks = 0 => \A n \in Plain :
        FileFind(Index, n) => data[FindFile(Index, Named(n))] \in {Empty, n}
=============================================================================
