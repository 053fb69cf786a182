---------------------------- MODULE TurboProofs ----------------------------
(* What is true of the Turbo server and its clients for any number of       *)
(* connections, libraries and strings.                                      *)
EXTENDS TurboServer, FiniteSetTheorems, TLAPS

Str == CellName \cup ViewName \cup TypeName

Reply == [turn : {0, 1}, says : Said]

-----------------------------------------------------------------------------
(* The invariant of the channel and the invariant of the tables.            *)

ChannelType ==
    /\ pc \in {"off", "accept", "poll", "stop"}
    /\ serves \in Client \cup {Nobody}
    /\ backlog \in Seq(Client)
    /\ client \in [Client -> {"none", "idle", "send", "wait"}]
    /\ turn \in [Client -> {0, 1}]
    /\ request \in [Client -> Seq({0, 1})]
    /\ half \in [Client -> BOOLEAN]
    /\ reply \in [Client -> Seq(Reply)]
    /\ amiss \subseteq Client
    /\ pc \in {"poll", "stop"} <=> serves # Nobody

\* How far the call of a client is, on the wire and at the server, when no
\* call on its connection has failed.
CallOf(c) ==
    /\ client[c] \in {"idle", "send"} => request[c] = <<>> /\ reply[c] = <<>>
    /\ client[c] \in {"idle", "wait"} => ~half[c]
    /\ client[c] = "wait" =>
          /\ request[c] = <<>> \/ request[c] = <<turn[c]>>
          /\ request[c] # <<>> => reply[c] = <<>>
          /\ \/ reply[c] = <<>>
             \/ \E s \in Said : reply[c] = <<[turn |-> turn[c], says |-> s]>>

\* What the server has not read is on a connection that it has not closed.
WireOf(c) ==
    /\ request[c] # <<>> \/ half[c] => Reaches(c)
    /\ c \notin amiss => CallOf(c)

ChannelInv == ChannelType /\ \A c \in Client : WireOf(c)

\* No string has two keys.
Unique(tbl) == \A i, j \in DOMAIN tbl : tbl[i] = tbl[j] => i = j

Has(tbl, s) == \E k \in DOMAIN tbl : tbl[k] = s

\* The cells of an open library are those that were made in it.
CellsAre(lib, tbl, names) ==
    /\ lib = [lib |-> lib.lib, cells |-> lib.cells]
    /\ lib.lib \in Lib
    /\ lib.cells \subseteq DOMAIN tbl
    /\ \A k \in lib.cells : tbl[k] \in names
    /\ \A c \in names : \E k \in lib.cells : tbl[k] = c

\* The strings of the cell views that were made have keys.
CellViewsAre(tbl, cvs) == \A cv \in cvs : \A i \in 1 .. 3 : Has(tbl, cv[i])

TablesInv ==
    /\ strTbl \in Seq(Str) /\ Unique(strTbl)
    /\ oalib \subseteq Lib
    /\ made = [cells |-> made.cells, cvs |-> made.cvs]
    /\ db = NoDb => made.cells = {} /\ made.cvs = {}
    /\ db # NoDb => CellsAre(db, strTbl, made.cells)
    /\ CellViewsAre(strTbl, made.cvs)

-----------------------------------------------------------------------------
(* The tables: addString, findKey and the objects of the library.           *)

LEMMA AddStringKeeps ==
  ASSUME NEW S, NEW tbl \in Seq(S), NEW s \in S
  PROVE  /\ AddString(tbl, s) \in Seq(S)
         /\ DOMAIN tbl \subseteq DOMAIN AddString(tbl, s)
         /\ \A k \in DOMAIN tbl : AddString(tbl, s)[k] = tbl[k]
         /\ Has(AddString(tbl, s), s)
         /\ Unique(tbl) => Unique(AddString(tbl, s))
<1>1. CASE s \in ToSet(tbl)
  BY <1>1 DEF AddString, AddOnce, ToSet, Has
<1>2. CASE s \notin ToSet(tbl)
  <2> DEFINE new == Append(tbl, s)
  <2>1. /\ new \in Seq(S) /\ DOMAIN new = DOMAIN tbl \cup {Len(tbl) + 1}
        /\ new[Len(tbl) + 1] = s
        /\ \A k \in DOMAIN tbl : new[k] = tbl[k]
    OBVIOUS
  <2>2. AddString(tbl, s) = new /\ \A k \in DOMAIN tbl : tbl[k] # s
    BY <1>2 DEF AddString, AddOnce, ToSet
  <2> HIDE DEF new
  <2> QED
    BY <2>1, <2>2 DEF Has, Unique
<1> QED
  BY <1>1, <1>2

\* findKey returns the one key of a string, and 0 for a string without one.
LEMMA FindKeyFinds ==
  ASSUME NEW S, NEW tbl \in Seq(S), NEW s, Unique(tbl)
  PROVE  /\ \A k \in DOMAIN tbl : tbl[k] = s => FindKey(tbl, s) = k
         /\ ~Has(tbl, s) => FindKey(tbl, s) = 0
         /\ Has(tbl, s) => FindKey(tbl, s) # 0
         /\ FindKey(tbl, s) # 0 => /\ FindKey(tbl, s) \in DOMAIN tbl
                                   /\ tbl[FindKey(tbl, s)] = s
<1>1. ASSUME NEW k \in DOMAIN tbl, tbl[k] = s
      PROVE  FindKey(tbl, s) = k
  <2> DEFINE keys == {j \in DOMAIN tbl : tbl[j] = s}
  <2>1. keys = {k}
    BY <1>1 DEF Unique
  <2>2. k \in Nat /\ k > 0
    BY <1>1
  <2>3. Max({0} \cup keys) = k
    BY <2>1, <2>2 DEF Max
  <2> QED
    BY <2>3 DEF FindKey
<1>2. ASSUME ~Has(tbl, s)
      PROVE  FindKey(tbl, s) = 0
  <2>1. {j \in DOMAIN tbl : tbl[j] = s} = {}
    BY <1>2 DEF Has
  <2>2. Max({0} \cup {}) = 0
    BY DEF Max
  <2> QED
    BY <2>1, <2>2 DEF FindKey
<1> QED
  BY <1>1, <1>2 DEF Has

LEMMA NewLibIs == ASSUME NEW l \in Lib
                  PROVE  /\ NewLib(l) # NoDb
                         /\ NewLib(l).lib = l /\ NewLib(l).cells = {}
                         /\ NewLib(l) = [lib |-> NewLib(l).lib,
                                         cells |-> NewLib(l).cells]
<1>1. DOMAIN NewLib(l) # DOMAIN NoDb
  BY DEF NewLib, NoDb
<1> QED
  BY <1>1 DEF NewLib

-----------------------------------------------------------------------------
(* What the handlers leave alone and what they do to the tables.            *)

\* An object is added to the library, if at all, for a string that is there.
Tables ==
    \/ UNCHANGED <<db, strTbl, made, oalib>>
    \/ \E l \in Lib : HandleCreateLib(l)
    \/ \E l \in Lib : HandleOpenLib(l)
    \/ \E c \in CellName : db # NoDb /\ HandleCreateCell(c)
    \/ \E c \in CellName, v \in ViewName, t \in TypeName :
          db # NoDb /\ HandleCreateCellView(c, v, t)

LEMMA HandleTables == ASSUME NEW m \in Message, Handle(m)
                      PROVE  Tables
  BY DEF Handle, Tables, HandleCloseLib

LEMMA AnswerSaid == \A m \in Message : Answer(m) \in Said
  BY DEF Answer, Said, Found
\* One more string.
LEMMA GrowTable ==
  ASSUME strTbl \in Seq(Str), NEW s \in Str, NEW new, new = AddString(strTbl, s)
  PROVE  /\ new \in Seq(Str)
         /\ DOMAIN strTbl \subseteq DOMAIN new
         /\ \A k \in DOMAIN strTbl : new[k] = strTbl[k]
         /\ Has(new, s)
         /\ Unique(strTbl) => Unique(new)
  BY AddStringKeeps

\* Three more strings.
LEMMA GrowTableThrice ==
  ASSUME strTbl \in Seq(Str), NEW c \in Str, NEW v \in Str, NEW t \in Str,
         NEW new, new = AddString(AddString(AddString(strTbl, c), v), t)
  PROVE  /\ new \in Seq(Str)
         /\ DOMAIN strTbl \subseteq DOMAIN new
         /\ \A k \in DOMAIN strTbl : new[k] = strTbl[k]
         /\ Has(new, c) /\ Has(new, v) /\ Has(new, t)
         /\ Unique(strTbl) => Unique(new)
<1> DEFINE one == AddString(strTbl, c)
           two == AddString(one, v)
           three == AddString(two, t)
<1>1. /\ one \in Seq(Str)
      /\ DOMAIN strTbl \subseteq DOMAIN one
      /\ \A k \in DOMAIN strTbl : one[k] = strTbl[k]
      /\ Has(one, c)
      /\ Unique(strTbl) => Unique(one)
  BY AddStringKeeps
<1> HIDE DEF one
<1>2. /\ two \in Seq(Str)
      /\ DOMAIN one \subseteq DOMAIN two
      /\ \A k \in DOMAIN one : two[k] = one[k]
      /\ Has(two, v)
      /\ Unique(one) => Unique(two)
  BY <1>1, AddStringKeeps
<1> HIDE DEF two
<1>3. /\ three \in Seq(Str)
      /\ DOMAIN two \subseteq DOMAIN three
      /\ \A k \in DOMAIN two : three[k] = two[k]
      /\ Has(three, t)
      /\ Unique(two) => Unique(three)
  BY <1>2, AddStringKeeps
<1>4. new = three
  BY DEF one, two
<1> HIDE DEF three
<1> QED
  BY <1>1, <1>2, <1>3, <1>4 DEF Has

\* A table that only grows keeps what was true of it.
LEMMA TableGrows ==
  ASSUME NEW S, NEW tbl \in Seq(S), NEW new \in Seq(S),
         DOMAIN tbl \subseteq DOMAIN new,
         \A k \in DOMAIN tbl : new[k] = tbl[k]
  PROVE  /\ \A lib, names : CellsAre(lib, tbl, names) => CellsAre(lib, new, names)
         /\ \A cvs : CellViewsAre(tbl, cvs) => CellViewsAre(new, cvs)
<1>1. ASSUME NEW lib, NEW names, CellsAre(lib, tbl, names)
      PROVE  CellsAre(lib, new, names)
  <2>1. \A k \in lib.cells : k \in DOMAIN tbl /\ new[k] = tbl[k]
    BY <1>1 DEF CellsAre
  <2> QED
    BY <1>1, <2>1 DEF CellsAre
<1>2. ASSUME NEW cvs, CellViewsAre(tbl, cvs)
      PROVE  CellViewsAre(new, cvs)
  BY <1>2 DEF CellViewsAre, Has
<1> QED
  BY <1>1, <1>2

LEMMA CreateLibTables == ASSUME TablesInv, NEW l \in Lib, HandleCreateLib(l)
                         PROVE  TablesInv'
  BY NewLibIs DEF TablesInv, HandleCreateLib, CellsAre, CellViewsAre

LEMMA OpenLibTables == ASSUME TablesInv, NEW l \in Lib, HandleOpenLib(l)
                       PROVE  TablesInv'
  BY NewLibIs DEF TablesInv, HandleOpenLib, CellsAre, CellViewsAre

LEMMA CreateCellTables ==
  ASSUME TablesInv, NEW c \in CellName, db # NoDb, HandleCreateCell(c)
  PROVE  TablesInv'
<1> DEFINE k == FindKey(strTbl', c)
           lib == [db EXCEPT !.cells = @ \cup {k}]
           names == made.cells \cup {c}
<1>1. /\ strTbl' \in Seq(Str) /\ Unique(strTbl')
      /\ DOMAIN strTbl \subseteq DOMAIN strTbl'
      /\ \A i \in DOMAIN strTbl : strTbl'[i] = strTbl[i]
      /\ Has(strTbl', c)
  BY GrowTable DEF TablesInv, HandleCreateCell, Str
<1>2. k \in DOMAIN strTbl' /\ strTbl'[k] = c
  BY <1>1, FindKeyFinds
<1>3. CellsAre(db, strTbl', made.cells) /\ CellViewsAre(strTbl', made.cvs)
  BY <1>1, TableGrows DEF TablesInv
<1>4. /\ lib = [lib |-> db.lib, cells |-> db.cells \cup {k}]
      /\ lib # NoDb
  <2> HIDE DEF k
  <2>1. lib = [lib |-> db.lib, cells |-> db.cells \cup {k}]
    BY <1>3 DEF CellsAre
  <2>2. DOMAIN lib # DOMAIN NoDb
    BY <2>1 DEF NoDb
  <2> QED
    BY <2>1, <2>2
<1>5. /\ db' = lib /\ oalib' = oalib
      /\ made' = [cells |-> names, cvs |-> made.cvs]
  BY DEF TablesInv, HandleCreateCell
<1> HIDE DEF k
<1>6. CellsAre(lib, strTbl', names)
  BY <1>2, <1>3, <1>4 DEF CellsAre
<1> HIDE DEF lib, names
<1> QED
  BY <1>1, <1>3, <1>4, <1>5, <1>6 DEF TablesInv

LEMMA CreateCellViewTables ==
  ASSUME TablesInv, NEW c \in CellName, NEW v \in ViewName, NEW t \in TypeName,
         db # NoDb, HandleCreateCellView(c, v, t)
  PROVE  TablesInv'
<1> DEFINE cvs == made.cvs \cup {<<c, v, t>>}
<1>1. /\ strTbl' \in Seq(Str) /\ Unique(strTbl')
      /\ DOMAIN strTbl \subseteq DOMAIN strTbl'
      /\ \A i \in DOMAIN strTbl : strTbl'[i] = strTbl[i]
      /\ Has(strTbl', c) /\ Has(strTbl', v) /\ Has(strTbl', t)
  BY GrowTableThrice DEF TablesInv, HandleCreateCellView, Str
<1>2. CellsAre(db, strTbl', made.cells) /\ CellViewsAre(strTbl', made.cvs)
  BY <1>1, TableGrows DEF TablesInv
<1>3. db' = db
  BY DEF HandleCreateCellView
<1>4. /\ oalib' = oalib /\ made' = [cells |-> made.cells, cvs |-> cvs]
  BY DEF TablesInv, HandleCreateCellView
<1>5. CellsAre(db', strTbl', made.cells)
  BY <1>2, <1>3
<1>6. CellViewsAre(strTbl', cvs)
  BY <1>1, <1>2 DEF CellViewsAre
<1> HIDE DEF cvs
<1> QED
  BY <1>1, <1>3, <1>4, <1>5, <1>6 DEF TablesInv

LEMMA TablesStep == ASSUME TablesInv, Tables
                    PROVE  TablesInv'
  BY CreateLibTables, OpenLibTables, CreateCellTables, CreateCellViewTables
     DEF Tables, TablesInv
-----------------------------------------------------------------------------
(* The channel: what the clients do, and what the server does.              *)

LEMMA InitInv == Init => ChannelInv /\ TablesInv
  BY ServerAssumption DEF Init, ServerInit, ChannelInv, ChannelType, WireOf,
     CallOf, TablesInv, Unique, CellViewsAre

LEMMA TailIs == ASSUME NEW S, NEW s \in Seq(S), s # <<>>
                PROVE  /\ Tail(s) \in Seq(S)
                       /\ \A i \in DOMAIN s : \/ i = 1 /\ s[i] = Head(s)
                                            \/ /\ i - 1 \in DOMAIN Tail(s)
                                               /\ Tail(s)[i - 1] = s[i]
                       /\ Head(s) \in S
                       /\ \A x : s = <<x>> => Tail(s) = <<>>
<1>1. Tail(s) \in Seq(S) /\ Head(s) \in S /\ Head(s) = s[1]
  OBVIOUS
<1>2. ASSUME NEW i \in DOMAIN s, i # 1
      PROVE  i - 1 \in DOMAIN Tail(s) /\ Tail(s)[i - 1] = s[i]
  BY <1>2
<1>3. ASSUME NEW x, s = <<x>>
      PROVE  Tail(s) = <<>>
  BY <1>3
<1> QED
  BY <1>1, <1>2, <1>3

LEMMA AppendIs == ASSUME NEW S, NEW s \in Seq(S), NEW x \in S
                  PROVE  /\ Append(s, x) \in Seq(S)
                         /\ \A i \in DOMAIN s : /\ i \in DOMAIN Append(s, x)
                                               /\ Append(s, x)[i] = s[i]
  OBVIOUS

LEMMA RestIs == ASSUME NEW S, NEW s \in Seq(S), NEW k \in 0 .. Len(s)
                PROVE  /\ SubSeq(s, k + 1, Len(s)) \in Seq(S)
                       /\ k = 1 => \A x : s = <<x>> =>
                                       SubSeq(s, k + 1, Len(s)) = <<>>
<1>1. SubSeq(s, k + 1, Len(s)) \in Seq(S)
  OBVIOUS
<1>2. ASSUME NEW x, s = <<x>>, k = 1
      PROVE  SubSeq(s, k + 1, Len(s)) = <<>>
  BY <1>2
<1> QED
  BY <1>1, <1>2

\* A step of client c changes what belongs to c.
ClientStep(c) == \/ Connect(c) \/ SendHeader(c) \/ SendFails(c)
                 \/ RecvReply(c) \/ RecvEnds(c) \/ RecvFails(c) \/ Close(c)
                 \/ SendPayload(c)

LEMMA ClientType == ASSUME ChannelInv, NEW c \in Client, ClientStep(c)
                    PROVE  ChannelType'
<1> USE DEF ChannelInv, ChannelType
<1>1. CASE Connect(c)
  <2>1. backlog' \in Seq(Client)
    BY <1>1, AppendIs DEF Connect
  <2>2. <<>> \in Seq(Reply) /\ <<>> \in Seq({0, 1})
    OBVIOUS
  <2> QED
    BY <1>1, <2>1, <2>2 DEF Connect
<1>2. CASE SendHeader(c)
  <2>1. turn' \in [Client -> {0, 1}]
    <3> DEFINE other == 1 - turn[c]
    <3>1. turn' = [turn EXCEPT ![c] = other]
      BY <1>2 DEF SendHeader
    <3>2. turn[c] = 0 \/ turn[c] = 1
      OBVIOUS
    <3>3. other = 0 \/ other = 1
      BY <3>2
    <3> HIDE DEF other
    <3> QED
      BY <3>1, <3>3
  <2>2. Reaches(c) \in BOOLEAN
    BY DEF Reaches
  <2>3. half' \in [Client -> BOOLEAN]
    BY <1>2, <2>2 DEF SendHeader
  <2>4. client' \in [Client -> {"none", "idle", "send", "wait"}]
    BY <1>2 DEF SendHeader, Become
  <2> QED
    BY <1>2, <2>1, <2>3, <2>4 DEF SendHeader
<1>3. CASE SendPayload(c)
  <2>1. PICK whole \in BOOLEAN, more \in BOOLEAN :
            /\ request' = IF whole /\ Reaches(c)
                           THEN [request EXCEPT ![c] = Append(@, turn[c])]
                           ELSE request
            /\ half' = [half EXCEPT ![c] = more /\ Reaches(c)]
    BY <1>3 DEF SendPayload
  <2>2. Append(request[c], turn[c]) \in Seq({0, 1})
    BY AppendIs
  <2>3. request' \in [Client -> Seq({0, 1})]
    BY <2>1, <2>2
  <2>4. (more /\ Reaches(c)) \in BOOLEAN
    BY DEF Reaches
  <2>5. half' \in [Client -> BOOLEAN]
    BY <2>1, <2>4
  <2>6. client' \in [Client -> {"none", "idle", "send", "wait"}]
    BY <1>3 DEF SendPayload, Become
  <2> QED
    BY <1>3, <2>3, <2>5, <2>6 DEF SendPayload
<1>4. CASE RecvReply(c)
  <2>1. PICK k \in 0 .. Len(reply[c]) :
            reply' = [reply EXCEPT ![c] = SubSeq(@, k + 1, Len(@))]
    BY <1>4 DEF RecvReply
  <2>2. SubSeq(reply[c], k + 1, Len(reply[c])) \in Seq(Reply)
    BY RestIs
  <2>3. reply' \in [Client -> Seq(Reply)]
    BY <2>1, <2>2
  <2> QED
    BY <1>4, <2>3 DEF RecvReply, Become
<1>5. CASE SendFails(c) \/ RecvEnds(c) \/ RecvFails(c) \/ Close(c)
  BY <1>5 DEF SendFails, RecvEnds, RecvFails, Close, net, Become
<1> QED
  BY <1>1, <1>2, <1>3, <1>4, <1>5 DEF ClientStep

\* Whoever reaches the server goes on reaching it when somebody connects.
LEMMA AppendReaches == ASSUME ChannelType, NEW c \in Client, Connect(c)
                       PROVE  \A d \in Client : Reaches(d) => Reaches(d)'
<1>1. \A i \in DOMAIN backlog : /\ i \in DOMAIN backlog'
                               /\ backlog'[i] = backlog[i]
  BY DEF ChannelType, Connect
<1> QED
  BY <1>1 DEF Connect, Reaches, ToSet

\* The call that is made on a connection in order ends its message.
LEMMA PayloadCall == ASSUME ChannelInv, NEW c \in Client, SendPayload(c)
                     PROVE  WireOf(c)'
<1> USE DEF ChannelInv, ChannelType
<1>1. PICK whole \in BOOLEAN, more \in BOOLEAN :
          /\ IF c \in amiss THEN whole \/ more ELSE whole /\ ~more
          /\ request' = IF whole /\ Reaches(c)
                         THEN [request EXCEPT ![c] = Append(@, turn[c])]
                         ELSE request
          /\ half' = [half EXCEPT ![c] = more /\ Reaches(c)]
  BY DEF SendPayload
<1>2. /\ client[c] = "send" /\ client' = [client EXCEPT ![c] = "wait"]
      /\ UNCHANGED <<serves, backlog, turn, reply, amiss>>
  BY DEF SendPayload, Become
<1>3. Reaches(c)' <=> Reaches(c)
  BY <1>2 DEF Reaches
<1>4. request'[c] # <<>> \/ half'[c] => Reaches(c)
  BY <1>1 DEF WireOf
<1>5. ASSUME c \notin amiss
      PROVE  CallOf(c)'
  <2>1. request[c] = <<>> /\ reply[c] = <<>>
    BY <1>2, <1>5 DEF WireOf, CallOf
  <2>2. Append(<<>>, turn[c]) = <<turn[c]>>
    OBVIOUS
  <2>3. request'[c] = <<>> \/ request'[c] = <<turn[c]>>
    BY <1>1, <2>1, <2>2
  <2>4. ~half'[c]
    BY <1>1, <1>5
  <2> QED
    BY <1>2, <2>1, <2>3, <2>4 DEF CallOf
<1> QED
  BY <1>2, <1>3, <1>4, <1>5 DEF WireOf

\* The one reply that there is, is read.
LEMMA ReplyCall == ASSUME ChannelInv, NEW c \in Client, RecvReply(c)
                   PROVE  WireOf(c)'
<1> USE DEF ChannelInv, ChannelType
<1>1. PICK k \in 0 .. Len(reply[c]) :
          /\ k = 1 \/ c \in amiss
          /\ reply' = [reply EXCEPT ![c] = SubSeq(@, k + 1, Len(@))]
  BY DEF RecvReply
<1>2. /\ client[c] = "wait" /\ reply[c] # <<>>
      /\ client' = [client EXCEPT ![c] = "idle"]
      /\ UNCHANGED <<serves, backlog, turn, request, half, amiss>>
  BY DEF RecvReply, Become
<1>3. ASSUME c \notin amiss
      PROVE  CallOf(c)'
  <2>1. /\ request[c] = <<>> /\ ~half[c]
        /\ \E x : reply[c] = <<x>>
    BY <1>2, <1>3 DEF WireOf, CallOf
  <2>2. SubSeq(reply[c], k + 1, Len(reply[c])) = <<>>
    BY <1>1, <1>3, <2>1, RestIs
  <2>3. reply'[c] = <<>>
    BY <1>1, <2>2
  <2> QED
    BY <1>2, <2>1, <2>3 DEF CallOf
<1> QED
  BY <1>2, <1>3 DEF WireOf, Reaches

LEMMA ClientCalls == ASSUME ChannelInv, NEW c \in Client, ClientStep(c)
                     PROVE  \A d \in Client : WireOf(d)'
<1>1. ASSUME NEW d \in Client, d # c
      PROVE  WireOf(d)'
  <2>1. /\ client'[d] = client[d] /\ turn'[d] = turn[d]
        /\ request'[d] = request[d] /\ reply'[d] = reply[d]
        /\ half'[d] = half[d] /\ (d \in amiss' <=> d \in amiss)
    <3> USE DEF ChannelInv, ChannelType
    <3>1. CASE Connect(c) \/ SendHeader(c)
      BY <1>1, <3>1 DEF Connect, SendHeader, Become
    <3>2. CASE SendPayload(c)
      BY <1>1, <3>2 DEF SendPayload, Become
    <3>3. CASE RecvReply(c)
      BY <1>1, <3>3 DEF RecvReply, Become
    <3>4. CASE SendFails(c) \/ RecvEnds(c) \/ RecvFails(c) \/ Close(c)
      BY <1>1, <3>4 DEF SendFails, RecvEnds, RecvFails, Close, net, Become
    <3> QED
      BY <3>1, <3>2, <3>3, <3>4 DEF ClientStep
  <2>2. Reaches(d) => Reaches(d)'
    BY AppendReaches DEF ChannelInv, ClientStep, SendHeader, SendPayload,
       SendFails, RecvReply, RecvEnds, RecvFails, Close, net, Reaches
  <2> QED
    BY <2>1, <2>2 DEF ChannelInv, WireOf, CallOf
<1>2. WireOf(c)'
  <2> USE DEF ChannelInv, ChannelType, WireOf, CallOf
  <2>1. CASE Connect(c)
    BY <2>1 DEF Connect
  <2>2. CASE SendHeader(c)
    BY <2>2 DEF SendHeader, Become, Reaches
  <2>3. CASE SendFails(c)
    BY <2>3 DEF SendFails, Become, net, Reaches
  <2>4. CASE RecvEnds(c)
    BY <2>4 DEF RecvEnds, Become, net, Reaches
  <2>5. CASE RecvFails(c) \/ Close(c)
    BY <2>5 DEF RecvFails, Close, Become, net, Reaches
  <2> QED
    BY <2>1, <2>2, <2>3, <2>4, <2>5, PayloadCall, ReplyCall DEF ClientStep
<1> QED
  BY <1>1, <1>2

LEMMA AcceptKeeps == ASSUME ChannelInv, Accept
                     PROVE  ChannelInv'
<1>1. /\ backlog \in Seq(Client) /\ backlog # <<>>
      /\ serves' = Head(backlog) /\ backlog' = Tail(backlog)
  BY DEF ChannelInv, ChannelType, Accept
<1>2. /\ serves' \in Client /\ backlog' \in Seq(Client)
      /\ \A i \in DOMAIN backlog :
            \/ i = 1 /\ backlog[i] = serves'
            \/ i - 1 \in DOMAIN backlog' /\ backlog'[i - 1] = backlog[i]
  BY <1>1, TailIs
<1>3. ASSUME NEW c \in Client, c \in ToSet(backlog)
      PROVE  Reaches(c)'
  BY <1>2, <1>3 DEF Reaches, ToSet
<1>4. ASSUME NEW c \in Client
      PROVE  WireOf(c)'
  <2>1. UNCHANGED <<client, turn, request, half, reply, amiss>>
    BY DEF Accept
  <2>2. request[c] # <<>> \/ half[c] => c \in ToSet(backlog)
    BY ServerAssumption
       DEF ChannelInv, WireOf, Reaches, ChannelType, Accept
  <2> QED
    BY <1>3, <2>1, <2>2 DEF ChannelInv, WireOf, CallOf
<1> QED
  BY <1>2, <1>4, ServerAssumption DEF ChannelInv, ChannelType, Accept

\* The server looks at no connection any more and forgets what came from it.
LEMMA DropKeeps == ASSUME ChannelInv, PollTimeout \/ RecvMsgFails
                   PROVE  ChannelInv'
<1>1. /\ serves \in Client /\ serves' = Nobody /\ pc' = "accept"
      /\ request' = [request EXCEPT ![serves] = <<>>]
      /\ half' = [half EXCEPT ![serves] = FALSE]
      /\ UNCHANGED <<backlog, reply, client, turn, amiss>>
  BY DEF ChannelInv, ChannelType, PollTimeout, RecvMsgFails, Drop
<1>2. ASSUME NEW c \in Client
      PROVE  WireOf(c)'
  <2>1. CASE c = serves
    BY <1>1, <2>1 DEF ChannelInv, ChannelType, WireOf, CallOf
  <2>2. CASE c # serves
    BY <1>1, <2>2 DEF ChannelInv, ChannelType, WireOf, CallOf, Reaches
  <2> QED
    BY <2>1, <2>2
<1>3. <<>> \in Seq({0, 1})
  OBVIOUS
<1> QED
  BY <1>1, <1>2, <1>3 DEF ChannelInv, ChannelType

\* A request that is in order is answered once, and by then its client still
\* waits for it or has gone.
LEMMA DispatchKeeps == ASSUME ChannelInv, NEW c \in Client, Dispatch(c)
                       PROVE  ChannelInv'
<1> DEFINE first == Head(request[c])
<1>1. PICK s \in Said :
          reply' = [reply EXCEPT ![c] = @ \o <<[turn |-> first, says |-> s]>>]
  BY AnswerSaid DEF Dispatch, Say, Said
<1>2. PICK k \in 0 .. Len(request[c]), more \in BOOLEAN :
          /\ c \notin amiss => k = 1 /\ more = half[c]
          /\ request' = [request EXCEPT ![c] = SubSeq(@, k + 1, Len(@))]
          /\ half' = [half EXCEPT ![c] = more]
  BY DEF Dispatch
<1>3. /\ request[c] # <<>> /\ serves = c
      /\ pc = "poll" /\ pc' \in {"stop", "poll"}
      /\ UNCHANGED <<serves, backlog, client, turn, amiss>>
  BY DEF Dispatch
<1>4. first \in {0, 1} /\ \A x : request[c] = <<x>> => first = x
  BY <1>3, TailIs DEF ChannelInv, ChannelType
<1> DEFINE r == [turn |-> first, says |-> s]
           rs == reply[c] \o <<r>>
           rest == SubSeq(request[c], k + 1, Len(request[c]))
<1>5. r \in Reply
  BY <1>4 DEF Reply
<1>6. rs \in Seq(Reply) /\ (reply[c] = <<>> => rs = <<r>>)
  <2> HIDE DEF r
  <2>1. reply[c] \in Seq(Reply)
    BY DEF ChannelInv, ChannelType
  <2>2. rs \in Seq(Reply)
    BY <1>5, <2>1
  <2>3. reply[c] = <<>> => rs = <<r>>
    BY <1>5
  <2> QED
    BY <2>2, <2>3
<1>7. /\ rest \in Seq({0, 1})
      /\ k = 1 => \A x : request[c] = <<x>> => rest = <<>>
  BY RestIs DEF ChannelInv, ChannelType
<1>8. /\ reply' = [reply EXCEPT ![c] = rs]
      /\ request' = [request EXCEPT ![c] = rest]
  BY <1>1, <1>2
<1> HIDE DEF rs, rest, first
<1>9. ASSUME NEW d \in Client
      PROVE  WireOf(d)'
  <2>1. CASE d # c
    BY <1>2, <1>3, <1>8, <2>1
       DEF ChannelInv, ChannelType, WireOf, CallOf, Reaches
  <2>2. ASSUME d = c, c \notin amiss, client[c] # "none"
        PROVE  CallOf(c)'
    <3>1. /\ client[c] = "wait" /\ request[c] = <<turn[c]>>
          /\ reply[c] = <<>> /\ ~half[c]
      BY <1>3, <2>2 DEF ChannelInv, ChannelType, WireOf, CallOf
    <3>2. rest = <<>> /\ first = turn[c] /\ rs = <<r>> /\ ~more
      BY <1>2, <1>4, <1>6, <1>7, <2>2, <3>1
    <3> QED
      BY <1>2, <1>3, <1>8, <3>1, <3>2 DEF ChannelInv, ChannelType, CallOf
  <2> QED
    BY <1>3, <2>1, <2>2 DEF WireOf, CallOf, Reaches
<1> QED
  BY <1>2, <1>3, <1>6, <1>7, <1>8, <1>9 DEF ChannelInv, ChannelType

LEMMA GoneKeeps == ASSUME ChannelInv, Gone
                   PROVE  ChannelInv'
<1>1. ASSUME NEW c \in Client
      PROVE  WireOf(c)'
  BY <1>1 DEF ChannelInv, ChannelType, WireOf, CallOf, Gone
<1>2. <<>> \in Seq({0, 1}) /\ <<>> \in Seq(Client)
  OBVIOUS
<1> QED
  BY <1>1, <1>2 DEF ChannelInv, ChannelType, Gone

LEMMA StartKeeps == ASSUME ChannelInv, StartServer
                    PROVE  ChannelInv'
<1>1. ASSUME NEW c \in Client
      PROVE  WireOf(c)'
  BY <1>1 DEF ChannelInv, WireOf, CallOf, StartServer, net, Reaches
<1> QED
  BY <1>1 DEF ChannelInv, ChannelType, StartServer, net

channel == <<pc, net, client, turn, amiss>>

LEMMA ChannelSame == ASSUME ChannelInv, UNCHANGED channel
                     PROVE  ChannelInv'
  BY DEF channel, net, ChannelInv, ChannelType, WireOf, CallOf, Reaches

LEMMA ChannelStep == ASSUME ChannelInv, [Next]_vars
                     PROVE  ChannelInv'
<1>1. ASSUME NEW c \in Client, ClientStep(c)
      PROVE  ChannelInv'
  BY <1>1, ClientType, ClientCalls DEF ChannelInv
<1>2. CASE UNCHANGED serverVars
  BY <1>2, ChannelSame DEF serverVars, channel
<1> QED
  BY <1>1, <1>2, AcceptKeeps, DropKeeps, DispatchKeeps, GoneKeeps, StartKeeps
     DEF Next, Stop, Signal, ClientStep, vars

-----------------------------------------------------------------------------
(* The tables, step by step.                                                *)

LEMMA GoneTables == ASSUME TablesInv, Gone
                    PROVE  TablesInv'
  BY DEF TablesInv, Gone, Unique, CellViewsAre

LEMMA TablesNext == ASSUME TablesInv, [Next]_vars
                    PROVE  TablesInv'
<1>1. ASSUME NEW c \in Client, Dispatch(c)
      PROVE  TablesInv'
  BY <1>1, HandleTables, TablesStep DEF Dispatch
<1>2. CASE Stop \/ Signal
  BY <1>2, GoneTables DEF Stop, Signal
<1>3. CASE UNCHANGED tables
  BY <1>3, TablesStep DEF Tables, tables
<1> QED
  BY <1>1, <1>2, <1>3
     DEF Next, vars, serverVars, StartServer, Accept, PollTimeout,
         RecvMsgFails, Drop, Connect, SendHeader, SendPayload, SendFails,
         RecvReply, RecvEnds, RecvFails, Close

-----------------------------------------------------------------------------
(* Theorems.                                                                *)

THEOREM ServerInvariant == Spec => [](ChannelInv /\ TablesInv)
  BY InitInv, ChannelStep, TablesNext, PTL DEF Spec

\* The state of the server, of its clients and of what is on the wire has its
\* types.
THEOREM TurboTypes == Spec => []ServerTypeOK
<1>1. ChannelInv /\ TablesInv => ServerTypeOK
  BY DEF ChannelInv, ChannelType, TablesInv, CellsAre, ServerTypeOK, Str, Reply
<1> QED
  BY <1>1, ServerInvariant, PTL

\* As long as no call on a connection has failed, what a client reads is the
\* reply to the call that it makes, once, over drops, restarts of the server and
\* connections that are made again.
THEOREM RepliesAreForTheirCalls == Spec => []RepliesMatch
<1>1. ChannelInv => RepliesMatch
  BY DEF ChannelInv, ChannelType, WireOf, CallOf, RepliesMatch
<1> QED
  BY <1>1, ServerInvariant, PTL

\* The server finds the cells that were made in its library, no others, and
\* the cell views that were made.
THEOREM WhatIsMadeIsFound == Spec => []MadeIsFound
<1>1. ASSUME TablesInv
      PROVE  MadeIsFound
  <2> USE <1>1 DEF TablesInv
  <2>1. ASSUME NEW c \in CellName
        PROVE  FindCell(c) <=> c \in made.cells
    <3>1. CASE db = NoDb
      BY <3>1 DEF FindCell
    <3>2. CASE db # NoDb
      <4>1. ASSUME c \in made.cells
            PROVE  FindCell(c)
        <5>1. PICK k \in db.cells : strTbl[k] = c
          BY <3>2, <4>1 DEF CellsAre
        <5>2. k \in DOMAIN strTbl /\ k # 0
          BY <3>2, <5>1 DEF CellsAre
        <5> QED
          BY <3>2, <5>1, <5>2, FindKeyFinds DEF FindCell
      <4>2. ASSUME FindCell(c)
            PROVE  c \in made.cells
        BY <3>2, <4>2, FindKeyFinds DEF FindCell, CellsAre
      <4> QED
        BY <4>1, <4>2
    <3> QED
      BY <3>1, <3>2
  <2>2. ASSUME NEW cv \in made.cvs
        PROVE  FindCellView(cv[1], cv[2], cv[3])
    <3>1. db # NoDb
      BY <2>2
    <3>2. Has(strTbl, cv[1]) /\ Has(strTbl, cv[2]) /\ Has(strTbl, cv[3])
      BY <2>2 DEF CellViewsAre
    <3> QED
      BY <3>1, <3>2, FindKeyFinds DEF FindCellView
  <2> QED
    BY <2>1, <2>2 DEF MadeIsFound
<1> QED
  BY <1>1, ServerInvariant, PTL

-----------------------------------------------------------------------------
(* Orders of finite sets: what Written and FindFile choose is there.        *)

\* B[x] is what comes before x.
IsOrder(S, B) ==
    /\ \A x \in S : B[x] \subseteq S /\ x \notin B[x]
    /\ \A x, y \in S : x # y => x \in B[y] \/ y \in B[x]
    /\ \A x, y, z \in S : x \in B[y] /\ y \in B[z] => x \in B[z]

\* In a finite set with a strict total order each place is taken by somebody.
LEMMA Ranks ==
  ASSUME NEW S, IsFiniteSet(S), NEW B, IsOrder(S, B)
  PROVE  /\ Cardinality(S) \in Nat
         /\ \A x \in S : Cardinality(B[x]) \in 0 .. Cardinality(S) - 1
         /\ \A x, y \in S :
               x \in B[y] => Cardinality(B[x]) < Cardinality(B[y])
         /\ \A k \in 0 .. Cardinality(S) - 1 :
               \E x \in S : Cardinality(B[x]) = k
<1> DEFINE n == Cardinality(S)
           Rank(x) == Cardinality(B[x])
           rank == [x \in S |-> Rank(x)]
<1>1. n \in Nat
  BY FS_CardinalityType
<1>2. ASSUME NEW x \in S
      PROVE  IsFiniteSet(B[x]) /\ Rank(x) \in Nat /\ Rank(x) < n
  <2>1. B[x] \in SUBSET S /\ B[x] # S
    BY DEF IsOrder
  <2>2. /\ IsFiniteSet(B[x]) /\ Rank(x) <= n
        /\ n = Rank(x) => S = B[x]
    BY <2>1, FS_Subset
  <2>3. Rank(x) \in Nat
    BY <2>2, FS_CardinalityType
  <2> QED
    BY <1>1, <2>1, <2>2, <2>3
<1>3. ASSUME NEW x \in S, NEW y \in S, x \in B[y]
      PROVE  Rank(x) < Rank(y)
  <2>1. B[x] \in SUBSET B[y] /\ B[x] # B[y]
    BY <1>3 DEF IsOrder
  <2>2. /\ Rank(x) <= Rank(y)
        /\ Rank(y) = Rank(x) => B[y] = B[x]
    BY <1>2, <2>1, FS_Subset
  <2> QED
    BY <1>2, <2>1, <2>2
<1>4. ASSUME NEW k \in 0 .. n - 1
      PROVE  \E x \in S : Rank(x) = k
  <2> DEFINE T == 0 .. n - 1
  <2>1. IsFiniteSet(T) /\ Cardinality(T) = n
    BY <1>1, FS_Interval
  <2>2. rank \in [S -> T]
    BY <1>1, <1>2
  <2>3. ASSUME NEW x \in S, NEW y \in S, x # y
        PROVE  rank[x] # rank[y]
    <3> HIDE DEF Rank
    <3>1. Rank(x) < Rank(y) \/ Rank(y) < Rank(x)
      BY <1>3, <2>3 DEF IsOrder
    <3> QED
      BY <1>2, <3>1
  <2> HIDE DEF rank, T
  <2>4. rank \in Injection(S, T)
    BY <2>2, <2>3 DEF Injection, IsInjective
  <2>5. rank \in Surjection(S, T)
    BY <2>1, <2>4, FS_Injection
  <2>6. \E x \in S : rank[x] = k
    BY <2>5 DEF Surjection, T
  <2> QED
    BY <2>6 DEF rank
<1> HIDE DEF Rank, n
<1>5. \A x \in S : Rank(x) \in 0 .. n - 1
  BY <1>1, <1>2
<1> QED
  BY <1>1, <1>3, <1>4, <1>5 DEF Rank, n

\* One comes first.
LEMMA FirstOf ==
  ASSUME NEW S, IsFiniteSet(S), S # {}, NEW B, IsOrder(S, B)
  PROVE  \E x \in S : \A y \in S : y # x => x \in B[y]
<1>1. Cardinality(S) \in Nat /\ Cardinality(S) # 0
  BY FS_EmptySet, FS_CardinalityType
<1>2. PICK x \in S : Cardinality(B[x]) = 0
  BY <1>1, Ranks
<1>3. ASSUME NEW y \in S, y # x
      PROVE  x \in B[y]
  <2>1. CASE y \in B[x]
    <3>1. /\ Cardinality(B[y]) < Cardinality(B[x])
          /\ Cardinality(B[y]) \in 0 .. Cardinality(S) - 1
      BY <2>1, Ranks
    <3> QED
      BY <1>1, <1>2, <3>1
  <2> QED
    BY <1>3, <2>1 DEF IsOrder
<1> QED
  BY <1>2, <1>3

LEMMA IntervalIs ==
  \A n \in Nat : IsFiniteSet(1 .. n) /\ Cardinality(1 .. n) = n
  BY FS_Interval

LEMMA MaxIs ==
  ASSUME NEW S \in SUBSET Nat, IsFiniteSet(S), S # {}
  PROVE  Max(S) \in S /\ \A x \in S : x <= Max(S)
<1> DEFINE B == [x \in S |-> {y \in S : y > x}]
<1>1. \A x, y \in S : y \in B[x] <=> y > x
  OBVIOUS
<1>2. IsOrder(S, B)
  <2>1. \A x \in S : B[x] \subseteq S
    OBVIOUS
  <2> QED
    BY <1>1, <2>1 DEF IsOrder
<1> HIDE DEF B
<1>3. PICK x \in S : \A y \in S : y # x => x \in B[y]
  BY <1>2, FirstOf
<1>4. \A y \in S : x >= y
  BY <1>1, <1>3
<1>5. Max(S) \in S /\ \A y \in S : Max(S) >= y
  BY <1>4 DEF Max
<1> QED
  BY <1>5

-----------------------------------------------------------------------------
(* The order of the files in findFile and writeLibXml.                      *)

Quad == Nat \X Nat \X Nat \X Nat

LEMMA EarlierIsAnOrder ==
  /\ \A t \in Quad : ~Earlier(t, t)
  /\ \A t, u \in Quad : t[4] # u[4] => Earlier(t, u) \/ Earlier(u, t)
  /\ \A t, u, v \in Quad : Earlier(t, u) /\ Earlier(u, v) => Earlier(t, v)
<1>1. ASSUME NEW t \in Quad
      PROVE  ~Earlier(t, t)
  BY DEF Quad, Earlier
<1>2. ASSUME NEW t \in Quad, NEW u \in Quad, t[4] # u[4]
      PROVE  Earlier(t, u) \/ Earlier(u, t)
  BY <1>2 DEF Quad, Earlier
<1>3. ASSUME NEW t \in Quad, NEW u \in Quad, NEW v \in Quad,
             Earlier(t, u), Earlier(u, v)
      PROVE  Earlier(t, v)
  BY <1>3 DEF Quad, Earlier
<1> QED
  BY <1>1, <1>2, <1>3

LEMMA TurnIs ==
  ASSUME NEW m, NEW i \in Nat, NEW c \in {1, 2}, NEW v \in {1, 2},
         m \in LibStorage
  PROVE  /\ Turn(m, i, c, v) \in Quad /\ Turn(m, i, c, v)[4] = i
         /\ m.files[i].at = LibLevel => Turn(m, i, c, v) = <<0, 0, 0, i>>
<1>1. \A x : /\ Place(m.cells, x) \in Nat
             /\ Place(m.views, x) \in Nat
             /\ Place(m.cvs, x) \in Nat
  <2>1. ASSUME NEW S, NEW seq \in Seq(S), NEW x
        PROVE  Place(seq, x) \in Nat
    <3>1. x \in ToSet(seq) => \E k \in DOMAIN seq : seq[k] = x
      BY DEF ToSet
    <3>2. x \in ToSet(seq) => Place(seq, x) \in DOMAIN seq
      BY <3>1 DEF Place
    <3> QED
      BY <3>2 DEF Place
  <2> QED
    BY <2>1 DEF LibStorage
<1> DEFINE at == m.files[i].at
           p1 == Place(m.cells, at[2])
           p2 == Place(m.cells, at[2][1])
           p3 == Place(m.cvs, at[2])
           p4 == Place(m.views, at[2])
<1>2. p1 \in Nat /\ p2 \in Nat /\ p3 \in Nat /\ p4 \in Nat
  BY <1>1
<1>3. Turn(m, i, c, v) \in {<<0, 0, 0, i>>, <<c, p1, 0, i>>, <<c, p2, p3, i>>,
                            <<v, p4, 0, i>>}
  BY DEF Turn
<1>4. at = LibLevel => Turn(m, i, c, v) = <<0, 0, 0, i>>
  BY DEF Turn, LibLevel
<1> HIDE DEF p1, p2, p3, p4
<1> QED
  BY <1>2, <1>3, <1>4 DEF Quad

\* The members of a set of files that come before each of them.
TurnOrder(m, S, c, v) ==
    [i \in S |-> {j \in S : Earlier(Turn(m, j, c, v), Turn(m, i, c, v))}]

LEMMA TurnOrderIs ==
  ASSUME NEW m \in LibStorage, NEW S, S \subseteq DOMAIN m.files,
         NEW c \in {1, 2}, NEW v \in {1, 2}
  PROVE  /\ IsFiniteSet(S) /\ S \subseteq Nat
         /\ IsOrder(S, TurnOrder(m, S, c, v))
<1>1. S \subseteq Nat /\ IsFiniteSet(S)
  <2>1. DOMAIN m.files = 1 .. Len(m.files) /\ Len(m.files) \in Nat
    BY DEF LibStorage
  <2>2. IsFiniteSet(1 .. Len(m.files))
    BY <2>1, IntervalIs
  <2> QED
    BY <2>1, <2>2, FS_Subset
<1> DEFINE B == TurnOrder(m, S, c, v)
           T(i) == Turn(m, i, c, v)
<1>2. \A i, j \in S : i \in B[j] <=> Earlier(T(i), T(j))
  BY DEF TurnOrder
<1>3. \A i \in S : B[i] \subseteq S
  BY DEF TurnOrder
<1>4. \A i \in S : T(i) \in Quad /\ T(i)[4] = i
  BY <1>1, TurnIs
<1> HIDE DEF B, T
<1>5. \A i \in S : i \notin B[i]
  BY <1>2, <1>4, EarlierIsAnOrder
<1>6. ASSUME NEW i \in S, NEW j \in S, i # j
      PROVE  i \in B[j] \/ j \in B[i]
  BY <1>2, <1>4, <1>6, EarlierIsAnOrder
<1>7. ASSUME NEW i \in S, NEW j \in S, NEW k \in S, i \in B[j], j \in B[k]
      PROVE  i \in B[k]
  BY <1>2, <1>4, <1>7, EarlierIsAnOrder
<1>8. IsOrder(S, B)
  BY <1>3, <1>5, <1>6, <1>7 DEF IsOrder
<1> QED
  BY <1>1, <1>8 DEF B

\* findFile returns the number of a file of that name, of the first one when
\* all of them are files of the library.
LEMMA FindFileIs ==
  ASSUME NEW m \in LibStorage, NEW n, Knows(m, n)
  PROVE  \E i \in Hits(m, n) :
            /\ FindFile(m, n) = m.files[i].num
            /\ (\A j \in Hits(m, n) : m.files[j].at = LibLevel)
                   => \A j \in Hits(m, n) : i <= j
<1> DEFINE S == Hits(m, n)
           B == TurnOrder(m, S, 1, 2)
           T(i) == Turn(m, i, 1, 2)
<1>1. S # {} /\ S \subseteq DOMAIN m.files
  BY DEF Knows, Hits
<1>2. IsFiniteSet(S) /\ S \subseteq Nat /\ IsOrder(S, B)
  BY <1>1, TurnOrderIs
<1>3. \A i, j \in S : i \in B[j] <=> Earlier(T(i), T(j))
  BY DEF TurnOrder
<1> HIDE DEF B
<1>4. PICK x \in S : \A y \in S : y # x => x \in B[y]
  BY <1>1, <1>2, FirstOf
<1>5. \A j \in S \ {x} : Earlier(T(x), T(j))
  BY <1>3, <1>4
<1>6. PICK i \in S : /\ \A j \in S \ {i} : Earlier(T(i), T(j))
                     /\ FindFile(m, n) = m.files[i].num
  BY <1>5 DEF FindFile
<1> HIDE DEF S, T
<1>7. ASSUME \A j \in S : m.files[j].at = LibLevel, NEW j \in S
      PROVE  i <= j
  <2>1. CASE i # j
    <3>1. T(i) = <<0, 0, 0, i>> /\ T(j) = <<0, 0, 0, j>>
      BY <1>2, <1>7, TurnIs DEF T
    <3>2. Earlier(<<0, 0, 0, i>>, <<0, 0, 0, j>>)
      BY <1>6, <2>1, <3>1
    <3> QED
      BY <1>2, <3>2 DEF Earlier
  <2> QED
    BY <1>2, <2>1
<1> QED
  BY <1>6, <1>7 DEF S

-----------------------------------------------------------------------------
(* What is written and what is read again.                                  *)

\* Sessions come one after another, and no library has more files than
\* loadLibXml reads.
SerialUse == ~Overlap /\ \A b \in Settings : b.nums <= Limit

\* What is true of an index: its numbers are given out, and the files with the
\* names of applications are files of the library.
SoundStorage(m, nums) ==
    /\ m \in LibStorage
    /\ \A i \in DOMAIN m.files :
          /\ m.files[i].num < m.next /\ m.files[i].num < nums
          /\ m.files[i].name.of \in Name => m.files[i].at = LibLevel

SoundXml(text, nums) == /\ text \in Seq(XmlRecord)
                        /\ \A i \in DOMAIN text : text[i].num < nums

\* The numbers and whose they are.
Recs(m) == {<<m.files[i].num, m.files[i].name.of>> : i \in DOMAIN m.files}

SameFiles(m, k) == Recs(m) = Recs(k) /\ CatalogOf(m) = CatalogOf(k)

LEMMA StorageIs ==
  ASSUME NEW m \in LibStorage
  PROVE  /\ m.files \in Seq(FileRecord) /\ m.next \in Nat
         /\ Len(m.files) \in Nat /\ DOMAIN m.files = 1 .. Len(m.files)
         /\ DOMAIN m.files \subseteq Nat
         /\ \A i \in DOMAIN m.files : /\ m.files[i] \in FileRecord
                                      /\ m.files[i].name \in FileName
                                      /\ m.files[i].num \in Nat
<1>1. m.files \in Seq(FileRecord) /\ m.next \in Nat
  BY DEF LibStorage
<1>2. \A r \in FileRecord : r.name \in FileName /\ r.num \in Nat
  BY DEF FileRecord
<1>3. \A i \in DOMAIN m.files : m.files[i] \in FileRecord
  BY <1>1
<1>4. Len(m.files) \in Nat /\ DOMAIN m.files = 1 .. Len(m.files)
  BY <1>1
<1>5. DOMAIN m.files \subseteq Nat
  BY <1>4
<1> QED
  BY <1>1, <1>2, <1>3, <1>4, <1>5

LEMMA XmlIs ==
  ASSUME NEW text \in Seq(XmlRecord)
  PROVE  /\ Len(text) \in Nat /\ DOMAIN text = 1 .. Len(text)
         /\ \A i \in DOMAIN text : /\ text[i].name \in FileName
                                   /\ text[i].num \in Nat
<1>1. \A r \in XmlRecord : r.name \in FileName /\ r.num \in Nat
  BY DEF XmlRecord
<1>2. /\ Len(text) \in Nat /\ DOMAIN text = 1 .. Len(text)
      /\ \A i \in DOMAIN text : text[i] \in XmlRecord
  OBVIOUS
<1> QED
  BY <1>1, <1>2

\* The file that findFile finds by an application's name.
Least(m, n, i) == /\ i \in Hits(m, Named(n))
                  /\ \A j \in Hits(m, Named(n)) : i <= j

LEMMA FindsFirst ==
  ASSUME NEW m, NEW nums, SoundStorage(m, nums), NEW n \in Plain
  PROVE  /\ \A i : Least(m, n, i) => FindFile(m, Named(n)) = m.files[i].num
         /\ Knows(m, Named(n)) => \E i : Least(m, n, i)
         /\ \A i : Least(m, n, i) => Knows(m, Named(n))
<1>1. /\ m \in LibStorage
      /\ \A i \in Hits(m, Named(n)) : m.files[i].at = LibLevel
      /\ Hits(m, Named(n)) \subseteq Nat
  BY DEF SoundStorage, Hits, Named, Plain, LibStorage
<1>2. ASSUME Knows(m, Named(n))
      PROVE  \E i : Least(m, n, i) /\ FindFile(m, Named(n)) = m.files[i].num
  BY <1>1, <1>2, FindFileIs DEF Least
<1>3. \A i : Least(m, n, i) => Knows(m, Named(n))
  BY DEF Least, Knows
<1>4. \A i, j : Least(m, n, i) /\ Least(m, n, j) => i = j
  BY <1>1 DEF Least
<1> QED
  BY <1>2, <1>3, <1>4

\* writeLibXml writes every file once, and the files of the library in their
\* order.
LEMMA WrittenIs ==
  ASSUME NEW m \in LibStorage
  PROVE  /\ \A k \in DOMAIN m.files : Written(m, k - 1) \in DOMAIN m.files
         /\ \A i \in DOMAIN m.files :
               \E k \in DOMAIN m.files : Written(m, k - 1) = i
         /\ \A k, l \in DOMAIN m.files :
               /\ Written(m, k - 1) = Written(m, l - 1) => k = l
               /\ /\ m.files[Written(m, k - 1)].at = LibLevel
                  /\ m.files[Written(m, l - 1)].at = LibLevel
                  /\ Written(m, k - 1) < Written(m, l - 1)
                  => k < l
<1> DEFINE D == DOMAIN m.files
           B == TurnOrder(m, D, 2, 1)
           Rank(i) == Cardinality(B[i])
           W(k) == Written(m, k - 1)
           T(i) == Turn(m, i, 2, 1)
<1>1. /\ Len(m.files) \in Nat /\ D = 1 .. Len(m.files)
      /\ Cardinality(D) = Len(m.files)
  <2>1. Len(m.files) \in Nat /\ D = 1 .. Len(m.files)
    BY DEF LibStorage
  <2> QED
    BY <2>1, IntervalIs
<1>2. IsFiniteSet(D) /\ IsOrder(D, B)
  BY TurnOrderIs
<1>3. \A i \in D : B[i] = {j \in D : Earlier(T(j), T(i))}
  BY DEF TurnOrder
<1> HIDE DEF B, D
<1>4. /\ \A i \in D : Rank(i) \in 0 .. Len(m.files) - 1
      /\ \A i, j \in D : i \in B[j] => Rank(i) < Rank(j)
      /\ \A k \in 0 .. Len(m.files) - 1 : \E i \in D : Rank(i) = k
  <2>1. /\ \A i \in D : Cardinality(B[i]) \in 0 .. Cardinality(D) - 1
        /\ \A i, j \in D : i \in B[j] => Cardinality(B[i]) < Cardinality(B[j])
        /\ \A k \in 0 .. Cardinality(D) - 1 :
              \E i \in D : Cardinality(B[i]) = k
    BY <1>2, Ranks
  <2> QED
    BY <1>1, <2>1
<1>5. ASSUME NEW k \in D
      PROVE  W(k) \in D /\ Rank(W(k)) = k - 1
  <2>1. \E i \in D : Rank(i) = k - 1
    BY <1>1, <1>4
  <2>2. \E i \in D : Cardinality({j \in D : Earlier(T(j), T(i))}) = k - 1
    BY <1>3, <2>1
  <2>3. /\ W(k) \in D
        /\ Cardinality({j \in D : Earlier(T(j), T(W(k)))}) = k - 1
    BY <2>2 DEF Written, D
  <2> QED
    BY <1>3, <2>3
<1> HIDE DEF W, Rank
<1>6. ASSUME NEW i \in D
      PROVE  \E k \in D : W(k) = i
  <2>1. PICK k \in D : Rank(i) = k - 1
    <3>1. Rank(i) + 1 \in D /\ Rank(i) = (Rank(i) + 1) - 1
      BY <1>1, <1>4
    <3> QED
      BY <3>1
  <2>2. W(k) \in D /\ Rank(W(k)) = Rank(i) /\ Rank(i) \in Nat
    BY <1>4, <1>5, <2>1
  <2>3. W(k) \notin B[i] /\ i \notin B[W(k)]
    BY <1>4, <2>2
  <2>4. W(k) = i
    BY <1>2, <2>2, <2>3 DEF IsOrder
  <2> QED
    BY <2>4
<1>7. ASSUME NEW k \in D, NEW l \in D
      PROVE  W(k) = W(l) => k = l
  BY <1>1, <1>5
<1>8. ASSUME NEW k \in D, NEW l \in D, W(k) < W(l),
             m.files[W(k)].at = LibLevel, m.files[W(l)].at = LibLevel
      PROVE  k < l
  <2>1. W(k) \in Nat /\ W(l) \in Nat
    <3>1. W(k) \in D /\ W(l) \in D
      BY <1>5
    <3>2. \A i \in D : i \in Nat
      BY <1>1
    <3> QED
      BY <3>1, <3>2
  <2>2. Earlier(T(W(k)), T(W(l)))
    <3>1. Earlier(<<0, 0, 0, W(k)>>, <<0, 0, 0, W(l)>>)
      BY <1>8 DEF Earlier
    <3>2. T(W(k)) = <<0, 0, 0, W(k)>> /\ T(W(l)) = <<0, 0, 0, W(l)>>
      BY <1>8, <2>1, TurnIs
    <3> QED
      BY <3>1, <3>2
  <2> HIDE DEF T
  <2>3. W(k) \in B[W(l)]
    BY <1>3, <1>5, <2>2
  <2>4. k - 1 < l - 1
    BY <1>4, <1>5, <2>3
  <2> QED
    BY <1>1, <2>4
<1> QED
  BY <1>5, <1>6, <1>7, <1>8 DEF W, D

LEMMA EscapeIs ==
  ASSUME NEW x \in FileName
  PROVE  /\ XmlEscape(x) \in FileName /\ XmlEscape(x).of = x.of
         /\ \A n \in Plain : XmlEscape(x) = Named(n) <=> x = Named(n)
<1>1. PICK o \in Name \cup Own, e \in Nat : x = [of |-> o, esc |-> e]
  BY DEF FileName
<1>2. XmlEscape(x) = IF o \in Special THEN [of |-> o, esc |-> e + 1] ELSE x
  BY <1>1 DEF XmlEscape
<1>3. ASSUME NEW n \in Plain
      PROVE  XmlEscape(x) = Named(n) <=> x = Named(n)
  <2>1. CASE o \in Special
    <3>1. o # n
      BY <2>1 DEF Plain
    <3> QED
      BY <1>1, <1>2, <2>1, <3>1 DEF Named
  <2> QED
    BY <1>2, <2>1
<1> QED
  BY <1>1, <1>2, <1>3 DEF FileName

LEMMA TextIs ==
  ASSUME NEW m, NEW nums, SoundStorage(m, nums)
  PROVE  /\ SoundXml(Text(m), nums)
         /\ DOMAIN Text(m) = DOMAIN m.files
         /\ \A k \in DOMAIN m.files :
               LET r == m.files[Written(m, k - 1)]
               IN  Text(m)[k] = [name |-> XmlEscape(r.name), num |-> r.num]
<1> DEFINE W(k) == Written(m, k - 1)
           line(k) == [name |-> XmlEscape(m.files[W(k)].name),
                       num |-> m.files[W(k)].num]
<1>1. /\ m \in LibStorage /\ Len(m.files) \in Nat
      /\ DOMAIN m.files = 1 .. Len(m.files)
      /\ \A i \in DOMAIN m.files : /\ m.files[i].name \in FileName
                                   /\ m.files[i].num \in Nat
                                   /\ m.files[i].num < nums
  BY StorageIs DEF SoundStorage
<1>2. Text(m) = [k \in 1 .. Len(m.files) |-> line(k)]
  BY <1>1 DEF Text
<1>3. ASSUME NEW k \in DOMAIN m.files
      PROVE  line(k) \in XmlRecord /\ line(k).num < nums
  BY <1>1, WrittenIs, EscapeIs DEF XmlRecord
<1> HIDE DEF line
<1>4. Text(m) \in [1 .. Len(m.files) -> XmlRecord]
  BY <1>1, <1>2, <1>3
<1>5. Text(m) \in Seq(XmlRecord)
  BY <1>1, <1>4
<1>6. SoundXml(Text(m), nums)
  BY <1>1, <1>2, <1>3, <1>5 DEF SoundXml
<1> QED
  BY <1>1, <1>2, <1>6 DEF line

\* No record is dropped.
LEMMA KeptIs ==
  ASSUME NEW text \in Seq(XmlRecord),
         \A i \in DOMAIN text : text[i].num < Limit
  PROVE  Kept(text) = text
<1> DEFINE n == Len(text)
           small == {i \in DOMAIN text : text[i].num < Limit}
<1>1. n \in Nat /\ DOMAIN text = 1 .. n /\ text = [i \in 1 .. n |-> text[i]]
  OBVIOUS
<1>2. small = 1 .. n
  BY <1>1
<1>3. Cardinality(small) = n
  BY <1>1, <1>2, IntervalIs
<1>4. ASSUME NEW i \in 1 .. n
      PROVE  Cardinality(small \cap (1 .. i)) = i
  <2>1. small \cap (1 .. i) = 1 .. i
    BY <1>1, <1>2
  <2>2. i \in Nat
    BY <1>1
  <2> QED
    BY <2>1, <2>2, IntervalIs
<1> HIDE DEF small, n
<1>5. ASSUME NEW k \in 1 .. n
      PROVE  (CHOOSE i \in small : Cardinality(small \cap (1 .. i)) = k) = k
  BY <1>2, <1>4
<1>6. Kept(text) = [k \in 1 .. n |->
          text[CHOOSE i \in small : Cardinality(small \cap (1 .. i)) = k]]
  BY <1>3 DEF Kept, small
<1> QED
  BY <1>1, <1>5, <1>6

LEMMA NewExcept ==
  ASSUME NEW f, NEW k
  PROVE  [NewStorage EXCEPT !.files = f, !.next = k]
             = [files |-> f, cells |-> <<>>, views |-> <<>>, cvs |-> <<>>,
                next |-> k]
<1>1. NewStorage \in [files : {<<>>}, cells : {<<>>}, views : {<<>>},
                      cvs : {<<>>}, next : {0}]
  BY DEF NewStorage
<1>2. ASSUME NEW C, NEW V, NEW B,
             NEW r \in [files : {<<>>}, cells : C, views : V, cvs : B,
                        next : {0}]
      PROVE  [r EXCEPT !.files = f, !.next = k]
                 \in [files : {f}, cells : C, views : V, cvs : B, next : {k}]
  OBVIOUS
<1>3. ASSUME NEW r \in [files : {f}, cells : {<<>>}, views : {<<>>},
                        cvs : {<<>>}, next : {k}]
      PROVE  r = [files |-> f, cells |-> <<>>, views |-> <<>>, cvs |-> <<>>,
                  next |-> k]
  OBVIOUS
<1> QED
  BY <1>1, <1>2, <1>3

LEMMA LoadIs ==
  ASSUME NEW text, NEW nums \in Nat, nums <= Limit, SoundXml(text, nums)
  PROVE  /\ SoundStorage(LoadLibXml(text), nums)
         /\ DOMAIN LoadLibXml(text).files = DOMAIN text
         /\ \A i \in DOMAIN text :
               LoadLibXml(text).files[i] = [at |-> LibLevel,
                   name |-> text[i].name, num |-> text[i].num]
<1> DEFINE n == Len(text)
           numbers == {0} \cup {text[i].num : i \in DOMAIN text}
           files == [i \in DOMAIN text |-> [at |-> LibLevel,
                         name |-> text[i].name, num |-> text[i].num]]
<1>1. /\ text \in Seq(XmlRecord) /\ n \in Nat /\ DOMAIN text = 1 .. n
      /\ \A i \in DOMAIN text : /\ text[i].name \in FileName
                                /\ text[i].num \in Nat /\ text[i].num < nums
                                /\ text[i].num < Limit
  <2>1. Limit \in Nat
    BY StorageAssumption
  <2>2. text \in Seq(XmlRecord) /\ \A i \in DOMAIN text : text[i].num < nums
    BY DEF SoundXml
  <2>3. /\ n \in Nat /\ DOMAIN text = 1 .. n
        /\ \A i \in DOMAIN text :
              text[i].name \in FileName /\ text[i].num \in Nat
    BY <2>2, XmlIs
  <2>4. \A i \in DOMAIN text : text[i].num < Limit
    BY <2>1, <2>2, <2>3
  <2> QED
    BY <2>2, <2>3, <2>4
<1>2. Kept(text) = text
  BY <1>1, KeptIs
<1>3. numbers \in SUBSET Nat /\ \A k \in numbers : k <= nums
  BY <1>1
<1>4. IsFiniteSet(numbers) /\ numbers # {}
  BY <1>3, FS_BoundedSetOfNaturals
<1>5. /\ Max(numbers) \in Nat
      /\ \A i \in DOMAIN text : text[i].num <= Max(numbers)
  <2> HIDE DEF numbers
  <2>1. Max(numbers) \in numbers /\ \A x \in numbers : x <= Max(numbers)
    BY <1>3, <1>4, MaxIs
  <2> QED
    BY <1>3, <2>1 DEF numbers
<1> DEFINE next == Max(numbers) + 1
<1>6. LoadLibXml(text) = [files |-> files, cells |-> <<>>, views |-> <<>>,
                          cvs |-> <<>>, next |-> next]
  <2>1. LoadLibXml(text) = [NewStorage EXCEPT !.files = files, !.next = next]
    BY <1>2 DEF LoadLibXml, Restored, MaxNum
  <2> HIDE DEF files, next
  <2> QED
    BY <2>1, NewExcept
<1>7. next \in Nat /\ \A i \in DOMAIN text : text[i].num < next
  <2> DEFINE max == Max(numbers)
  <2> HIDE DEF max, numbers
  <2>1. max \in Nat /\ \A i \in DOMAIN text : text[i].num <= max
    BY <1>5 DEF max
  <2>2. max + 1 \in Nat /\ \A i \in DOMAIN text : text[i].num < max + 1
    BY <1>1, <2>1
  <2> QED
    BY <2>2 DEF max
<1>8. files \in Seq(FileRecord)
  <2>1. files \in [1 .. n -> FileRecord]
    BY <1>1 DEF FileRecord, LibLevel
  <2> HIDE DEF files
  <2> QED
    BY <1>1, <2>1
<1> HIDE DEF next
<1>9. LoadLibXml(text) \in LibStorage
  <2> HIDE DEF files
  <2> QED
    BY <1>6, <1>7, <1>8 DEF LibStorage
<1> QED
  BY <1>1, <1>6, <1>7, <1>9 DEF SoundStorage

\* A storage with the same files in another order, in which those of the
\* library keep theirs.
Rearranges(w, k, m) ==
    /\ DOMAIN k.files = DOMAIN m.files
    /\ w \in [DOMAIN m.files -> DOMAIN m.files]
    /\ \A i \in DOMAIN m.files : \E j \in DOMAIN m.files : w[j] = i
    /\ \A i, j \in DOMAIN m.files : w[i] = w[j] => i = j
    /\ \A i, j \in DOMAIN m.files :
          /\ m.files[w[i]].at = LibLevel /\ m.files[w[j]].at = LibLevel
          /\ w[i] < w[j]
          => i < j
    /\ \A i \in DOMAIN m.files :
          /\ k.files[i].num = m.files[w[i]].num
          /\ k.files[i].name = XmlEscape(m.files[w[i]].name)

LEMMA RearrangedIsTheSame ==
  ASSUME NEW m, NEW k, NEW nums, SoundStorage(m, nums), SoundStorage(k, nums),
         NEW w, Rearranges(w, k, m)
  PROVE  SameFiles(k, m)
<1> DEFINE D == DOMAIN m.files
<1>1. \A i \in D : w[i] \in D /\ m.files[w[i]].name \in FileName
  BY StorageIs DEF SoundStorage, Rearranges
<1>2. /\ DOMAIN k.files = D /\ D \subseteq Nat
      /\ \A i \in D : \E j \in D : w[j] = i
      /\ \A i, j \in D : w[i] = w[j] => i = j
      /\ \A i, j \in D : /\ m.files[w[i]].at = LibLevel
                         /\ m.files[w[j]].at = LibLevel
                         /\ w[i] < w[j]
                         => i < j
  BY StorageIs DEF SoundStorage, Rearranges
<1>3. ASSUME NEW i \in D
      PROVE  /\ k.files[i].num = m.files[w[i]].num
             /\ k.files[i].name.of = m.files[w[i]].name.of
             /\ \A n \in Plain : k.files[i].name = Named(n)
                    <=> m.files[w[i]].name = Named(n)
  <2>1. /\ k.files[i].num = m.files[w[i]].num
        /\ k.files[i].name = XmlEscape(m.files[w[i]].name)
    BY DEF Rearranges
  <2>2. m.files[w[i]].name \in FileName
    BY <1>1
  <2> QED
    BY <2>1, <2>2, EscapeIs
<1>4. Recs(k) = Recs(m)
  <2> DEFINE P(i) == <<m.files[i].num, m.files[i].name.of>>
             Q(i) == <<k.files[i].num, k.files[i].name.of>>
  <2>1. Recs(m) = {P(i) : i \in D} /\ Recs(k) = {Q(i) : i \in D}
    BY <1>2 DEF Recs
  <2>2. \A i \in D : Q(i) = P(w[i])
    BY <1>3
  <2> HIDE DEF P, Q
  <2>3. \A i \in D : w[i] \in D /\ \E j \in D : w[j] = i
    BY <1>1, <1>2
  <2> QED
    BY <2>1, <2>2, <2>3
<1>5. ASSUME NEW n \in Plain
      PROVE  /\ Knows(k, Named(n)) <=> Knows(m, Named(n))
             /\ Knows(m, Named(n)) =>
                    FindFile(k, Named(n)) = FindFile(m, Named(n))
  <2> DEFINE H == Hits(m, Named(n))
             K == Hits(k, Named(n))
  <2>1. K \subseteq D /\ H \subseteq D
    BY <1>2 DEF Hits
  <2>2. \A i \in D : i \in K <=> w[i] \in H
    BY <1>1, <1>2, <1>3 DEF Hits
  <2>3. \A l \in H : m.files[l].at = LibLevel
    BY DEF SoundStorage, Hits, Named, Plain
  <2>5. \A i : Least(m, n, i) <=> i \in H /\ \A j \in H : i <= j
    BY DEF Least
  <2>6. \A i : Least(k, n, i) <=> i \in K /\ \A j \in K : i <= j
    BY DEF Least
  <2> HIDE DEF H, K
  <2>7. K # {} <=> H # {}
    <3>1. ASSUME K # {}
          PROVE  H # {}
      BY <2>1, <2>2, <3>1
    <3>2. ASSUME NEW i \in H
          PROVE  K # {}
      <4>1. PICK j \in D : w[j] = i
        BY <1>2, <2>1
      <4> QED
        BY <2>2, <4>1
    <3> QED
      BY <3>1, <3>2
  <2>8. Knows(k, Named(n)) <=> Knows(m, Named(n))
    BY <2>7 DEF Knows, H, K
  <2>9. ASSUME Knows(m, Named(n))
        PROVE  FindFile(k, Named(n)) = FindFile(m, Named(n))
    <3>1. PICK i : Least(m, n, i)
      BY <2>9, FindsFirst
    <3>2. i \in H /\ i \in D /\ \A j \in H : i <= j
      BY <2>1, <2>5, <3>1
    <3>3. PICK j \in D : w[j] = i
      BY <1>2, <3>2
    <3>4. ASSUME NEW l \in K
          PROVE  j <= l
      <4>1. l \in D /\ w[l] \in H /\ w[l] \in D
        BY <1>1, <2>1, <2>2
      <4>2. l \in Nat /\ j \in Nat /\ i \in Nat /\ w[l] \in Nat /\ i <= w[l]
        BY <1>2, <3>2, <4>1
      <4>3. CASE w[l] = i
        <5>1. l = j
          BY <1>2, <3>3, <4>1, <4>3
        <5> QED
          BY <4>2, <5>1
      <4>4. CASE i < w[l]
        <5>1. m.files[i].at = LibLevel /\ m.files[w[l]].at = LibLevel
          BY <2>3, <3>2, <4>1
        <5>2. j < l
          BY <1>2, <3>3, <4>1, <4>4, <5>1
        <5> QED
          BY <4>2, <5>2
      <4> QED
        BY <4>2, <4>3, <4>4
    <3>5. j \in K
      BY <2>2, <3>2, <3>3
    <3>6. Least(k, n, j)
      BY <2>6, <3>4, <3>5
    <3>7. /\ FindFile(m, Named(n)) = m.files[i].num
          /\ FindFile(k, Named(n)) = k.files[j].num
      BY <3>1, <3>6, FindsFirst
    <3> QED
      BY <1>3, <3>3, <3>7
  <2> QED
    BY <2>8, <2>9
<1>6. CatalogOf(k) = CatalogOf(m)
  BY <1>5 DEF CatalogOf
<1> QED
  BY <1>4, <1>6 DEF SameFiles

\* What is written is read again: everybody finds the same files.
LEMMA ReloadKeeps ==
  ASSUME NEW m, NEW nums \in Nat, nums <= Limit, SoundStorage(m, nums)
  PROVE  SameFiles(LoadLibXml(Text(m)), m)
<1> DEFINE t == Text(m)
           k == LoadLibXml(t)
           D == DOMAIN m.files
           w == [i \in D |-> Written(m, i - 1)]
<1>1. /\ SoundXml(t, nums) /\ DOMAIN t = D
      /\ \A i \in D : t[i] = [name |-> XmlEscape(m.files[w[i]].name),
                              num |-> m.files[w[i]].num]
  BY TextIs
<1> HIDE DEF t
<1>2. /\ SoundStorage(k, nums) /\ DOMAIN k.files = D
      /\ \A i \in D : k.files[i] = [at |-> LibLevel, name |-> t[i].name,
                                    num |-> t[i].num]
  BY <1>1, LoadIs
<1> HIDE DEF k
<1>3. /\ w \in [D -> D]
      /\ \A i \in D : \E j \in D : w[j] = i
      /\ \A i, j \in D : w[i] = w[j] => i = j
      /\ \A i, j \in D : /\ m.files[w[i]].at = LibLevel
                         /\ m.files[w[j]].at = LibLevel
                         /\ w[i] < w[j]
                         => i < j
  <2>1. m \in LibStorage
    BY DEF SoundStorage
  <2> QED
    BY <2>1, WrittenIs
<1> HIDE DEF w
<1>4. ASSUME NEW i \in D
      PROVE  /\ k.files[i].num = m.files[w[i]].num
             /\ k.files[i].name = XmlEscape(m.files[w[i]].name)
  <2>1. /\ t[i].name = XmlEscape(m.files[w[i]].name)
        /\ t[i].num = m.files[w[i]].num
    <3> DEFINE r == m.files[w[i]]
    <3>1. t[i] = [name |-> XmlEscape(r.name), num |-> r.num]
      BY <1>1
    <3> HIDE DEF r
    <3>2. t[i].name = XmlEscape(r.name) /\ t[i].num = r.num
      BY <3>1
    <3> QED
      BY <3>2 DEF r
  <2>2. k.files[i].name = t[i].name /\ k.files[i].num = t[i].num
    <3>1. k.files[i] = [at |-> LibLevel, name |-> t[i].name, num |-> t[i].num]
      BY <1>2
    <3> QED
      BY <3>1
  <2> QED
    BY <2>1, <2>2
<1>5. Rearranges(w, k, m)
  BY <1>2, <1>3, <1>4 DEF Rearranges
<1> QED
  BY <1>2, <1>5, RearrangedIsTheSame DEF k, t

-----------------------------------------------------------------------------
(* The invariant of the storage.                                            *)

StoredIn(x) == IF x = NoXml THEN NewStorage ELSE LoadLibXml(x)

\* At most one session is open; whoever writes lib.xml has it empty; and unless
\* torn says so, lib.xml has the files of the session.
SessionInv ==
    /\ setting \in Settings
    /\ xml # NoXml => SoundXml(xml, setting.nums)
    /\ mem \in [Session -> LibStorage \cup {NoLib}]
    /\ writing \in [Session -> {"no", "change", "close"}]
    /\ torn \in BOOLEAN
    /\ \A s \in Session : mem[s] # NoLib => SoundStorage(mem[s], setting.nums)
    /\ \A s, t \in Session : mem[s] # NoLib /\ mem[t] # NoLib => s = t
    /\ \A s \in Session :
          writing[s] # "no" => mem[s] # NoLib /\ xml = <<>> /\ torn
    /\ ~torn => \A s \in Session :
                   mem[s] # NoLib => SameFiles(mem[s], StoredIn(xml))

\* A number belongs to one name, its data file has been written for that name,
\* and there is no data file without a number.
DataOK(recs, files) ==
    /\ \A p, q \in recs : p[1] = q[1] => p[2] = q[2]
    /\ \A p \in recs : files[p[1]] \in {Absent, Empty, p[2]}
    /\ \A k \in DOMAIN files : files[k] # Absent => \E p \in recs : p[1] = k

OwnInv ==
    /\ data \in [0 .. setting.nums - 1 -> {Absent, Empty} \cup Name \cup Own]
    /\ breaks \in {0, 1, 2}
    /\ breaks = 0 => DataOK(Recs(Index), data)

\* The bound on the numbers.
LEMMA BoundIs == ASSUME SerialUse, NEW b \in Settings
                 PROVE  b.nums \in Nat /\ b.nums <= Limit
  BY StorageAssumption DEF SerialUse

LEMMA EmptyXml == <<>> \in Seq(XmlRecord) /\ <<>> # NoXml
                  /\ \A nums : SoundXml(<<>>, nums)
<1>1. <<>> \in Seq(XmlRecord)
  OBVIOUS
<1>2. NoXml \notin Seq(XmlRecord)
  BY StorageAssumption
<1>3. DOMAIN <<>> = {}
  OBVIOUS
<1>4. <<>> # NoXml
  BY <1>1, <1>2
<1> QED
  BY <1>1, <1>3, <1>4 DEF SoundXml

LEMMA NewIsSound == ASSUME NEW nums
                    PROVE  SoundStorage(NewStorage, nums) /\ NewStorage # NoLib
<1>1. NewStorage \in LibStorage
  BY DEF NewStorage, LibStorage
<1>2. NoLib \notin LibStorage
  BY StorageAssumption
<1>3. NewStorage.files = <<>>
  BY DEF NewStorage
<1> QED
  BY <1>1, <1>2, <1>3 DEF SoundStorage

LEMMA SoundIsOpen == ASSUME NEW m, NEW nums, SoundStorage(m, nums)
                     PROVE  m \in LibStorage /\ m # NoLib
<1>1. NoLib \notin LibStorage
  BY StorageAssumption
<1> QED
  BY <1>1 DEF SoundStorage

LEMMA StoredIsSound ==
  ASSUME NEW x, NEW nums \in Nat, nums <= Limit, x # NoXml => SoundXml(x, nums)
  PROVE  SoundStorage(StoredIn(x), nums)
  BY NewIsSound, LoadIs DEF StoredIn

LEMMA SameIsSame == /\ \A m : SameFiles(m, m)
                    /\ \A m, k : SameFiles(m, k) => SameFiles(k, m)
  BY DEF SameFiles

\* What is in force, for any sessions and any lib.xml.
IndexIn(sessions, x) ==
    IF \E s \in Session : sessions[s] # NoLib
    THEN sessions[CHOOSE s \in Session : sessions[s] # NoLib]
    ELSE StoredIn(x)

OneOpen(sessions) == \A s, t \in Session :
    sessions[s] # NoLib /\ sessions[t] # NoLib => s = t

LEMMA IndexIs ==
  ASSUME NEW sessions, NEW x, OneOpen(sessions)
  PROVE  /\ \A s \in Session :
               sessions[s] # NoLib => IndexIn(sessions, x) = sessions[s]
         /\ (\A s \in Session : sessions[s] = NoLib)
               => IndexIn(sessions, x) = StoredIn(x)
<1>1. ASSUME NEW s \in Session, sessions[s] # NoLib
      PROVE  IndexIn(sessions, x) = sessions[s]
  <2> DEFINE t == CHOOSE s1 \in Session : sessions[s1] # NoLib
  <2>1. t \in Session /\ sessions[t] # NoLib
    BY <1>1
  <2>2. t = s
    BY <1>1, <2>1 DEF OneOpen
  <2> QED
    BY <1>1, <2>2 DEF IndexIn
<1>2. ASSUME \A s \in Session : sessions[s] = NoLib
      PROVE  IndexIn(sessions, x) = StoredIn(x)
  BY <1>2 DEF IndexIn
<1> QED
  BY <1>1, <1>2

LEMMA IndexIsIndexIn == Index = IndexIn(mem, xml)
  BY DEF Index, IndexIn, StoredIn

LEMMA IndexIsSound ==
  ASSUME NEW sessions, NEW x, NEW nums \in Nat, nums <= Limit,
         OneOpen(sessions), x # NoXml => SoundXml(x, nums),
         \A s \in Session :
             sessions[s] # NoLib => SoundStorage(sessions[s], nums)
  PROVE  SoundStorage(IndexIn(sessions, x), nums)
<1>1. CASE \E s \in Session : sessions[s] # NoLib
  BY <1>1, IndexIs
<1>2. CASE \A s \in Session : sessions[s] = NoLib
  BY <1>2, IndexIs, StoredIsSound
<1> QED
  BY <1>1, <1>2

-----------------------------------------------------------------------------
(* What is written into lib.xml.                                            *)

LEMMA OverEmpty == ASSUME NEW text \in Seq(XmlRecord)
                   PROVE  Over(text, <<>>) = text
<1>1. SubSeq(<<>>, Len(text) + 1, Len(<<>>)) = <<>>
  OBVIOUS
<1>2. text \o <<>> = text
  OBVIOUS
<1> QED
  BY <1>1, <1>2, EmptyXml DEF Over

\* A number that is cut off is no larger than it was.
LEMMA CutIsSound ==
  ASSUME NEW text, NEW nums \in Nat, SoundXml(text, nums),
         NEW i \in 0 .. Len(text) - 1, NEW left \in CutAfter(text, i)
  PROVE  SoundXml(left, nums)
<1>1. /\ text \in Seq(XmlRecord) /\ Len(text) \in Nat
      /\ DOMAIN text = 1 .. Len(text)
      /\ \A j \in DOMAIN text : /\ text[j] \in XmlRecord
                                /\ text[j].num \in Nat /\ text[j].num < nums
  BY XmlIs DEF SoundXml
<1> DEFINE whole == SubSeq(text, 1, i)
<1>2. i \in Nat /\ i + 1 \in DOMAIN text /\ i <= Len(text)
  BY <1>1
<1>3. /\ whole \in Seq(XmlRecord) /\ Len(whole) = i
      /\ \A j \in 1 .. i : whole[j] = text[j] /\ j \in DOMAIN text
  BY <1>1, <1>2
<1> HIDE DEF whole
<1>4. SoundXml(whole, nums)
  BY <1>1, <1>3 DEF SoundXml
<1>5. ASSUME NEW k \in {0, text[i + 1].num \div 10, text[i + 1].num}
      PROVE  SoundXml(Append(whole, [text[i + 1] EXCEPT !.num = k]), nums)
  <2> DEFINE r == [text[i + 1] EXCEPT !.num = k]
             cut == text[i + 1].num
  <2>1. cut \in Nat /\ cut < nums /\ text[i + 1] \in XmlRecord
    BY <1>1, <1>2
  <2>2. k \in Nat /\ k <= cut
    <3> HIDE DEF cut
    <3>1. \A n \in Nat : n \div 10 \in Nat /\ n \div 10 <= n
      OBVIOUS
    <3> QED
      BY <1>5, <2>1, <3>1 DEF cut
  <2>3. r \in XmlRecord /\ r.num = k
    BY <2>1, <2>2 DEF XmlRecord
  <2> HIDE DEF r, cut
  <2>4. /\ Append(whole, r) \in Seq(XmlRecord)
        /\ DOMAIN Append(whole, r) = 1 .. i + 1
        /\ \A j \in 1 .. i : Append(whole, r)[j] = whole[j]
        /\ Append(whole, r)[i + 1] = r
    BY <1>2, <1>3, <2>3
  <2>5. r.num < nums
    BY <2>1, <2>2, <2>3
  <2>6. \A j \in 1 .. i + 1 : Append(whole, r)[j].num < nums
    BY <1>1, <1>2, <1>3, <2>4, <2>5
  <2>7. SoundXml(Append(whole, r), nums)
    BY <2>4, <2>6 DEF SoundXml
  <2> QED
    BY <2>7 DEF r
<1>6. \/ left = whole
      \/ \E k \in {0, text[i + 1].num \div 10, text[i + 1].num} :
            left = Append(whole, [text[i + 1] EXCEPT !.num = k])
  BY DEF CutAfter, whole
<1> QED
  BY <1>4, <1>5, <1>6

LEMMA TornIsSound ==
  ASSUME NEW text, NEW nums \in Nat, SoundXml(text, nums),
         NEW left \in Torn(text) \cup Short(text)
  PROVE  SoundXml(left, nums)
<1>1. text \in Seq(XmlRecord) /\ Len(text) \in Nat
  BY DEF SoundXml
<1>2. CASE left = <<>>
  BY <1>2, EmptyXml
<1>3. ASSUME NEW i \in 0 .. Len(text) - 1, left \in CutAfter(text, i)
      PROVE  SoundXml(left, nums)
  BY <1>3, CutIsSound
<1>4. ASSUME left \in Torn(text), left # <<>>
      PROVE  \E i \in 0 .. Len(text) - 1 : left \in CutAfter(text, i)
  <2>1. PICK i \in 1 .. Len(text) - 1 : left \in CutAfter(text, i)
    BY <1>4 DEF Torn
  <2> QED
    BY <1>1, <2>1
<1>5. ASSUME left \in Short(text), left # <<>>
      PROVE  \E i \in 0 .. Len(text) - 1 : left \in CutAfter(text, i)
  <2>1. PICK j \in 1 .. Len(text) : left \in CutAfter(text, j - 1)
    BY <1>5 DEF Short
  <2>2. j - 1 \in 0 .. Len(text) - 1
    BY <1>1
  <2> QED
    BY <2>1, <2>2
<1> QED
  BY <1>2, <1>3, <1>4, <1>5

-----------------------------------------------------------------------------
(* What the calls add to the index.                                         *)

\* The record that is added.
Added(m, place, n) == [at |-> place, name |-> n, num |-> m.next]

LEMMA AddFileIs ==
  ASSUME NEW m, NEW nums \in Nat, SoundStorage(m, nums), m.next < nums,
         NEW place, NEW n, Added(m, place, n) \in FileRecord,
         n.of \in Name => place = LibLevel
  PROVE  /\ SoundStorage(AddFile(m, place, n), nums)
         /\ AddFile(m, place, n).files = Append(m.files, Added(m, place, n))
         /\ AddFile(m, place, n).next = m.next + 1
<1> DEFINE r == Added(m, place, n)
           files == Append(m.files, r)
           next == m.next + 1
           k == AddFile(m, place, n)
<1>1. /\ m \in LibStorage /\ m.files \in Seq(FileRecord) /\ m.next \in Nat
      /\ Len(m.files) \in Nat /\ DOMAIN m.files = 1 .. Len(m.files)
      /\ \A i \in DOMAIN m.files : m.files[i].num \in Nat
  BY StorageIs DEF SoundStorage
<1>2. r.at = place /\ r.name = n /\ r.num = m.next
  BY DEF Added
<1>3. k = [m EXCEPT !.files = files, !.next = next]
  BY DEF AddFile, Added
<1> HIDE DEF r
<1> DEFINE last == Len(m.files) + 1
<1>4. /\ files \in Seq(FileRecord)
      /\ DOMAIN files = DOMAIN m.files \cup {last}
      /\ files[last] = r
      /\ \A i \in DOMAIN m.files : files[i] = m.files[i]
  <2>1. r \in FileRecord
    BY DEF r
  <2>2. /\ files \in Seq(FileRecord) /\ Len(files) = last
        /\ files[last] = r
        /\ \A i \in 1 .. Len(m.files) : files[i] = m.files[i]
    BY <1>1, <2>1
  <2>3. DOMAIN files = 1 .. last
    BY <2>2
  <2>4. 1 .. last = (1 .. Len(m.files)) \cup {last}
    BY <1>1
  <2> QED
    BY <1>1, <2>2, <2>3, <2>4
<1>5. next \in Nat /\ next > m.next
  BY <1>1
<1> HIDE DEF files, next, k, last
<1>6. k \in LibStorage /\ k.files = files /\ k.next = next
  <2>1. ASSUME NEW C, NEW V, NEW B, NEW f \in Seq(FileRecord), NEW e \in Nat,
               NEW s \in [files : Seq(FileRecord), cells : C, views : V,
                          cvs : B, next : Nat]
        PROVE  /\ [s EXCEPT !.files = f, !.next = e]
                      \in [files : Seq(FileRecord), cells : C, views : V,
                           cvs : B, next : Nat]
               /\ [s EXCEPT !.files = f, !.next = e].files = f
               /\ [s EXCEPT !.files = f, !.next = e].next = e
    OBVIOUS
  <2> QED
    BY <1>1, <1>3, <1>4, <1>5, <2>1 DEF LibStorage
<1>7. ASSUME NEW i \in DOMAIN files
      PROVE  /\ files[i].num < next /\ files[i].num < nums
             /\ files[i].name.of \in Name => files[i].at = LibLevel
  <2>1. CASE i \in DOMAIN m.files
    <3>1. /\ m.files[i].num < m.next /\ m.files[i].num < nums
          /\ m.files[i].name.of \in Name => m.files[i].at = LibLevel
      BY <2>1 DEF SoundStorage
    <3>2. m.files[i].num < next
      BY <1>1, <1>5, <2>1, <3>1
    <3> QED
      BY <1>4, <2>1, <3>1, <3>2
  <2>2. CASE i = last
    <3>1. files[i].num = m.next /\ files[i].name = n /\ files[i].at = place
      BY <1>2, <1>4, <2>2
    <3> QED
      BY <1>5, <3>1
  <2> QED
    BY <1>4, <2>1, <2>2
<1>8. SoundStorage(k, nums)
  BY <1>6, <1>7 DEF SoundStorage
<1> QED
  BY <1>6, <1>8 DEF k, files, r, next

LEMMA AddOnceIs == ASSUME NEW S, NEW seq \in Seq(S), NEW x \in S
                   PROVE  AddOnce(seq, x) \in Seq(S)
  BY DEF AddOnce

\* A cell, a view or a cell view more has the same files.
LEMMA AddParentIs ==
  ASSUME NEW m, NEW nums, SoundStorage(m, nums), NEW k,
         \/ \E c \in Cell : k = AddCell(m, c)
         \/ \E v \in View : k = AddView(m, v)
         \/ \E c \in Cell, v \in View : k = AddCellView(m, c, v)
  PROVE  SoundStorage(k, nums) /\ k.files = m.files /\ k.next = m.next
<1> DEFINE F == Seq(FileRecord)
           C == Seq(Cell)
           V == Seq(View)
           B == Seq(Cell \X View)
           R == [files : F, cells : C, views : V, cvs : B, next : Nat]
<1>1. R = LibStorage
  BY DEF LibStorage
<1>2. m \in R
  BY <1>1 DEF SoundStorage
<1>3. m.cells \in C /\ m.views \in V /\ m.cvs \in B
  BY <1>2
<1> HIDE DEF F
<1>4. ASSUME NEW c \in Cell, NEW p, p = AddCell(m, c)
      PROVE  p \in R /\ p.files = m.files /\ p.next = m.next
  <2> DEFINE cs == AddOnce(m.cells, c)
  <2>1. cs \in C
    BY <1>3, AddOnceIs
  <2>2. p = [m EXCEPT !.cells = cs]
    BY <1>4 DEF AddCell
  <2> HIDE DEF cs, C, V, B
  <2> QED
    BY <1>2, <2>1, <2>2
<1>5. ASSUME NEW v \in View, k = AddView(m, v)
      PROVE  k \in R /\ k.files = m.files /\ k.next = m.next
  <2> DEFINE vs == AddOnce(m.views, v)
  <2>1. vs \in V
    BY <1>3, AddOnceIs
  <2>2. k = [m EXCEPT !.views = vs]
    BY <1>5 DEF AddView
  <2> HIDE DEF vs, C, V, B
  <2> QED
    BY <1>2, <2>1, <2>2
<1>6. ASSUME NEW c \in Cell, NEW v \in View, k = AddCellView(m, c, v)
      PROVE  k \in R /\ k.files = m.files /\ k.next = m.next
  <2> DEFINE p == AddCell(m, c)
             bs == AddOnce(p.cvs, <<c, v>>)
  <2>1. p \in R /\ p.files = m.files /\ p.next = m.next
    BY <1>4
  <2>2. k = [p EXCEPT !.cvs = bs]
    BY <1>6 DEF AddCellView
  <2> HIDE DEF p
  <2>3. bs \in B
    <3>1. <<c, v>> \in Cell \X View
      OBVIOUS
    <3>2. p.cvs \in B
      BY <2>1
    <3> QED
      BY <3>1, <3>2, AddOnceIs
  <2> HIDE DEF bs, C, V, B
  <2> QED
    BY <2>1, <2>2, <2>3
<1>7. k \in R /\ k.files = m.files /\ k.next = m.next
  BY <1>4, <1>5, <1>6
<1> QED
  BY <1>1, <1>7 DEF SoundStorage

\* What one more file is to those who look for names and numbers.
LEMMA AppendFile ==
  ASSUME NEW m, NEW k, NEW nums, SoundStorage(m, nums), SoundStorage(k, nums),
         NEW r \in FileRecord, k.files = Append(m.files, r)
  PROVE  /\ Recs(k) = Recs(m) \cup {<<r.num, r.name.of>>}
         /\ \A n \in Plain : Knows(m, Named(n)) =>
               /\ Knows(k, Named(n))
               /\ FindFile(k, Named(n)) = FindFile(m, Named(n))
         /\ \A n \in Plain : ~Knows(m, Named(n)) =>
               /\ Knows(k, Named(n)) <=> r.name = Named(n)
               /\ r.name = Named(n) => FindFile(k, Named(n)) = r.num
<1> DEFINE last == Len(m.files) + 1
<1>1. /\ m.files \in Seq(FileRecord) /\ Len(m.files) \in Nat
      /\ DOMAIN m.files = 1 .. Len(m.files)
  BY StorageIs DEF SoundStorage
<1>2. /\ DOMAIN k.files = DOMAIN m.files \cup {last}
      /\ k.files[last] = r
      /\ \A i \in DOMAIN m.files : k.files[i] = m.files[i]
      /\ last \in Nat /\ \A i \in DOMAIN m.files : i \in Nat /\ i < last
  BY <1>1
<1> HIDE DEF last
<1>3. Recs(k) = Recs(m) \cup {<<r.num, r.name.of>>}
  <2> DEFINE P(s) == <<s.num, s.name.of>>
  <2>1. /\ Recs(k) = {P(k.files[i]) : i \in DOMAIN k.files}
        /\ Recs(m) = {P(m.files[i]) : i \in DOMAIN m.files}
    BY DEF Recs
  <2> HIDE DEF P
  <2>2. Recs(k) = Recs(m) \cup {P(r)}
    BY <1>2, <2>1
  <2> QED
    BY <2>2 DEF P
<1>4. ASSUME NEW n \in Plain
      PROVE  Hits(k, Named(n)) = Hits(m, Named(n))
                 \cup IF r.name = Named(n) THEN {last} ELSE {}
  BY <1>2 DEF Hits
<1>5. ASSUME NEW n \in Plain, Knows(m, Named(n))
      PROVE  /\ Knows(k, Named(n))
             /\ FindFile(k, Named(n)) = FindFile(m, Named(n))
  <2>1. PICK i : Least(m, n, i)
    BY <1>5, FindsFirst
  <2>2. i \in DOMAIN m.files /\ i \in Nat /\ i < last
    <3>1. i \in Hits(m, Named(n))
      BY <2>1 DEF Least
    <3>2. i \in DOMAIN m.files
      BY <3>1 DEF Hits
    <3> QED
      BY <1>2, <3>2
  <2>3. Least(k, n, i)
    <3> DEFINE H == Hits(m, Named(n))
               K == Hits(k, Named(n))
    <3>1. i \in H /\ \A j \in H : i <= j
      BY <2>1 DEF Least
    <3>2. H \subseteq K /\ K \subseteq H \cup {last}
      BY <1>4
    <3> HIDE DEF H, K
    <3>3. i \in K /\ \A j \in K : i <= j
      BY <1>2, <2>2, <3>1, <3>2
    <3> QED
      BY <3>3 DEF Least, K
  <2>4. /\ FindFile(m, Named(n)) = m.files[i].num
        /\ FindFile(k, Named(n)) = k.files[i].num
        /\ Knows(k, Named(n))
    BY <2>1, <2>3, FindsFirst
  <2> QED
    BY <1>2, <2>2, <2>4
<1>6. ASSUME NEW n \in Plain, ~Knows(m, Named(n))
      PROVE  /\ Knows(k, Named(n)) <=> r.name = Named(n)
             /\ r.name = Named(n) => FindFile(k, Named(n)) = r.num
  <2>1. Hits(m, Named(n)) = {}
    BY <1>6 DEF Knows
  <2>2. CASE r.name # Named(n)
    BY <1>4, <2>1, <2>2 DEF Knows
  <2>3. CASE r.name = Named(n)
    <3>1. Hits(k, Named(n)) = {last}
      BY <1>4, <2>1, <2>3
    <3>2. Least(k, n, last)
      BY <1>2, <3>1 DEF Least
    <3>3. Knows(k, Named(n)) /\ FindFile(k, Named(n)) = k.files[last].num
      BY <3>2, FindsFirst
    <3> QED
      BY <1>2, <2>3, <3>3
  <2> QED
    BY <2>2, <2>3
<1> QED
  BY <1>3, <1>5, <1>6

LEMMA AppendKeepsCatalog ==
  ASSUME NEW m, NEW k, NEW nums, SoundStorage(m, nums), SoundStorage(k, nums),
         NEW r \in FileRecord, k.files = Append(m.files, r),
         \A n \in Plain : r.name = Named(n) => Knows(m, Named(n))
  PROVE  CatalogOf(k) = CatalogOf(m)
<1>1. \A n \in Plain : /\ Knows(k, Named(n)) <=> Knows(m, Named(n))
                       /\ Knows(m, Named(n)) =>
                             FindFile(k, Named(n)) = FindFile(m, Named(n))
  BY AppendFile
<1> QED
  BY <1>1 DEF CatalogOf

\* Without a new file, nothing is found elsewhere.
LEMMA SameFilesSame ==
  ASSUME NEW m, NEW k, NEW nums, SoundStorage(m, nums), SoundStorage(k, nums),
         k.files = m.files
  PROVE  SameFiles(k, m)
<1>1. Recs(k) = Recs(m)
  BY DEF Recs
<1>2. \A n \in Plain : /\ Knows(k, Named(n)) <=> Knows(m, Named(n))
                       /\ \A i : Least(k, n, i) <=> Least(m, n, i)
  BY DEF Hits, Knows, Least
<1>3. ASSUME NEW n \in Plain, Knows(m, Named(n))
      PROVE  FindFile(k, Named(n)) = FindFile(m, Named(n))
  <2>1. PICK i : Least(m, n, i) /\ Least(k, n, i)
    BY <1>2, <1>3, FindsFirst
  <2>2. /\ FindFile(m, Named(n)) = m.files[i].num
        /\ FindFile(k, Named(n)) = k.files[i].num
    BY <2>1, FindsFirst
  <2> QED
    BY <2>2
<1>4. CatalogOf(k) = CatalogOf(m)
  BY <1>2, <1>3 DEF CatalogOf
<1> QED
  BY <1>1, <1>4 DEF SameFiles

-----------------------------------------------------------------------------
(* The data files.                                                          *)

\* The data file of a number is empty now, or as it was, like all others.
MayEmpty(now, files, k) ==
    /\ DOMAIN now = DOMAIN files
    /\ now[k] \in {files[k], Empty}
    /\ \A i \in DOMAIN files : i # k => now[i] = files[i]

\* A number that nobody has.
Free(k, recs, files) ==
    /\ k \in DOMAIN files
    /\ \A p \in recs : p[1] # k /\ p[1] \in DOMAIN files

\* A number that is given out has no data file yet.
LEMMA GrowKeepsData ==
  ASSUME NEW recs, NEW files, DataOK(recs, files), NEW q, NEW now,
         Free(q[1], recs, files), MayEmpty(now, files, q[1])
  PROVE  DataOK(recs \cup {q}, now)
<1>1. files[q[1]] = Absent
  BY DEF DataOK, Free
<1>2. /\ DOMAIN now = DOMAIN files /\ now[q[1]] \in {Absent, Empty}
      /\ \A i \in DOMAIN files : i # q[1] => now[i] = files[i]
  BY <1>1 DEF MayEmpty
<1>3. \A p \in recs : p[1] # q[1] /\ now[p[1]] = files[p[1]]
  BY <1>2 DEF Free
<1> QED
  BY <1>2, <1>3 DEF DataOK

LEMMA WriteKeepsData ==
  ASSUME NEW recs, NEW files, DataOK(recs, files), NEW k \in DOMAIN files,
         NEW p \in recs, p[1] = k
  PROVE  DataOK(recs, [files EXCEPT ![k] = p[2]])
<1> DEFINE now == [files EXCEPT ![k] = p[2]]
<1>1. \A q \in recs : \/ q[1] = k /\ q[2] = p[2] /\ now[q[1]] = p[2]
                      \/ q[1] # k /\ now[q[1]] = files[q[1]]
  BY DEF DataOK
<1>2. /\ DOMAIN now = DOMAIN files
      /\ \A i \in DOMAIN files : i # k => now[i] = files[i]
  OBVIOUS
<1> HIDE DEF now
<1>3. DataOK(recs, now)
  BY <1>1, <1>2 DEF DataOK
<1> QED
  BY <1>3 DEF now

-----------------------------------------------------------------------------
(* What each step does to the sessions, lib.xml and the index.              *)

LEMMA SessionFacts ==
  ASSUME SerialUse, SessionInv
  PROVE  /\ setting \in Settings
         /\ setting.nums \in Nat /\ setting.nums <= Limit
         /\ OneOpen(mem)
         /\ SoundStorage(Index, setting.nums)
         /\ \A s \in Session : mem[s] # NoLib => Index = mem[s]
         /\ (\A s \in Session : mem[s] = NoLib) => Index = StoredIn(xml)
<1>1. setting \in Settings /\ OneOpen(mem)
  BY DEF SessionInv, OneOpen
<1>2. setting.nums \in Nat /\ setting.nums <= Limit
  BY <1>1, BoundIs
<1>3. Index = IndexIn(mem, xml)
  BY IndexIsIndexIn
<1>4. SoundStorage(IndexIn(mem, xml), setting.nums)
  BY <1>1, <1>2, IndexIsSound DEF SessionInv
<1> QED
  BY <1>1, <1>2, <1>3, <1>4, IndexIs

LEMMA NextIndex == Index' = IndexIn(mem', xml')
  BY DEF Index, IndexIn, StoredIn

\* What Rewrite and FOpen do: lib.xml is emptied, or stays as it was.
Writes(s, why) == \/ FOpen(s, why)
                  \/ torn' = TRUE /\ UNCHANGED <<xml, writing>>

LEMMA RewriteIs == ASSUME NEW s, Rewrite(s)
                   PROVE  Writes(s, "change")
  BY DEF Rewrite, Writes

\* A session has changed its index and writes lib.xml, or fails to.
LEMMA ChangeStep ==
  ASSUME SerialUse, SessionInv, NEW s \in Session, mem[s] # NoLib,
         writing[s] = "no", NEW m, SoundStorage(m, setting.nums),
         mem' = [mem EXCEPT ![s] = m], NEW why \in {"change", "close"},
         Writes(s, why), UNCHANGED setting
  PROVE  SessionInv' /\ Index = mem[s] /\ Index' = m
<1>1. mem \in [Session -> LibStorage \cup {NoLib}]
      /\ writing \in [Session -> {"no", "change", "close"}]
  BY DEF SessionInv
<1>2. m \in LibStorage /\ m # NoLib
  BY SoundIsOpen
<1>3. \A t \in Session : t # s => mem[t] = NoLib /\ writing[t] = "no"
  BY DEF SessionInv
<1>4. /\ mem' \in [Session -> LibStorage \cup {NoLib}]
      /\ mem'[s] = m /\ \A t \in Session : t # s => mem'[t] = NoLib
  BY <1>1, <1>2, <1>3
<1>5. /\ writing' \in [Session -> {"no", "change", "close"}]
      /\ \A t \in Session : t # s => writing'[t] = "no"
      /\ \/ xml' = <<>>
         \/ xml' = xml /\ writing'[s] = "no"
      /\ torn' = TRUE
  BY <1>1, <1>3 DEF Writes, FOpen
<1>6. SessionInv'
  <2>1. (xml # NoXml => SoundXml(xml, setting.nums))'
    BY <1>5, EmptyXml DEF SessionInv
  <2>2. \A t \in Session :
            mem'[t] # NoLib => SoundStorage(mem'[t], setting'.nums)
    BY <1>4
  <2>3. \A t, u \in Session : mem'[t] # NoLib /\ mem'[u] # NoLib => t = u
    BY <1>4
  <2>4. \A t \in Session : writing'[t] # "no" =>
                               mem'[t] # NoLib /\ xml' = <<>> /\ torn'
    BY <1>2, <1>4, <1>5
  <2>5. setting' \in Settings /\ torn' \in BOOLEAN
    BY <1>5 DEF SessionInv
  <2> QED
    BY <1>4, <1>5, <2>1, <2>2, <2>3, <2>4, <2>5 DEF SessionInv
<1>7. Index' = m
  <2>1. OneOpen(mem')
    BY <1>4 DEF OneOpen
  <2> QED
    BY <1>2, <1>4, <2>1, IndexIs, NextIndex
<1>8. Index = mem[s]
  BY SessionFacts
<1> QED
  BY <1>6, <1>7, <1>8

\* A session opens what is in lib.xml, or cannot read it.
Opens(k) ==
    \/ k = StoredIn(xml) /\ UNCHANGED <<torn, breaks>>
    \/ k = NewStorage /\ torn' = TRUE /\ breaks' = Broken(breaks)

LEMMA OpenStep ==
  ASSUME SerialUse, SessionInv, NEW s \in Session,
         LibPreCreate(s) \/ LibPreOpen(s)
  PROVE  /\ SessionInv'
         /\ \/ Index' = Index /\ breaks' = breaks
            \/ breaks' = Broken(breaks)
<1>1. \A t \in Session : mem[t] = NoLib
  BY DEF LibPreCreate, LibPreOpen, Alone, SerialUse
<1>2. UNCHANGED <<xml, writing, setting>>
  BY DEF LibPreCreate, LibPreOpen
<1>3. PICK k : mem' = [mem EXCEPT ![s] = k] /\ Opens(k)
  <2>1. CASE LibPreCreate(s)
    BY <2>1 DEF LibPreCreate, StoredIn, Opens
  <2>2. CASE LibPreOpen(s)
    BY <2>2 DEF LibPreOpen, StoredIn, Opens
  <2> QED
    BY <2>1, <2>2
<1>4. Index = StoredIn(xml) /\ SoundStorage(k, setting.nums)
  BY <1>1, <1>3, SessionFacts, NewIsSound DEF Opens
<1>5. k \in LibStorage /\ k # NoLib
  BY <1>4, SoundIsOpen
<1>6. mem \in [Session -> LibStorage \cup {NoLib}]
  BY DEF SessionInv
<1>7. /\ mem' \in [Session -> LibStorage \cup {NoLib}]
      /\ mem'[s] = k /\ \A t \in Session : t # s => mem'[t] = NoLib
  BY <1>1, <1>3, <1>5, <1>6
<1>8. Index' = k
  <2>1. OneOpen(mem')
    BY <1>7 DEF OneOpen
  <2> QED
    BY <1>5, <1>7, <2>1, IndexIs, NextIndex
<1>9. \A t \in Session : writing'[t] = "no"
  BY <1>1, <1>2 DEF SessionInv
<1>10. SessionInv'
  <2>1. (xml # NoXml => SoundXml(xml, setting.nums))'
    BY <1>2 DEF SessionInv
  <2>2. \A t \in Session :
            mem'[t] # NoLib => SoundStorage(mem'[t], setting'.nums)
    BY <1>2, <1>4, <1>7
  <2>3. \A t, u \in Session : mem'[t] # NoLib /\ mem'[u] # NoLib => t = u
    BY <1>7
  <2>4. ~torn' => \A t \in Session :
            mem'[t] # NoLib => SameFiles(mem'[t], StoredIn(xml'))
    BY <1>2, <1>3, <1>7, SameIsSame DEF Opens
  <2>5. /\ setting' \in Settings /\ torn' \in BOOLEAN
        /\ writing' \in [Session -> {"no", "change", "close"}]
    BY <1>2, <1>3 DEF SessionInv, Opens
  <2> QED
    BY <1>7, <1>9, <2>1, <2>2, <2>3, <2>4, <2>5 DEF SessionInv
<1> QED
  BY <1>3, <1>4, <1>8, <1>10 DEF Opens

\* lib.xml is filled, or only a part of it.
LEMMA CloseStep ==
  ASSUME SerialUse, SessionInv, NEW s \in Session, FClose(s)
  PROVE  /\ SessionInv'
         /\ \/ SameFiles(Index', Index) /\ breaks' = breaks
            \/ breaks' = Broken(breaks)
<1> DEFINE t == Text(mem[s])
           nums == setting.nums
<1>1. /\ mem[s] # NoLib /\ xml = <<>> /\ SoundStorage(mem[s], nums)
      /\ \A u \in Session : u # s => mem[u] = NoLib /\ writing[u] = "no"
  BY DEF FClose, SessionInv
<1>2. nums \in Nat /\ nums <= Limit /\ Index = mem[s]
  BY <1>1, SessionFacts
<1>3. SoundXml(t, nums) /\ SameFiles(LoadLibXml(t), mem[s])
  BY <1>1, <1>2, TextIs, ReloadKeeps
<1>4. t # NoXml
  BY <1>3, StorageAssumption DEF SoundXml
<1>5. \A left : SoundXml(left, nums) => Over(left, xml) = left
  BY <1>1, OverEmpty DEF SoundXml
<1>6. \/ xml' = t /\ torn' = FALSE /\ breaks' = breaks
      \/ /\ SoundXml(xml', nums) /\ torn' = (writing[s] # "close")
         /\ breaks' = IF writing[s] = "close" THEN Broken(breaks) ELSE breaks
  <2>1. CASE xml' = Over(t, xml) /\ torn' = FALSE /\ breaks' = breaks
    BY <1>3, <1>5, <2>1
  <2>2. CASE /\ \E left \in Short(t) : xml' = Over(left, xml)
             /\ torn' = (writing[s] # "close")
             /\ breaks' = IF writing[s] = "close" THEN Broken(breaks) ELSE breaks
    BY <1>2, <1>3, <1>5, <2>2, TornIsSound
  <2> QED
    BY <2>1, <2>2 DEF FClose
<1> HIDE DEF t, nums
<1>7. mem \in [Session -> LibStorage \cup {NoLib}]
      /\ writing \in [Session -> {"no", "change", "close"}]
  BY DEF SessionInv
<1>8. /\ mem' = [mem EXCEPT ![s] = IF writing[s] = "close" THEN NoLib
                                   ELSE mem[s]]
      /\ writing' = [writing EXCEPT ![s] = "no"]
      /\ setting' = setting
  BY DEF FClose
<1>9. /\ mem' \in [Session -> LibStorage \cup {NoLib}]
      /\ \A u \in Session : u # s => mem'[u] = NoLib
      /\ mem'[s] = IF writing[s] = "close" THEN NoLib ELSE mem[s]
      /\ writing' \in [Session -> {"no", "change", "close"}]
      /\ \A u \in Session : writing'[u] = "no"
  BY <1>1, <1>7, <1>8
<1>10. SessionInv'
  <2>1. (xml # NoXml => SoundXml(xml, setting.nums))'
    BY <1>3, <1>6, <1>8 DEF nums
  <2>2. \A u \in Session :
            mem'[u] # NoLib => SoundStorage(mem'[u], setting'.nums)
    BY <1>1, <1>8, <1>9 DEF nums
  <2>3. \A u, v \in Session : mem'[u] # NoLib /\ mem'[v] # NoLib => u = v
    BY <1>9
  <2>4. ~torn' => \A u \in Session :
            mem'[u] # NoLib => SameFiles(mem'[u], StoredIn(xml'))
    <3>1. CASE writing[s] = "close"
      BY <1>9, <3>1
    <3>2. CASE writing[s] # "close"
      BY <1>3, <1>4, <1>6, <1>9, <3>2, SameIsSame DEF StoredIn
    <3> QED
      BY <3>1, <3>2
  <2>5. setting' \in Settings /\ torn' \in BOOLEAN
    BY <1>6, <1>8 DEF SessionInv
  <2> QED
    BY <1>9, <2>1, <2>2, <2>3, <2>4, <2>5 DEF SessionInv
<1>11. OneOpen(mem')
  BY <1>9 DEF OneOpen
<1>12. CASE writing[s] # "close"
  <2>1. Index' = mem[s]
    BY <1>1, <1>9, <1>11, <1>12, IndexIs, NextIndex
  <2> QED
    BY <1>2, <1>6, <1>10, <1>12, <2>1, SameIsSame
<1>13. CASE writing[s] = "close" /\ xml' = t /\ breaks' = breaks
  <2>1. \A u \in Session : mem'[u] = NoLib
    BY <1>9, <1>13
  <2>2. Index' = LoadLibXml(t)
    BY <1>4, <1>11, <1>13, <2>1, IndexIs, NextIndex DEF StoredIn
  <2> QED
    BY <1>2, <1>3, <1>10, <1>13, <2>2
<1> QED
  BY <1>6, <1>10, <1>12, <1>13

\* A process dies, or closes the library without writing: what is not torn
\* stays.
LEMMA CrashStep ==
  ASSUME SerialUse, SessionInv, NEW s \in Session, mem[s] # NoLib,
         \/ Crash(s)
         \/ writing[s] = "no" /\ GiveUp(s)
  PROVE  /\ SessionInv'
         /\ ~torn => SameFiles(Index', Index) /\ breaks' = breaks
         /\ torn => breaks' = Broken(breaks)
<1> DEFINE nums == setting.nums
<1>1. /\ SoundStorage(mem[s], nums)
      /\ \A u \in Session : u # s => mem[u] = NoLib /\ writing[u] = "no"
  BY DEF SessionInv
<1>2. nums \in Nat /\ nums <= Limit /\ Index = mem[s]
  BY SessionFacts
<1>3. /\ mem \in [Session -> LibStorage \cup {NoLib}]
      /\ writing \in [Session -> {"no", "change", "close"}]
  BY DEF SessionInv
<1>4. /\ mem' = [mem EXCEPT ![s] = NoLib]
      /\ writing' = [writing EXCEPT ![s] = "no"]
      /\ torn' = FALSE /\ setting' = setting
      /\ breaks' = IF torn THEN Broken(breaks) ELSE breaks
  <2>1. writing[s] = "no" => writing = [writing EXCEPT ![s] = "no"]
    BY <1>3
  <2> QED
    BY <2>1 DEF Crash, GiveUp
<1>5. writing[s] = "no" => xml' = xml
  BY DEF Crash, GiveUp
<1>6. xml' # NoXml => SoundXml(xml', nums)
  <2>1. CASE writing[s] = "no"
    BY <1>5, <2>1 DEF SessionInv
  <2>2. CASE writing[s] # "no"
    <3>1. xml = <<>>
      BY <2>2 DEF SessionInv
    <3>2. PICK left \in Torn(Text(mem[s])) : xml' = Over(left, xml)
      BY <2>2 DEF Crash
    <3>3. SoundXml(Text(mem[s]), nums)
      BY <1>1, TextIs
    <3>4. SoundXml(left, nums)
      BY <1>2, <3>3, TornIsSound
    <3>5. Over(left, <<>>) = left
      BY <3>4, OverEmpty DEF SoundXml
    <3> QED
      BY <3>1, <3>2, <3>4, <3>5
  <2> QED
    BY <2>1, <2>2
<1> HIDE DEF nums
<1>7. /\ mem' \in [Session -> LibStorage \cup {NoLib}]
      /\ \A u \in Session : mem'[u] = NoLib
      /\ writing' \in [Session -> {"no", "change", "close"}]
      /\ \A u \in Session : writing'[u] = "no"
  BY <1>1, <1>3, <1>4
<1>8. SessionInv'
  <2>1. (xml # NoXml => SoundXml(xml, setting.nums))'
    BY <1>4, <1>6 DEF nums
  <2>2. setting' \in Settings /\ torn' \in BOOLEAN
    BY <1>4 DEF SessionInv
  <2> QED
    BY <1>7, <2>1, <2>2 DEF SessionInv
<1>9. ASSUME ~torn
      PROVE  SameFiles(Index', Index)
  <2>1. writing[s] = "no" /\ SameFiles(mem[s], StoredIn(xml))
    BY <1>9 DEF SessionInv
  <2>2. OneOpen(mem')
    BY <1>7 DEF OneOpen
  <2>3. Index' = StoredIn(xml)
    BY <1>5, <1>7, <2>1, <2>2, IndexIs, NextIndex
  <2> QED
    BY <1>2, <2>1, <2>3, SameIsSame
<1> QED
  BY <1>4, <1>8, <1>9

\* The server overwrites lib.xml: a session that is open has all that there was.
LEMMA OverwriteStep ==
  ASSUME SessionInv, xml' = <<>>,
         torn' = \E s \in Session : mem[s] # NoLib,
         UNCHANGED <<mem, writing, setting>>
  PROVE  SessionInv' /\ (torn' => Index' = Index)
<1>1. (xml # NoXml => SoundXml(xml, setting.nums))'
  BY EmptyXml
<1>2. \A s \in Session : writing[s] # "no" => mem[s] # NoLib
  BY DEF SessionInv
<1>3. torn' \in BOOLEAN /\ (~torn' => \A s \in Session : mem[s] = NoLib)
  OBVIOUS
<1>4. torn' => Index' = Index
  BY DEF Index
<1>5. SessionInv'
  BY <1>1, <1>2, <1>3 DEF SessionInv
<1> QED
  BY <1>4, <1>5

\* The other steps.
LEMMA IdleStep ==
  ASSUME SessionInv, UNCHANGED <<xml, torn, mem, writing, setting>>
  PROVE  SessionInv' /\ Index' = Index
<1>1. SessionInv'
  BY DEF SessionInv
<1>2. Index' = Index
  BY NextIndex, IndexIsIndexIn
<1> QED
  BY <1>1, <1>2

-----------------------------------------------------------------------------
(* The data files, over every step.                                         *)

\* Recs, seen from the numbers.
LEMMA RecsAre ==
  ASSUME NEW m, NEW nums, SoundStorage(m, nums), NEW p \in Recs(m)
  PROVE  p[1] \in Nat /\ p[1] < m.next /\ p[1] < nums
<1>1. PICK i \in DOMAIN m.files : p = <<m.files[i].num, m.files[i].name.of>>
  BY DEF Recs
<1>2. p[1] = m.files[i].num
  BY <1>1
<1>3. m.files[i].num \in Nat
  BY StorageIs DEF SoundStorage
<1> QED
  BY <1>2, <1>3 DEF SoundStorage

\* The next number is free.
LEMMA NextIsFree ==
  ASSUME NEW m, NEW nums \in Nat, NEW files, SoundStorage(m, nums),
         m.next < nums, DOMAIN files = 0 .. nums - 1
  PROVE  Free(m.next, Recs(m), files)
<1>1. m.next \in Nat
  BY StorageIs DEF SoundStorage
<1> QED
  BY <1>1, RecsAre DEF Free

\* A file is added, and an empty data file may be.
LEMMA AddKeepsData ==
  ASSUME NEW m, NEW k, NEW nums, NEW files, NEW now,
         SoundStorage(m, nums), SoundStorage(k, nums), DataOK(Recs(m), files),
         NEW r \in FileRecord, k.files = Append(m.files, r),
         Free(r.num, Recs(m), files), MayEmpty(now, files, r.num)
  PROVE  DataOK(Recs(k), now)
<1> DEFINE q == <<r.num, r.name.of>>
<1>1. Recs(k) = Recs(m) \cup {q}
  BY AppendFile
<1>2. q[1] = r.num
  OBVIOUS
<1> HIDE DEF q
<1>3. DataOK(Recs(m) \cup {q}, now)
  BY <1>2, GrowKeepsData
<1> QED
  BY <1>1, <1>3

\* What CellCreate, ViewCreate, CellViewCreate and FileCreate make of an index.
NewCell(m, c) == AddFile(AddCell(m, c), <<"cell", c>>, Named("DMData"))

NewView(m, v) == AddFile(AddView(m, v), <<"view", v>>, Named("DMData"))

NewCellView(m, c, v) ==
    LET place == <<"cellview", <<c, v>>>>
    IN  AddFile(AddFile(AddCellView(m, c, v), place, Named("DMData")),
                place, Named("netlist"))

NewFile(m, n) == AddFile(m, LibLevel, Named(n))

LEMMA NamesAre ==
  /\ \A x \in Name \cup Own : Named(x) \in FileName /\ Named(x).of = x
  /\ \A x, y : Named(x) = Named(y) => x = y
  /\ "DMData" \notin Name /\ "netlist" \notin Name
  /\ "DMData" \in Own /\ "netlist" \in Own
<1>1. "DMData" \in Own /\ "netlist" \in Own /\ Own \cap Name = {}
  BY StorageAssumption DEF Own
<1>2. \A x : Named(x).of = x
  BY DEF Named
<1>3. \A x, y : Named(x) = Named(y) => x = y
  BY <1>2
<1>4. \A x \in Name \cup Own : Named(x) \in FileName
  BY DEF Named, FileName
<1> QED
  BY <1>1, <1>2, <1>3, <1>4

\* An index with one more file.
Extends(k, m, place, n) ==
    /\ Added(m, place, n) \in FileRecord
    /\ k.files = Append(m.files, Added(m, place, n))
    /\ k.next = m.next + 1

\* addFile makes such an index.
LEMMA ExtendsIs ==
  ASSUME NEW m, NEW nums \in Nat, SoundStorage(m, nums), m.next < nums,
         NEW place, NEW x \in Name \cup Own, x \in Name => place = LibLevel,
         place \in {<<"lib">>} \cup {"cell"} \X Cell \cup {"view"} \X View
                       \cup {"cellview"} \X (Cell \X View)
  PROVE  /\ SoundStorage(AddFile(m, place, Named(x)), nums)
         /\ Extends(AddFile(m, place, Named(x)), m, place, Named(x))
<1>1. m.next \in Nat
  BY StorageIs DEF SoundStorage
<1>2. Named(x) \in FileName /\ Named(x).of = x
  BY NamesAre
<1>3. Added(m, place, Named(x)) \in FileRecord
  BY <1>1, <1>2 DEF Added, FileRecord
<1>4. /\ SoundStorage(AddFile(m, place, Named(x)), nums)
      /\ AddFile(m, place, Named(x)).files
             = Append(m.files, Added(m, place, Named(x)))
      /\ AddFile(m, place, Named(x)).next = m.next + 1
  BY <1>2, <1>3, AddFileIs
<1> QED
  BY <1>3, <1>4 DEF Extends

\* What was in an index is in the one that extends it.
LEMMA ExtendsKeeps ==
  ASSUME NEW m, NEW k, NEW nums \in Nat, SoundStorage(m, nums),
         SoundStorage(k, nums), m.next < nums, NEW place, NEW x,
         Extends(k, m, place, Named(x))
  PROVE  /\ x \notin Name => CatalogOf(k) = CatalogOf(m)
         /\ \A files, now : /\ DOMAIN files = 0 .. nums - 1
                              /\ DataOK(Recs(m), files)
                              /\ MayEmpty(now, files, m.next)
                              => DataOK(Recs(k), now)
<1> DEFINE r == Added(m, place, Named(x))
<1>1. r \in FileRecord /\ k.files = Append(m.files, r) /\ r.name = Named(x)
  BY DEF Extends, Added
<1>2. ASSUME x \notin Name
      PROVE  CatalogOf(k) = CatalogOf(m)
  <2>1. \A n \in Plain : r.name # Named(n)
    BY <1>1, <1>2, NamesAre DEF Plain
  <2> HIDE DEF r
  <2> QED
    BY <1>1, <2>1, AppendKeepsCatalog
<1>3. ASSUME NEW files, NEW now, DOMAIN files = 0 .. nums - 1,
             DataOK(Recs(m), files), MayEmpty(now, files, m.next)
      PROVE  DataOK(Recs(k), now)
  <2>1. r.num = m.next
    BY DEF Added
  <2> HIDE DEF r
  <2>2. Free(m.next, Recs(m), files)
    BY <1>3, NextIsFree
  <2> QED
    BY <1>1, <1>3, <2>1, <2>2, AddKeepsData
<1> QED
  BY <1>2, <1>3

\* Nothing is found elsewhere, and the data files stay as good as they are.
SameNames(k, m, nums) ==
    /\ SoundStorage(k, nums) /\ CatalogOf(k) = CatalogOf(m)
    /\ \A files : DOMAIN files = 0 .. nums - 1 /\ DataOK(Recs(m), files)
                      => DataOK(Recs(k), files)

\* An index with one file, or two, of the plug-in itself.
HasOwnFiles(k, m, nums) ==
    \/ m.next + 1 <= nums /\ \E c \in Cell : k = NewCell(m, c)
    \/ m.next + 1 <= nums /\ \E v \in View : k = NewView(m, v)
    \/ /\ m.next + 2 <= nums
       /\ \E c \in Cell, v \in View : k = NewCellView(m, c, v)

LEMMA OwnFilesAre ==
  ASSUME NEW m, NEW nums \in Nat, SoundStorage(m, nums), NEW k,
         HasOwnFiles(k, m, nums)
  PROVE  SameNames(k, m, nums)
<1>1. m.next \in Nat
  BY StorageIs DEF SoundStorage
<1>2. "DMData" \notin Name /\ "netlist" \notin Name
      /\ "DMData" \in Name \cup Own /\ "netlist" \in Name \cup Own
  BY NamesAre
<1>3. ASSUME NEW p, SoundStorage(p, nums), p.files = m.files
      PROVE  SameNames(p, m, nums)
  <2>1. CatalogOf(p) = CatalogOf(m) /\ Recs(p) = Recs(m)
    BY <1>3, SameFilesSame DEF SameFiles
  <2> QED
    BY <1>3, <2>1 DEF SameNames
<1>4. ASSUME NEW p, SameNames(p, m, nums), p.next < nums, NEW place,
             place \in {<<"lib">>} \cup {"cell"} \X Cell \cup {"view"} \X View
                           \cup {"cellview"} \X (Cell \X View),
             NEW x \in {"DMData", "netlist"}
      PROVE  /\ SameNames(AddFile(p, place, Named(x)), m, nums)
             /\ AddFile(p, place, Named(x)).next = p.next + 1
  <2> DEFINE q == AddFile(p, place, Named(x))
  <2>1. x \notin Name /\ x \in Name \cup Own
    BY <1>2
  <2>2. SoundStorage(p, nums)
    BY <1>4 DEF SameNames
  <2>3. SoundStorage(q, nums) /\ Extends(q, p, place, Named(x))
    BY <1>4, <2>1, <2>2, ExtendsIs
  <2>4. q.next = p.next + 1
    BY <2>3 DEF Extends
  <2> HIDE DEF q
  <2>5. CatalogOf(q) = CatalogOf(p)
    BY <1>4, <2>1, <2>2, <2>3, ExtendsKeeps
  <2>6. ASSUME NEW files, DOMAIN files = 0 .. nums - 1, DataOK(Recs(p), files)
        PROVE  DataOK(Recs(q), files)
    <3>1. MayEmpty(files, files, p.next)
      BY DEF MayEmpty
    <3> QED
      BY <1>4, <2>2, <2>3, <2>6, <3>1, ExtendsKeeps
  <2>7. SameNames(q, m, nums)
    BY <1>4, <2>3, <2>5, <2>6 DEF SameNames
  <2> QED
    BY <2>4, <2>7 DEF q
<1>5. ASSUME m.next + 1 <= nums, NEW c \in Cell, k = NewCell(m, c)
      PROVE  SameNames(k, m, nums)
  <2> DEFINE p == AddCell(m, c)
             place == <<"cell", c>>
  <2>1. SoundStorage(p, nums) /\ p.files = m.files /\ p.next = m.next
    BY AddParentIs
  <2>2. place \in {"cell"} \X Cell
    OBVIOUS
  <2>3. k = AddFile(p, place, Named("DMData"))
    BY <1>5 DEF NewCell
  <2> HIDE DEF p, place
  <2>4. p.next < nums
    BY <1>1, <1>5, <2>1
  <2>5. SameNames(p, m, nums)
    BY <1>3, <2>1
  <2> QED
    BY <1>4, <2>2, <2>3, <2>4, <2>5
<1>6. ASSUME m.next + 1 <= nums, NEW v \in View, k = NewView(m, v)
      PROVE  SameNames(k, m, nums)
  <2> DEFINE p == AddView(m, v)
             place == <<"view", v>>
  <2>1. SoundStorage(p, nums) /\ p.files = m.files /\ p.next = m.next
    BY AddParentIs
  <2>2. place \in {"view"} \X View
    OBVIOUS
  <2>3. k = AddFile(p, place, Named("DMData"))
    BY <1>6 DEF NewView
  <2> HIDE DEF p, place
  <2>4. p.next < nums
    BY <1>1, <1>6, <2>1
  <2>5. SameNames(p, m, nums)
    BY <1>3, <2>1
  <2> QED
    BY <1>4, <2>2, <2>3, <2>4, <2>5
<1>7. ASSUME m.next + 2 <= nums, NEW c \in Cell, NEW v \in View,
             k = NewCellView(m, c, v)
      PROVE  SameNames(k, m, nums)
  <2> DEFINE p == AddCellView(m, c, v)
             place == <<"cellview", <<c, v>>>>
             q == AddFile(p, place, Named("DMData"))
  <2>1. SoundStorage(p, nums) /\ p.files = m.files /\ p.next = m.next
    BY AddParentIs
  <2>2. place \in {"cellview"} \X (Cell \X View)
    OBVIOUS
  <2>3. k = AddFile(q, place, Named("netlist"))
    BY <1>7 DEF NewCellView
  <2> HIDE DEF p, place
  <2>4. p.next < nums
    BY <1>1, <1>7, <2>1
  <2>5. SameNames(p, m, nums)
    BY <1>3, <2>1
  <2>6. SameNames(q, m, nums) /\ q.next = p.next + 1
    BY <1>4, <2>2, <2>4, <2>5
  <2> HIDE DEF q
  <2>7. q.next < nums
    BY <1>1, <1>7, <2>1, <2>6
  <2> QED
    BY <1>4, <2>2, <2>3, <2>6, <2>7
<1> QED
  BY <1>5, <1>6, <1>7 DEF HasOwnFiles

-----------------------------------------------------------------------------
(* The catalogue, over every step.                                          *)

LEMMA CatalogIs ==
  ASSUME NEW m, NEW nums, SoundStorage(m, nums)
  PROVE  /\ CatalogOf(m) = [n \in DOMAIN CatalogOf(m) |-> CatalogOf(m)[n]]
         /\ DOMAIN CatalogOf(m) = {n \in Plain : Knows(m, Named(n))}
         /\ \A n \in DOMAIN CatalogOf(m) :
               /\ CatalogOf(m)[n] = FindFile(m, Named(n))
               /\ CatalogOf(m)[n] \in Nat /\ CatalogOf(m)[n] < nums
               /\ CatalogOf(m)[n] < m.next
<1>1. DOMAIN CatalogOf(m) = {n \in Plain : Knows(m, Named(n))}
  BY DEF CatalogOf
<1>2. \A n \in DOMAIN CatalogOf(m) : CatalogOf(m)[n] = FindFile(m, Named(n))
  BY DEF CatalogOf
<1>3. ASSUME NEW n \in Plain, Knows(m, Named(n))
      PROVE  /\ FindFile(m, Named(n)) \in Nat /\ FindFile(m, Named(n)) < nums
             /\ FindFile(m, Named(n)) < m.next
  <2>1. PICK i : Least(m, n, i)
    BY <1>3, FindsFirst
  <2>2. FindFile(m, Named(n)) = m.files[i].num
    BY <2>1, FindsFirst
  <2>3. i \in DOMAIN m.files
    BY <2>1 DEF Least, Hits
  <2>4. m.files[i].num \in Nat
    BY <2>3, StorageIs DEF SoundStorage
  <2> QED
    BY <2>2, <2>3, <2>4 DEF SoundStorage
<1>4. CatalogOf(m) = [n \in DOMAIN CatalogOf(m) |-> CatalogOf(m)[n]]
  BY DEF CatalogOf
<1> QED
  BY <1>1, <1>2, <1>3, <1>4

Joined(c, n, k) == [x \in DOMAIN c \cup {n} |-> IF x = n THEN k ELSE c[x]]

\* A name that is new gets the number of its file.
LEMMA NewInCatalog ==
  ASSUME NEW m, NEW k, NEW nums, SoundStorage(m, nums), SoundStorage(k, nums),
         NEW r \in FileRecord, k.files = Append(m.files, r),
         NEW n \in Plain, r.name = Named(n), ~Knows(m, Named(n))
  PROVE  /\ n \notin DOMAIN CatalogOf(m)
         /\ CatalogOf(k) = Joined(CatalogOf(m), n, r.num)
<1>1. \A x \in Plain : r.name = Named(x) <=> x = n
  BY NamesAre
<1>2. ASSUME NEW x \in Plain
      PROVE  /\ Knows(k, Named(x)) <=> Knows(m, Named(x)) \/ x = n
             /\ Knows(m, Named(x)) =>
                    FindFile(k, Named(x)) = FindFile(m, Named(x))
             /\ x = n => FindFile(k, Named(x)) = r.num
  BY <1>1, AppendFile
<1> DEFINE A == {x \in Plain : Knows(m, Named(x))}
           B == {x \in Plain : Knows(k, Named(x))}
           F == [x \in A |-> FindFile(m, Named(x))]
           G == [x \in B |-> FindFile(k, Named(x))]
<1>3. CatalogOf(m) = F /\ CatalogOf(k) = G
  BY DEF CatalogOf
<1>4. B = A \cup {n} /\ n \notin A
  BY <1>2
<1>5. \A x \in A : G[x] = F[x]
  BY <1>2
<1>6. G[n] = r.num
  BY <1>2
<1>7. DOMAIN F = A /\ G = [x \in B |-> G[x]]
  OBVIOUS
<1> HIDE DEF A, B, F, G
<1>8. G = Joined(F, n, r.num)
  BY <1>4, <1>5, <1>6, <1>7 DEF Joined
<1> QED
  BY <1>3, <1>4, <1>7, <1>8

\* FileCreate.
LEMMA NewFileIs ==
  ASSUME NEW m, NEW nums \in Nat, SoundStorage(m, nums), m.next + 1 <= nums,
         NEW n \in Name, NEW k, k = NewFile(m, n)
  PROVE  /\ SoundStorage(k, nums)
         /\ \/ CatalogOf(k) = CatalogOf(m)
            \/ /\ n \in Plain /\ n \notin DOMAIN CatalogOf(m)
               /\ CatalogOf(k) = Joined(CatalogOf(m), n, m.next)
         /\ \A files, now : /\ DOMAIN files = 0 .. nums - 1
                            /\ DataOK(Recs(m), files)
                            /\ MayEmpty(now, files, m.next)
                            => DataOK(Recs(k), now)
<1>1. m.next \in Nat /\ m.next < nums
  BY StorageIs DEF SoundStorage
<1>2. LibLevel \in {<<"lib">>}
  BY DEF LibLevel
<1>3. SoundStorage(k, nums) /\ Extends(k, m, LibLevel, Named(n))
  BY <1>1, <1>2, ExtendsIs DEF NewFile
<1>4. \A files, now : /\ DOMAIN files = 0 .. nums - 1
                      /\ DataOK(Recs(m), files)
                      /\ MayEmpty(now, files, m.next)
                      => DataOK(Recs(k), now)
  BY <1>1, <1>3, ExtendsKeeps
<1> DEFINE r == Added(m, LibLevel, Named(n))
<1>5. /\ r \in FileRecord /\ k.files = Append(m.files, r)
      /\ r.name = Named(n) /\ r.num = m.next
  BY <1>3 DEF Extends, Added
<1> HIDE DEF r
<1>6. CASE n \in Plain /\ ~Knows(m, Named(n))
  <2>1. /\ n \notin DOMAIN CatalogOf(m)
        /\ CatalogOf(k) = Joined(CatalogOf(m), n, r.num)
    BY <1>3, <1>5, <1>6, NewInCatalog
  <2> QED
    BY <1>3, <1>4, <1>5, <1>6, <2>1
<1>7. CASE ~(n \in Plain /\ ~Knows(m, Named(n)))
  <2>1. \A x \in Plain : r.name = Named(x) => Knows(m, Named(x))
    BY <1>5, <1>7, NamesAre
  <2>2. CatalogOf(k) = CatalogOf(m)
    BY <1>3, <1>5, <2>1, AppendKeepsCatalog
  <2> QED
    BY <1>3, <1>4, <2>2
<1> QED
  BY <1>6, <1>7

-----------------------------------------------------------------------------
(* The invariant, and what a step may do to the catalogue.                  *)

StorageInv == SessionInv /\ OwnInv

CatalogStep ==
    \/ CatalogOf(Index') = CatalogOf(Index) /\ breaks' = breaks
    \/ /\ breaks' = breaks
       /\ \E n \in Plain \ DOMAIN CatalogOf(Index) :
             CatalogOf(Index') = Joined(CatalogOf(Index), n, Index.next)
       /\ Index.next < setting.nums
    \/ breaks' = Broken(breaks)

\* What a step has to keep for the data files.
LEMMA OwnStep ==
  ASSUME OwnInv, setting' = setting, breaks' \in {0, 1, 2},
         data' \in [0 .. setting.nums - 1 ->
                        {Absent, Empty} \cup Name \cup Own],
         breaks' = 0 =>
             /\ breaks = 0
             /\ DataOK(Recs(Index), data) => DataOK(Recs(Index'), data')
  PROVE  OwnInv'
  BY DEF OwnInv

LEMMA DataIs ==
  ASSUME OwnInv
  PROVE  /\ data \in [0 .. setting.nums - 1 ->
                          {Absent, Empty} \cup Name \cup Own]
         /\ DOMAIN data = 0 .. setting.nums - 1
         /\ breaks \in {0, 1, 2} /\ Broken(breaks) \in {1, 2}
  BY DEF OwnInv, Broken

\* A step that leaves the files as they are.
LEMMA SameFilesStep ==
  ASSUME OwnInv, SameFiles(Index', Index), UNCHANGED <<data, setting, breaks>>
  PROVE  OwnInv' /\ CatalogStep
<1>1. Recs(Index') = Recs(Index) /\ CatalogOf(Index') = CatalogOf(Index)
  BY DEF SameFiles
<1>2. CatalogStep
  BY <1>1 DEF CatalogStep
<1>3. OwnInv'
  BY <1>1, DataIs, OwnStep
<1> QED
  BY <1>2, <1>3

LEMMA BreakStep ==
  ASSUME OwnInv, breaks' = Broken(breaks), UNCHANGED <<data, setting>>
  PROVE  OwnInv' /\ CatalogStep
<1>1. OwnInv'
  BY DataIs, OwnStep
<1> QED
  BY <1>1 DEF CatalogStep

\* A step that adds files of the plug-in itself, or none.
LEMMA OwnFilesStep ==
  ASSUME SerialUse, StorageInv, NEW s \in Session, mem[s] # NoLib,
         writing[s] = "no", NEW m, SameNames(m, mem[s], setting.nums),
         mem' = [mem EXCEPT ![s] = m], NEW why \in {"change", "close"},
         Writes(s, why), UNCHANGED <<data, setting, breaks>>
  PROVE  StorageInv' /\ CatalogStep
<1>1. SoundStorage(m, setting.nums)
  BY DEF SameNames
<1>2. SessionInv' /\ Index = mem[s] /\ Index' = m
  BY <1>1, ChangeStep DEF StorageInv
<1>3. CatalogStep
  BY <1>2 DEF CatalogStep, SameNames
<1>4. OwnInv /\ DOMAIN data = 0 .. setting.nums - 1
  BY DataIs DEF StorageInv
<1>5. DataOK(Recs(Index), data) => DataOK(Recs(Index'), data')
  BY <1>2, <1>4 DEF SameNames
<1>6. OwnInv'
  BY <1>2, <1>4, <1>5, DataIs, OwnStep
<1> QED
  BY <1>2, <1>3, <1>6 DEF StorageInv

LEMMA WriteStep ==
  ASSUME SerialUse, StorageInv, NEW s \in Session,
         NEW why \in {"change", "close"},
         mem[s] # NoLib, writing[s] = "no", Writes(s, why),
         UNCHANGED <<data, mem, setting, breaks>>
  PROVE  StorageInv' /\ CatalogStep
<1>1. mem \in [Session -> LibStorage \cup {NoLib}]
      /\ SoundStorage(mem[s], setting.nums)
  BY DEF StorageInv, SessionInv
<1>2. mem' = [mem EXCEPT ![s] = mem[s]]
  BY <1>1
<1>3. SameNames(mem[s], mem[s], setting.nums)
  BY <1>1 DEF SameNames
<1> QED
  BY <1>2, <1>3, OwnFilesStep

LEMMA CreateStep ==
  ASSUME SerialUse, StorageInv, NEW s \in Session,
         \/ \E c \in Cell : CellCreate(s, c)
         \/ \E v \in View : ViewCreate(s, v)
         \/ \E c \in Cell, v \in View : CellViewCreate(s, c, v)
  PROVE  StorageInv' /\ CatalogStep
<1> DEFINE nums == setting.nums
<1>1. /\ mem[s] # NoLib /\ writing[s] = "no" /\ Writes(s, "change")
      /\ UNCHANGED <<data, setting, breaks>>
  BY RewriteIs DEF CellCreate, ViewCreate, CellViewCreate, Ready
<1>2. SoundStorage(mem[s], nums) /\ nums \in Nat
  BY <1>1, SessionFacts DEF StorageInv, SessionInv
<1>3. \E m : mem' = [mem EXCEPT ![s] = m] /\ HasOwnFiles(m, mem[s], nums)
  <2>1. ASSUME NEW c \in Cell, CellCreate(s, c)
        PROVE  \E m : /\ mem' = [mem EXCEPT ![s] = m]
                    /\ HasOwnFiles(m, mem[s], nums)
    <3>1. mem' = [mem EXCEPT ![s] = NewCell(mem[s], c)]
      BY <2>1 DEF CellCreate, NewCell
    <3>2. HasOwnFiles(NewCell(mem[s], c), mem[s], nums)
      BY <2>1 DEF CellCreate, Ready, HasOwnFiles
    <3> QED
      BY <3>1, <3>2
  <2>2. ASSUME NEW v \in View, ViewCreate(s, v)
        PROVE  \E m : /\ mem' = [mem EXCEPT ![s] = m]
                    /\ HasOwnFiles(m, mem[s], nums)
    <3>1. mem' = [mem EXCEPT ![s] = NewView(mem[s], v)]
      BY <2>2 DEF ViewCreate, NewView
    <3>2. HasOwnFiles(NewView(mem[s], v), mem[s], nums)
      BY <2>2 DEF ViewCreate, Ready, HasOwnFiles
    <3> QED
      BY <3>1, <3>2
  <2>3. ASSUME NEW c \in Cell, NEW v \in View, CellViewCreate(s, c, v)
        PROVE  \E m : /\ mem' = [mem EXCEPT ![s] = m]
                    /\ HasOwnFiles(m, mem[s], nums)
    <3>1. mem' = [mem EXCEPT ![s] = NewCellView(mem[s], c, v)]
      BY <2>3 DEF CellViewCreate, NewCellView
    <3>2. HasOwnFiles(NewCellView(mem[s], c, v), mem[s], nums)
      BY <2>3 DEF CellViewCreate, Ready, HasOwnFiles
    <3> QED
      BY <3>1, <3>2
  <2> QED
    BY <2>1, <2>2, <2>3
<1>4. PICK m : mem' = [mem EXCEPT ![s] = m] /\ HasOwnFiles(m, mem[s], nums)
  BY <1>3
<1>5. SameNames(m, mem[s], nums)
  BY <1>2, <1>4, OwnFilesAre
<1> QED
  BY <1>1, <1>4, <1>5, OwnFilesStep

LEMMA FileCreateStep ==
  ASSUME SerialUse, StorageInv, NEW s \in Session, NEW n \in Name,
         FileCreate(s, n)
  PROVE  StorageInv' /\ CatalogStep
<1> DEFINE old == mem[s]
           m == NewFile(old, n)
           nums == setting.nums
<1>1. /\ old # NoLib /\ writing[s] = "no" /\ Writes(s, "change")
      /\ mem' = [mem EXCEPT ![s] = m] /\ UNCHANGED <<setting, breaks>>
      /\ data' = [data EXCEPT ![old.next] = Empty] \/ data' = data
      /\ old.next + 1 <= nums
  BY RewriteIs DEF FileCreate, Ready, NewFile
<1>2. SoundStorage(old, nums) /\ nums \in Nat
  BY <1>1, SessionFacts DEF StorageInv, SessionInv
<1>3. old.next \in Nat /\ old.next < nums
  BY <1>1, <1>2, StorageIs DEF SoundStorage
<1>4. /\ SoundStorage(m, nums)
      /\ \/ CatalogOf(m) = CatalogOf(old)
         \/ /\ n \in Plain /\ n \notin DOMAIN CatalogOf(old)
            /\ CatalogOf(m) = Joined(CatalogOf(old), n, old.next)
      /\ \A files, now : /\ DOMAIN files = 0 .. nums - 1
                         /\ DataOK(Recs(old), files)
                         /\ MayEmpty(now, files, old.next)
                         => DataOK(Recs(m), now)
  BY <1>1, <1>2, NewFileIs
<1> HIDE DEF m
<1>5. SessionInv' /\ Index = old /\ Index' = m
  BY <1>1, <1>4, ChangeStep DEF StorageInv
<1>6. CatalogStep
  BY <1>1, <1>3, <1>4, <1>5 DEF CatalogStep
<1>7. /\ data \in [0 .. nums - 1 -> {Absent, Empty} \cup Name \cup Own]
      /\ DOMAIN data = 0 .. nums - 1 /\ breaks \in {0, 1, 2} /\ OwnInv
  BY DataIs DEF StorageInv
<1>8. /\ data' \in [0 .. nums - 1 -> {Absent, Empty} \cup Name \cup Own]
      /\ MayEmpty(data', data, old.next)
  BY <1>1, <1>3, <1>7 DEF MayEmpty
<1>9. DataOK(Recs(old), data) => DataOK(Recs(m), data')
  BY <1>4, <1>7, <1>8
<1>10. OwnInv'
  <2>1. breaks = 0 => breaks' = 0 /\ breaks = 0
    BY <1>1
  <2> QED
    BY <1>1, <1>5, <1>7, <1>8, <1>9, OwnStep
<1> QED
  BY <1>5, <1>6, <1>10 DEF StorageInv

\* The application writes a file.
LEMMA SaveStep ==
  ASSUME SerialUse, StorageInv, NEW s \in Session, NEW n \in Name \cup Own,
         SaveData(s, n)
  PROVE  StorageInv' /\ CatalogStep
<1> DEFINE k == FindFile(mem[s], Named(n))
           nums == setting.nums
<1>1. /\ mem[s] # NoLib /\ Knows(mem[s], Named(n))
      /\ data' = [data EXCEPT ![k] = n]
      /\ UNCHANGED <<xml, mem, writing, setting, torn, breaks>>
  BY DEF SaveData
<1>2. /\ SoundStorage(mem[s], nums) /\ Index = mem[s] /\ nums \in Nat
  BY <1>1, SessionFacts DEF StorageInv, SessionInv
<1>3. PICK i \in Hits(mem[s], Named(n)) : k = mem[s].files[i].num
  BY <1>1, <1>2, FindFileIs DEF SoundStorage
<1> DEFINE p == <<k, mem[s].files[i].name.of>>
<1>4. p \in Recs(Index) /\ p[2] = n /\ p[1] = k /\ k \in Nat /\ k < nums
  <2>1. i \in DOMAIN mem[s].files /\ mem[s].files[i].name = Named(n)
    BY <1>3 DEF Hits
  <2>2. p \in Recs(mem[s])
    BY <1>3, <2>1 DEF Recs
  <2>3. p[2] = n /\ p[1] = k
    BY <2>1, NamesAre
  <2> HIDE DEF p, k
  <2>4. p[1] \in Nat /\ p[1] < nums
    BY <1>2, <2>2, RecsAre
  <2> QED
    BY <1>2, <2>2, <2>3, <2>4
<1> HIDE DEF k, p
<1>5. SessionInv' /\ Index' = Index
  BY <1>1, IdleStep DEF StorageInv
<1>6. CatalogStep
  BY <1>1, <1>5 DEF CatalogStep
<1>7. /\ data \in [0 .. nums - 1 -> {Absent, Empty} \cup Name \cup Own]
      /\ DOMAIN data = 0 .. nums - 1 /\ breaks \in {0, 1, 2} /\ OwnInv
  BY DataIs DEF StorageInv
<1>8. k \in DOMAIN data
      /\ data' \in [0 .. nums - 1 -> {Absent, Empty} \cup Name \cup Own]
  BY <1>1, <1>2, <1>4, <1>7
<1>9. DataOK(Recs(Index), data) => DataOK(Recs(Index), data')
  <2>1. data' = [data EXCEPT ![k] = p[2]]
    BY <1>1, <1>4
  <2> QED
    BY <1>4, <1>8, <2>1, WriteKeepsData
<1>10. OwnInv'
  BY <1>1, <1>5, <1>7, <1>8, <1>9, OwnStep
<1> QED
  BY <1>5, <1>6, <1>10 DEF StorageInv

\* The steps of the plug-ins.
LEMMA PlugInStep ==
  ASSUME SerialUse, StorageInv, StorageNext
  PROVE  StorageInv' /\ CatalogStep
<1>1. SessionInv /\ OwnInv
  BY DEF StorageInv
<1>2. PICK s \in Session :
        \/ LibPreCreate(s) \/ LibPostCreate(s)
        \/ LibPreOpen(s) \/ LibPreClose(s)
        \/ FClose(s) \/ Crash(s)
        \/ \E c \in Cell : CellCreate(s, c)
        \/ \E v \in View : ViewCreate(s, v)
        \/ \E c \in Cell, v \in View : CellViewCreate(s, c, v)
        \/ \E n \in Name : FileCreate(s, n)
        \/ \E n \in Name \cup Own : SaveData(s, n)
  BY DEF StorageNext
<1>3. ASSUME Index' = Index \/ SameFiles(Index', Index), SessionInv',
             UNCHANGED <<data, setting, breaks>>
      PROVE  StorageInv' /\ CatalogStep
  BY <1>1, <1>3, SameIsSame, SameFilesStep DEF StorageInv
<1>4. ASSUME breaks' = Broken(breaks), SessionInv', UNCHANGED <<data, setting>>
      PROVE  StorageInv' /\ CatalogStep
  BY <1>1, <1>4, BreakStep DEF StorageInv
<1>5. CASE LibPreCreate(s) \/ LibPreOpen(s)
  <2>1. UNCHANGED <<data, setting>>
    BY <1>5 DEF LibPreCreate, LibPreOpen
  <2> QED
    BY <1>1, <1>3, <1>4, <1>5, <2>1, OpenStep
<1>6. CASE LibPostCreate(s)
  BY <1>6, NewIsSound, RewriteIs, WriteStep DEF LibPostCreate
<1>7. CASE FClose(s)
  <2>1. UNCHANGED <<data, setting>>
    BY <1>7 DEF FClose
  <2> QED
    BY <1>1, <1>3, <1>4, <1>7, <2>1, CloseStep
<1>8. CASE Crash(s) \/ LibPreClose(s)
  <2>1. CASE /\ LibPreClose(s) /\ FOpen(s, "close")
             /\ UNCHANGED <<data, mem, setting, breaks>>
    <3>1. mem[s] # NoLib /\ writing[s] = "no" /\ Writes(s, "close")
      BY <2>1 DEF LibPreClose, Writes
    <3> QED
      BY <2>1, <3>1, WriteStep
  <2>2. CASE \/ Crash(s)
             \/ LibPreClose(s) /\ GiveUp(s)
    <3>1. UNCHANGED <<data, setting>>
      BY <2>2 DEF Crash, GiveUp
    <3>2. /\ mem[s] # NoLib
          /\ \/ Crash(s)
             \/ writing[s] = "no" /\ GiveUp(s)
      BY <2>2 DEF Crash, LibPreClose
    <3> QED
      BY <1>1, <1>3, <1>4, <3>1, <3>2, CrashStep
  <2> QED
    BY <1>8, <2>1, <2>2 DEF LibPreClose
<1>9. CASE \/ \E c \in Cell : CellCreate(s, c)
           \/ \E v \in View : ViewCreate(s, v)
           \/ \E c \in Cell, v \in View : CellViewCreate(s, c, v)
  BY <1>9, CreateStep
<1>10. ASSUME NEW n \in Name, FileCreate(s, n)
       PROVE  StorageInv' /\ CatalogStep
  BY <1>10, FileCreateStep
<1>11. ASSUME NEW n \in Name \cup Own, SaveData(s, n)
       PROVE  StorageInv' /\ CatalogStep
  BY <1>11, SaveStep
<1> QED
  BY <1>2, <1>5, <1>6, <1>7, <1>8, <1>9, <1>10, <1>11

\* The steps that leave the storage alone.
LEMMA StorageStutters ==
  ASSUME StorageInv, UNCHANGED storage
  PROVE  StorageInv' /\ CatalogStep
<1>1. SessionInv' /\ Index' = Index
  BY IdleStep DEF StorageInv, storage
<1>2. OwnInv /\ UNCHANGED <<data, setting, breaks>>
  BY DEF StorageInv, storage
<1>3. OwnInv' /\ CatalogStep
  BY <1>1, <1>2, SameIsSame, SameFilesStep
<1> QED
  BY <1>1, <1>3 DEF StorageInv

\* The server changes lib.xml only when it closes the library.
LEMMA DispatchStep ==
  ASSUME StorageInv, NEW c \in Client, Dispatch(c)
  PROVE  StorageInv' /\ CatalogStep
<1>1. UNCHANGED <<data, mem, writing, setting>>
  BY DEF Dispatch
<1>2. PICK m : Handle(m)
  BY DEF Dispatch
<1>3. \/ /\ xml' = <<>> /\ torn' = \E s \in Session : mem[s] # NoLib
         /\ breaks' = IF torn' THEN breaks ELSE Broken(breaks)
      \/ UNCHANGED <<xml, torn, breaks>>
  BY <1>2 DEF Handle, HandleCreateLib, HandleOpenLib, HandleCloseLib,
              HandleCreateCell, HandleCreateCellView
<1>4. CASE /\ xml' = <<>> /\ torn' = \E s \in Session : mem[s] # NoLib
           /\ breaks' = IF torn' THEN breaks ELSE Broken(breaks)
  <2>1. SessionInv' /\ (torn' => Index' = Index)
    BY <1>1, <1>4, OverwriteStep DEF StorageInv
  <2>2. CASE torn'
    BY <1>1, <1>4, <2>1, <2>2, SameIsSame, SameFilesStep DEF StorageInv
  <2>3. CASE ~torn'
    BY <1>1, <1>4, <2>1, <2>3, BreakStep DEF StorageInv
  <2> QED
    BY <2>2, <2>3
<1>5. CASE UNCHANGED <<xml, torn, breaks>>
  BY <1>1, <1>5, StorageStutters DEF storage
<1> QED
  BY <1>3, <1>4, <1>5

LEMMA StorageInvInit ==
  ASSUME Init
  PROVE  StorageInv /\ CatalogOf(Index) = [n \in {} |-> 0]
<1>1. /\ setting \in Settings /\ xml = NoXml
      /\ data = [k \in 0 .. setting.nums - 1 |-> Absent]
      /\ mem = [s \in Session |-> NoLib]
      /\ writing = [s \in Session |-> "no"]
      /\ torn = FALSE /\ breaks = 0
  BY DEF Init, StorageInit
<1>2. Index = NewStorage
  BY <1>1 DEF Index
<1>3. DOMAIN NewStorage.files = {}
  BY DEF NewStorage
<1>4. SessionInv
  BY <1>1 DEF SessionInv
<1>5. Recs(Index) = {}
  BY <1>2, <1>3 DEF Recs
<1>6. DataOK(Recs(Index), data)
  <2>1. \A k \in DOMAIN data : data[k] = Absent
    BY <1>1
  <2> QED
    BY <1>5, <2>1 DEF DataOK
<1>7. data \in [0 .. setting.nums - 1 -> {Absent, Empty} \cup Name \cup Own]
  BY <1>1
<1>8. OwnInv
  BY <1>1, <1>6, <1>7 DEF OwnInv
<1>9. CatalogOf(Index) = [n \in {} |-> 0]
  <2>1. {k \in Plain : Knows(NewStorage, Named(k))} = {}
    BY <1>3 DEF Knows, Hits
  <2> QED
    BY <1>2, <2>1 DEF CatalogOf
<1> QED
  BY <1>4, <1>8, <1>9 DEF StorageInv

LEMMA StorageInvNext ==
  ASSUME SerialUse, StorageInv, [Next]_vars
  PROVE  StorageInv' /\ CatalogStep
<1>1. CASE StorageNext
  BY <1>1, PlugInStep
<1>2. ASSUME NEW c \in Client, Dispatch(c)
      PROVE  StorageInv' /\ CatalogStep
  BY <1>2, DispatchStep
<1>3. CASE UNCHANGED storage
  BY <1>3, StorageStutters
<1>4. CASE StartServer \/ Accept \/ PollTimeout \/ RecvMsgFails
  BY <1>3, <1>4 DEF StartServer, Accept, PollTimeout, RecvMsgFails, Drop
<1>5. CASE Stop \/ Signal
  BY <1>3, <1>5 DEF Stop, Signal, Gone
<1>6. ASSUME NEW c \in Client,
             \/ Connect(c) \/ SendHeader(c) \/ SendFails(c) \/ SendPayload(c)
             \/ RecvReply(c) \/ RecvEnds(c) \/ RecvFails(c) \/ Close(c)
      PROVE  StorageInv' /\ CatalogStep
  BY <1>3, <1>6 DEF Connect, SendHeader, SendFails, SendPayload, RecvReply,
                    RecvEnds, RecvFails, Close
<1>7. CASE UNCHANGED vars
  BY <1>3, <1>7 DEF vars
<1> QED
  BY <1>1, <1>2, <1>4, <1>5, <1>6, <1>7 DEF Next

\* The invariant says who has which data.
LEMMA OwnDataHolds == ASSUME SerialUse, StorageInv
                      PROVE  OwnData
<1>1. SoundStorage(Index, setting.nums)
  BY SessionFacts DEF StorageInv
<1> SUFFICES ASSUME breaks = 0, NEW n \in Plain, FileFind(Index, n)
             PROVE  data[FindFile(Index, Named(n))] \in {Empty, n}
  BY DEF OwnData
<1>2. Knows(Index, Named(n)) /\ data[FindFile(Index, Named(n))] # Absent
  BY DEF FileFind
<1>3. PICK i : Least(Index, n, i)
  BY <1>1, <1>2, FindsFirst
<1> DEFINE p == <<Index.files[i].num, Index.files[i].name.of>>
<1>4. FindFile(Index, Named(n)) = p[1]
  BY <1>1, <1>3, FindsFirst
<1>5. i \in DOMAIN Index.files /\ Index.files[i].name = Named(n)
  BY <1>3 DEF Least, Hits
<1>6. p \in Recs(Index) /\ p[2] = n
  <2>1. n \in Name \cup Own
    BY DEF Plain
  <2>2. Index.files[i].name.of = n
    BY <1>5, <2>1, NamesAre
  <2> QED
    BY <1>5, <2>2 DEF Recs
<1> HIDE DEF p
<1>7. data[p[1]] \in {Absent, Empty, p[2]}
  BY <1>6 DEF StorageInv, OwnInv, DataOK
<1> QED
  BY <1>2, <1>4, <1>6, <1>7

\* Over all that sessions, crashes and the server do, a number belongs to one
\* name and has no data file before it is given out; lib.xml, unless it was torn
\* or not written, has the files of the session that is open.
THEOREM StorageInvariant == ASSUME SerialUse
                            PROVE  Spec => []StorageInv
<1>1. Init => StorageInv
  BY StorageInvInit
<1>2. StorageInv /\ [Next]_vars => StorageInv'
  BY StorageInvNext
<1> QED
  BY <1>1, <1>2, PTL DEF Spec

\* Who finds a file by an application's name has the data that was written for
\* that name, or none: OwnData, of any number of files, cells and sessions.
THEOREM FilesHaveTheirData == ASSUME SerialUse
                              PROVE  Spec => []OwnData
<1>1. StorageInv => OwnData
  BY OwnDataHolds
<1> QED
  BY <1>1, StorageInvariant, PTL

\* What TLC evaluates once is the catalogue of the index.
LEMMA CatalogNowIs == CatalogNow = CatalogOf(Index)
<1>1. \A x : {CatalogOf(m) : m \in {x}} = {CatalogOf(x)}
  OBVIOUS
<1>2. \A x : (CHOOSE c \in {x} : TRUE) = x
  OBVIOUS
<1> QED
  BY <1>1, <1>2 DEF CatalogNow

LEMMA CatalogNextIs == CatalogNow' = CatalogOf(Index')
<1>1. \A x : {CatalogOf(m) : m \in {x}} = {CatalogOf(x)}
  OBVIOUS
<1>2. \A x : (CHOOSE c \in {x} : TRUE) = x
  OBVIOUS
<1> QED
  BY <1>1, <1>2 DEF CatalogNow

LEMMA CatalogIsInCatalogs ==
  ASSUME NEW m, NEW b \in Settings, SoundStorage(m, b.nums)
  PROVE  CatalogOf(m) \in Catalog!Catalogs
<1> DEFINE N == DOMAIN CatalogOf(m)
           Number == UNION {0 .. c.nums - 1 : c \in Settings}
<1>1. b.nums \in Nat
  BY StorageAssumption
<1>2. ASSUME NEW n \in N
      PROVE  CatalogOf(m)[n] \in Number
  <2>1. CatalogOf(m)[n] \in Nat /\ CatalogOf(m)[n] < b.nums
    BY CatalogIs
  <2>2. CatalogOf(m)[n] \in 0 .. b.nums - 1
    BY <1>1, <2>1
  <2> QED
    BY <2>2
<1>3. CatalogOf(m) = [n \in N |-> CatalogOf(m)[n]] /\ N \in SUBSET Plain
  BY CatalogIs
<1> HIDE DEF Number
<1>4. CatalogOf(m) \in [N -> Number]
  BY <1>2, <1>3
<1> HIDE DEF N
<1>5. CatalogOf(m) \in UNION {[M -> Number] : M \in SUBSET Plain}
  BY <1>3, <1>4
<1> QED
  BY <1>5 DEF Catalog!Catalogs, Number

\* The refinement mapping, step by step.
LEMMA CatalogStepIs ==
  ASSUME SerialUse, StorageInv, StorageInv', CatalogStep
  PROVE  [Catalog!Next]_Catalog!vars
<1> DEFINE old == CatalogOf(Index)
           new == CatalogOf(Index')
<1>1. CatalogNow = old /\ CatalogNow' = new
  BY CatalogNowIs, CatalogNextIs
<1>2. setting \in Settings /\ SoundStorage(Index, setting.nums)
  BY SessionFacts DEF StorageInv
<1>3. CASE new = old /\ breaks' = breaks
  BY <1>1, <1>3 DEF Catalog!vars
<1>4. ASSUME breaks' = breaks, NEW n \in Plain \ DOMAIN old,
             new = Joined(old, n, Index.next), Index.next < setting.nums
      PROVE  Catalog!Next
  <2>1. Index.next \in Nat /\ setting.nums \in Nat
    BY <1>2, StorageIs, StorageAssumption DEF SoundStorage
  <2>2. Index.next \in UNION {0 .. b.nums - 1 : b \in Settings}
    BY <1>2, <1>4, <2>1
  <2>3. \A x \in DOMAIN old : old[x] # Index.next
    <3>1. \A x \in DOMAIN old : old[x] \in Nat /\ old[x] < Index.next
      BY <1>2, CatalogIs
    <3> HIDE DEF old
    <3> QED
      BY <2>1, <3>1
  <2> HIDE DEF old, new
  <2>4. Index.next \notin Catalog!Taken
    BY <1>1, <2>3 DEF Catalog!Taken
  <2>5. CatalogNow' = Catalog!With(n, Index.next)
    BY <1>1, <1>4 DEF Catalog!With, Joined
  <2>6. Catalog!Create(n)
    BY <1>1, <1>4, <2>2, <2>4, <2>5 DEF Catalog!Create
  <2> QED
    BY <2>6 DEF Catalog!Next
<1>5. CASE breaks' = Broken(breaks)
  <2>1. \E b \in Settings : SoundStorage(Index', b.nums)
    <3>1. SessionInv'
      BY DEF StorageInv
    <3>2. /\ setting' \in Settings
          /\ SoundStorage(IndexIn(mem', xml'), setting'.nums)
      <4>1. setting' \in Settings /\ OneOpen(mem')
        BY <3>1 DEF SessionInv, OneOpen
      <4>2. setting'.nums \in Nat /\ setting'.nums <= Limit
        BY <4>1, BoundIs
      <4> QED
        BY <3>1, <4>1, <4>2, IndexIsSound DEF SessionInv
    <3> QED
      BY <3>2, NextIndex
  <2>2. new \in Catalog!Catalogs
    BY <2>1, CatalogIsInCatalogs
  <2>3. Catalog!Break
    BY <1>1, <1>5, <2>2 DEF Catalog!Break, Broken, Catalog!Catalogs
  <2> QED
    BY <2>3 DEF Catalog!Next
<1> QED
  BY <1>3, <1>4, <1>5 DEF CatalogStep

\* The index, in memory and in lib.xml, implements TurboCatalog: each step of a
\* plug-in or of the server, whose reads and writes of lib.xml may fail, gives
\* one new name a new number, leaves all names with their numbers, or breaks the
\* index in one of the ways that count: lib.xml cannot be read, is not what it
\* should be when its session closes it or dies, or is overwritten by the server
\* when no session has it open.  A change that was not written is not among them
\* as long as its session goes on.
THEOREM LibXmlIsACatalog == ASSUME SerialUse
                            PROVE  Spec => ImplementsCatalog
<1>1. Init => Catalog!Init
  <2>1. ASSUME Init
        PROVE  Catalog!Init
    <3>1. breaks = 0 /\ CatalogNow = [n \in {} |-> 0]
      BY <2>1, StorageInvInit, CatalogNowIs DEF Init, StorageInit
    <3> QED
      BY <3>1 DEF Catalog!Init
  <2> QED
    BY <2>1
<1>2. StorageInv /\ StorageInv' /\ [Next]_vars => [Catalog!Next]_Catalog!vars
  BY StorageInvNext, CatalogStepIs
<1> QED
  BY <1>1, <1>2, StorageInvariant, PTL
     DEF Spec, ImplementsCatalog, Catalog!Spec
=============================================================================
