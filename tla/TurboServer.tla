----------------------------- MODULE TurboServer -----------------------------
(***************************************************************************)
(* The server of a Turbo library and the clients of its channel            *)
(* (oaAiviDMTurboServerImpl.cpp, oaAiviDMTurboChannel.cpp,                 *)
(* oaAiviDMTurboMsg.cpp of src/src/aividmturbo and the streams, tables and *)
(* objects of src/src/aividmturbobase/oaAiviDMTurboBase.cpp), beside the   *)
(* plug-ins of TurboStorage, with which it shares lib.xml.                 *)
(*                                                                         *)
(* The server handles one connection at a time, drops it when no message   *)
(* begins for five seconds, and waits for the rest of one that has begun   *)
(* as long as it takes.  A call of a client fails when send or recv does,  *)
(* and leaves the connection as it is.  What is on the wire is not what    *)
(* the sender set: CSMsg::send fills the message from a buffer that nobody *)
(* initialised, so a request is any message, which is chosen when it is    *)
(* read, and a reply says what the handler meant or something else.  A     *)
(* message is an operation with its arguments.                             *)
(***************************************************************************)
EXTENDS TurboStorage

CONSTANTS Client,          \* connections that may be made
          Lib, TheLib,     \* libraries; the one that plug-ins have open
          CellName, ViewName, TypeName,
          MaxBehind,       \* bound: see SendHeader
          Nobody

\* dbLib is null: not a record with the fields of NewLib.
NoDb == [lib |-> Nobody]

Ops == {"CreateLib", "OpenLib", "LibExists", "CreateCell", "FindCell",
        "CreateCellView", "FindCellView", "CloseLib", "GetPath", "Ping",
        "Shutdown", "Unknown"}

ASSUME ServerAssumption ==
    /\ TheLib \in Lib
    /\ MaxBehind \in Nat
    /\ Nobody \notin Client
    /\ \A b \in Settings : /\ b.clients \subseteq Client /\ b.ops \subseteq Ops
                           /\ b.fails \in BOOLEAN

VARIABLES pc,       \* where runServer is
          serves,   \* the connection that was accepted
          backlog,  \* connections that were not, in their order
          db,       \* state.dbLib
          strTbl,   \* state.strTbl: the strings by their keys
          client,   \* client[c]: where the process at the other end is
          turn,     \* turn[c]: the parity of its call
          request,  \* request[c]: the calls whose messages are not read yet
          half,     \* half[c]: there is the beginning of one more message
          reply,    \* reply[c]: what the server has sent and it has not read
          amiss,    \* history: connections on which a call has failed and
                    \* which are still there
          oalib,    \* libraries with a .oalib file
          made      \* history: what was made in dbLib

net == <<serves, backlog, request, half, reply>>
tables == <<db, strTbl, oalib, made>>
serverVars == <<pc, net, client, turn, amiss, tables>>

vars == <<storage, serverVars>>

Message ==
    {<<op, l>> : op \in {"CreateLib", "OpenLib", "LibExists"}, l \in Lib}
    \cup {<<op, c>> : op \in {"CreateCell", "FindCell"}, c \in CellName}
    \cup {<<op, c, v, t>> : op \in {"CreateCellView", "FindCellView"},
                            c \in CellName, v \in ViewName, t \in TypeName}
    \cup {<<op>> : op \in {"CloseLib", "GetPath", "Ping", "Shutdown",
                           "Unknown"}}

Said == {"OK", "found", "not found", "Error", "Pong", "garbage"}

ServerTypeOK ==
    /\ pc \in {"off", "accept", "poll", "stop"}
    /\ serves \in Client \cup {Nobody}
    /\ backlog \in Seq(Client)
    /\ db = NoDb \/ /\ db.lib \in Lib
                    /\ db.cells \subseteq DOMAIN strTbl
    /\ strTbl \in Seq(CellName \cup ViewName \cup TypeName)
    /\ client \in [Client -> {"none", "idle", "send", "wait"}]
    /\ turn \in [Client -> {0, 1}]
    /\ request \in [Client -> Seq({0, 1})]
    /\ half \in [Client -> BOOLEAN]
    /\ reply \in [Client -> Seq([turn : {0, 1}, says : Said])]
    /\ amiss \subseteq Client
    /\ oalib \subseteq Lib

ServerInit ==
    /\ pc = "off" /\ serves = Nobody /\ backlog = <<>>
    /\ db = NoDb /\ strTbl = <<>>
    /\ client = [c \in Client |-> "none"]
    /\ turn = [c \in Client |-> 0]
    /\ request = [c \in Client |-> <<>>]
    /\ half = [c \in Client |-> FALSE]
    /\ reply = [c \in Client |-> <<>>]
    /\ amiss = {}
    /\ oalib = {}
    /\ made = [cells |-> {}, cvs |-> {}]

-----------------------------------------------------------------------------
(* The tables of the server.                                               *)

\* Mutant: a string gets a new key each time.
AddAlways(tbl, s) == Append(tbl, s)

\* StringTbl::addString.
AddString(tbl, s) == AddOnce(tbl, s)

\* StringTbl::findKey, 0 when the string is not there.
FindKey(tbl, s) == Max({0} \cup {k \in DOMAIN tbl : tbl[k] = s})

\* What the library has of cell views is left out: nothing reads it.
NewLib(l) == [lib |-> l, cells |-> {}]

FindCell(c) == /\ db # NoDb
               /\ FindKey(strTbl, c) # 0
               /\ FindKey(strTbl, c) \in db.cells

\* Whether the three strings are known; cellViews_ is not asked.
FindCellView(c, v, t) == /\ db # NoDb
                         /\ \A s \in {c, v, t} : FindKey(strTbl, s) # 0

-----------------------------------------------------------------------------
(* The handlers: what each changes, and what it says.                      *)

HandleCreateLib(l) == /\ db' = NewLib(l)
                      /\ oalib' = oalib \cup {l}
                      /\ made' = [cells |-> {}, cvs |-> {}]
                      /\ UNCHANGED <<strTbl, xml, torn, breaks>>

\* A library that is open already is not replaced.
HandleOpenLib(l) == /\ db' = IF db = NoDb THEN NewLib(l) ELSE db
                    /\ UNCHANGED <<strTbl, oalib, made, xml, torn, breaks>>

\* The stream is filled from the buffer instead of the other way round, and
\* what was in the buffer goes to lib.xml: no file record is in it.  A plug-in
\* that has the library open may still write it again.
HandleCloseLib == /\ IF db # NoDb /\ db.lib = TheLib
                     THEN /\ xml' = <<>>
                          /\ torn' = \E s \in Session : mem[s] # NoLib
                          /\ breaks' = IF torn' THEN breaks ELSE Broken(breaks)
                     ELSE UNCHANGED <<xml, torn, breaks>>
                  /\ UNCHANGED <<db, strTbl, oalib, made>>

HandleCreateCell(c) ==
    /\ strTbl' = AddString(strTbl, c)
    /\ db' = [db EXCEPT !.cells = @ \cup {FindKey(strTbl', c)}]
    /\ made' = [made EXCEPT !.cells = @ \cup {c}]
    /\ UNCHANGED <<oalib, xml, torn, breaks>>

HandleCreateCellView(c, v, t) ==
    /\ strTbl' = AddString(AddString(AddString(strTbl, c), v), t)
    /\ made' = [made EXCEPT !.cvs = @ \cup {<<c, v, t>>}]
    /\ UNCHANGED <<db, oalib, xml, torn, breaks>>

NeedsLib == {"CreateCell", "FindCell", "CreateCellView", "FindCellView",
             "GetPath"}

\* dispatchMessage, for a message that changes something and for one that
\* does not.
Handle(m) ==
    \/ \E l \in Lib : m = <<"CreateLib", l>> /\ HandleCreateLib(l)
    \/ \E l \in Lib : m = <<"OpenLib", l>> /\ HandleOpenLib(l)
    \/ m = <<"CloseLib">> /\ HandleCloseLib
    \/ \E c \in CellName :
          m = <<"CreateCell", c>> /\ db # NoDb /\ HandleCreateCell(c)
    \/ \E c \in CellName, v \in ViewName, t \in TypeName :
          /\ m = <<"CreateCellView", c, v, t>> /\ db # NoDb
          /\ HandleCreateCellView(c, v, t)
    \/ /\ m[1] \notin {"CreateLib", "OpenLib", "CloseLib"}
       /\ ~(m[1] \in {"CreateCell", "CreateCellView"} /\ db # NoDb)
       /\ UNCHANGED <<db, strTbl, oalib, made, xml, torn, breaks>>

Found(b) == IF b THEN "found" ELSE "not found"

Answer(m) ==
    CASE m[1] \in NeedsLib /\ db = NoDb -> "Error"
      [] m[1] = "Unknown" -> "Error"
      [] m[1] = "Ping" -> "Pong"
      [] m[1] = "LibExists" -> Found(m[2] \in oalib)
      [] m[1] = "FindCell" -> Found(FindCell(m[2]))
      [] m[1] = "FindCellView" -> Found(FindCellView(m[2], m[3], m[4]))
      [] OTHER -> "OK"

-----------------------------------------------------------------------------
(* Clients.                                                                *)

Reaches(c) == serves = c \/ c \in ToSet(backlog)

\* Bound: the last connection of that name is forgotten on both sides.
Connect(c) == /\ pc # "off" /\ c \in setting.clients
              /\ client[c] = "none" /\ ~Reaches(c)
              /\ client' = [client EXCEPT ![c] = "idle"]
              /\ backlog' = Append(backlog, c)
              /\ request' = [request EXCEPT ![c] = <<>>]
              /\ half' = [half EXCEPT ![c] = FALSE]
              /\ reply' = [reply EXCEPT ![c] = <<>>]
              /\ amiss' = amiss \ {c}
              /\ UNCHANGED <<pc, serves, turn, tables, storage>>

Become(c, at) == client' = [client EXCEPT ![c] = at]

\* The length is sent before the rest.  Bound: no call is made on a connection
\* that is MaxBehind calls behind.
SendHeader(c) ==
    /\ client[c] = "idle"
    /\ c \in amiss => Len(request[c]) + Len(reply[c]) < MaxBehind
    /\ Become(c, "send")
    /\ turn' = [turn EXCEPT ![c] = 1 - @]
    /\ half' = [half EXCEPT ![c] = Reaches(c)]
    /\ UNCHANGED <<pc, serves, backlog, request, reply, amiss, tables, storage>>

\* After a send that failed the messages are out of step: what is sent now may
\* end the last one, or may not, and more may follow.
SendPayload(c) ==
    /\ client[c] = "send"
    /\ Become(c, "wait")
    /\ \E whole, more \in BOOLEAN :
          /\ IF c \in amiss THEN whole \/ more ELSE whole /\ ~more
          /\ request' = IF whole /\ Reaches(c)
                          THEN [request EXCEPT ![c] = Append(@, turn[c])]
                          ELSE request
          /\ half' = [half EXCEPT ![c] = more /\ Reaches(c)]
    /\ UNCHANGED <<pc, serves, backlog, turn, reply, amiss, tables, storage>>

\* send returns an error, because of a signal, say, or of the server.
SendFails(c) ==
    /\ client[c] = "send"
    /\ setting.fails \/ ~Reaches(c)
    /\ Become(c, "idle")
    /\ amiss' = IF Reaches(c) THEN amiss \cup {c} ELSE amiss
    /\ UNCHANGED <<pc, net, turn, tables, storage>>

\* One reply is read; when they are out of step, a part of one or several.
RecvReply(c) ==
    /\ client[c] = "wait" /\ reply[c] # <<>>
    /\ Become(c, "idle")
    /\ \E k \in 0 .. Len(reply[c]) :
          /\ k = 1 \/ c \in amiss
          /\ reply' = [reply EXCEPT ![c] = SubSeq(@, k + 1, Len(@))]
    /\ UNCHANGED <<pc, serves, backlog, turn, request, half, amiss, tables,
                   storage>>

\* The server has closed the connection, and there is nothing left to read.
RecvEnds(c) ==
    /\ client[c] = "wait" /\ reply[c] = <<>> /\ ~Reaches(c)
    /\ Become(c, "idle")
    /\ UNCHANGED <<pc, net, turn, amiss, tables, storage>>

\* recv returns an error.  The reply, when there is one or there will be, stays
\* for the next call.
RecvFails(c) ==
    /\ setting.fails
    /\ client[c] = "wait" /\ (reply[c] # <<>> \/ Reaches(c))
    /\ Become(c, "idle")
    /\ amiss' = amiss \cup {c}
    /\ UNCHANGED <<pc, net, turn, tables, storage>>

\* The channel is deleted, or the process ends, in the middle of a call too.
Close(c) == /\ client[c] # "none"
            /\ Become(c, "none")
            /\ UNCHANGED <<pc, net, turn, amiss, tables, storage>>

-----------------------------------------------------------------------------
(* The server.                                                             *)

\* A new process, unless the port is taken.
StartServer == /\ setting.clients # {}
               /\ pc = "off"
               /\ pc' = "accept"
               /\ UNCHANGED <<net, client, turn, amiss, tables, storage>>

Accept == /\ pc = "accept" /\ backlog # <<>>
          /\ serves' = Head(backlog)
          /\ backlog' = Tail(backlog)
          /\ pc' = "poll"
          /\ UNCHANGED <<client, turn, request, half, reply, amiss, tables,
                         storage>>

Drop == /\ serves' = Nobody
        /\ request' = [request EXCEPT ![serves] = <<>>]
        /\ half' = [half EXCEPT ![serves] = FALSE]
        /\ pc' = "accept"
        /\ UNCHANGED <<backlog, reply, client, turn, amiss, tables, storage>>

\* Mutant: the poll waits for ever.
NeverTimeout == FALSE /\ UNCHANGED vars

\* The poll is over as soon as there is one byte.
PollTimeout ==
    /\ pc = "poll"
    /\ request[serves] = <<>> /\ ~half[serves] /\ client[serves] # "none"
    /\ Drop

\* CSMsg::recv fails: the other end is closed before the message is whole, or
\* the message is longer than the buffer.
RecvMsgFails ==
    /\ pc = "poll"
    /\ client[serves] = "none" \/ request[serves] # <<>>
    /\ Drop

\* Mutant: the handler goes on after it has said that there is no library.
SayTwice(r) == IF r.says = "Error" THEN <<r, r>> ELSE <<r>>

Say(r) == <<r>>

\* recv, dispatchMessage and the reply.  Sending to a client that is gone
\* fails, which nobody looks at.  Out of step, what is read as one message may be
\* a part of what the client has sent, or several of its messages.  Bound: see
\* SendHeader.
Dispatch(c) ==
    /\ pc = "poll" /\ serves = c
    /\ request[c] # <<>>
    /\ \E m \in {n \in Message : n[1] \in setting.ops} :
          /\ Handle(m)
          /\ \E says \in {Answer(m), "garbage"} :
                reply' = [reply EXCEPT ![c] = @ \o
                              Say([turn |-> Head(request[c]), says |-> says])]
          /\ pc' = IF m = <<"Shutdown">> THEN "stop" ELSE "poll"
    /\ \E k \in 0 .. Len(request[c]), more \in BOOLEAN :
          /\ IF c \in amiss THEN k > 0 \/ Len(reply[c]) < MaxBehind
                            ELSE k = 1 /\ more = half[c]
          /\ request' = [request EXCEPT ![c] = SubSeq(@, k + 1, Len(@))]
          /\ half' = [half EXCEPT ![c] = more]
    /\ UNCHANGED <<serves, backlog, client, turn, amiss, data, mem, writing,
                   setting>>

\* All connections are closed when the process ends, after Shutdown or by a
\* signal; what clients have not read can still be read.
Gone == /\ pc' = "off" /\ serves' = Nobody /\ backlog' = <<>>
        /\ request' = [c \in Client |-> <<>>]
        /\ half' = [c \in Client |-> FALSE]
        /\ db' = NoDb /\ strTbl' = <<>>
        /\ made' = [cells |-> {}, cvs |-> {}]
        /\ UNCHANGED <<reply, client, turn, amiss, oalib, storage>>

Stop == pc = "stop" /\ Gone

Signal == pc # "off" /\ Gone

-----------------------------------------------------------------------------
Init == StorageInit /\ ServerInit

Next == \/ StorageNext /\ UNCHANGED serverVars
        \/ StartServer \/ Accept \/ PollTimeout \/ RecvMsgFails
        \/ Stop \/ Signal
        \/ \E c \in Client :
              \/ Connect(c) \/ SendHeader(c) \/ SendFails(c)
              \/ RecvReply(c) \/ RecvEnds(c) \/ RecvFails(c) \/ Close(c)
              \/ SendPayload(c) \/ Dispatch(c)

Spec == Init /\ [][Next]_vars

\* The server goes on with what it has begun: poll returns after its time, and
\* recv with what has arrived.  A client that waits is told when there is a
\* reply or the other end is closed.  Nobody has to send the rest of a message.
FairSpec ==
    /\ Spec
    /\ WF_vars(Accept) /\ WF_vars(PollTimeout) /\ WF_vars(Stop)
    /\ WF_vars(RecvMsgFails \/ \E c \in Client : Dispatch(c))
    /\ \A c \in Client : WF_vars(RecvReply(c) \/ RecvEnds(c))

-----------------------------------------------------------------------------
(* Properties.                                                             *)

\* As long as no call on a connection has failed, what a client reads is the
\* reply to the call that it makes, once: no request is answered twice or left
\* for the next call, over drops, restarts of the server and connections that
\* are made again, after a failure too.  A client that goes on with a connection on
\* which a call has failed reads the replies of other calls: request() does not
\* close it.
RepliesMatch ==
    \A c \in Client : client[c] # "none" /\ c \notin amiss =>
        /\ client[c] # "wait" => reply[c] = <<>>
        /\ client[c] = "wait" =>
               reply[c] \in {<<>>} \cup {<<[turn |-> turn[c], says |-> s]>> :
                                            s \in Said}

\* The server finds the cells that were made in its library, and no others,
\* and the cell views that were made, whatever libraries were created before:
\* the keys of the string table, which outlives them, stay the same.
MadeIsFound ==
    /\ \A c \in CellName : FindCell(c) <=> c \in made.cells
    /\ \A cv \in made.cvs : FindCellView(cv[1], cv[2], cv[3])

\* A call returns, although a client that says nothing or dies has the only
\* connection that the server looks at, unless some client keeps the server busy
\* for ever or stops in the middle of a message: the five seconds of the poll do
\* not count then.
CallsReturn ==
    \A c \in Client :
        \/ client[c] = "wait" ~> client[c] # "wait"
        \/ \E d \in Client \ {c} : []<><<Dispatch(d)>>_vars
        \/ \E d \in Client : <>[](half[d] /\ client[d] # "none")
=============================================================================
