------------------------------ MODULE GdmWrap ------------------------------
(***************************************************************************)
(* The library through which the Library Manager asks GDM's questions:     *)
(* src/aivivc/gdm/aivivc_gdm_wrap.c.  Every question starts the command    *)
(* aivivc-gdm, reads what it prints from a pipe into a buffer of fixed     *)
(* size, waits for its end and takes the answer from the text; every       *)
(* operation starts the command and waits.  The command is another         *)
(* process: it prints while the wrapper reads, it may fail or be killed    *)
(* at any time, and a full pipe stops it.  What it reports of a path       *)
(* (status_record of aivivc-gdm) is one of the inputs of a call.           *)
(*                                                                         *)
(* A text is a sequence of pieces: a key with its "=", a value or a part   *)
(* of one, a blank.  Sizes count pieces.                                   *)
(***************************************************************************)
EXTENDS Naturals, Sequences

CONSTANTS
  Facts,       \* what may be true of a path of a work area
  NoPath,      \* instead of that, when no path is asked about
  Noise,       \* how much the command may print before its record
  Names,       \* the names of GDM operations
  TokensOf,    \* TokensOf[n]: the words that the name n contains
  Buffer,      \* AIVIVC_GDM_STATUS_BUFFER - 1, in pieces
  Capacity     \* what the pipe holds, in pieces

ASSUME SizesAssumption ==
  /\ Buffer \in Nat \ {0}
  /\ Capacity \in Nat \ {0}
  /\ Noise \subseteq Nat

VARIABLES
  call,    \* the call of the wrapper that is under way, or the last one
  child,   \* its process aivivc-gdm
  pipe,    \* what is in the pipe
  ends     \* the open ends of the pipe: <<process, "read" or "write">>

vars == <<call, child, pipe, ends>>

---------------------------------------------------------------------------
(* What the command reports: status_record and its format.                 *)

CO(f) ==
  IF f.others THEN <<"CO", "E">>
  ELSE IF ~f.update /\ f.mine THEN <<"CO">> ELSE << >>

Perm(f) == IF f.mine /\ f.writable THEN <<"WRI", "TE">> ELSE <<"READ">>

Bit(b) == IF b THEN <<"1">> ELSE <<"0">>

Field(key, value) == <<key>> \o value \o <<"blank">>

(* The wrapper never looks at display and label: they are left out.        *)
StatusCode(f) ==
  Field("co=", CO(f)) \o Field("perm=", Perm(f))
    \o Field("modified=", Bit(f.modified))
    \o Field("deleted=", Bit(f.deleted \/ ~f.exists))
    \o Field("update=", Bit(f.update)) \o Field("managed=", Bit(f.managed))
    \o Field("dir=", Bit(f.dir))

(* Both streams of the command go into the pipe, what it complains about   *)
(* first: the record leaves its buffer when it ends.                       *)
Output(c) == [i \in 1..c.noise |-> "noise"] \o StatusCode(c.facts)

---------------------------------------------------------------------------
(* How the wrapper reads the text.                                         *)

Found(text, key) == \E i \in DOMAIN text : text[i] = key

After(text, key) ==
  LET at == CHOOSE i \in DOMAIN text :
              text[i] = key /\ \A j \in 1..(i - 1) : text[j] # key
  IN  SubSeq(text, at + 1, Len(text))

BoolToken(text, key) ==
  Found(text, key) /\ After(text, key) # << >> /\ Head(After(text, key)) = "1"

(* What the pieces of a word are together; no value has other pieces.      *)
Word(pieces) ==
  IF pieces = << >> THEN ""
  ELSE IF Len(pieces) = 1 THEN pieces[1]
  ELSE IF pieces = <<"CO", "E">> THEN "COE"
  ELSE IF pieces = <<"WRI", "TE">> THEN "WRITE" ELSE "words"

StringTokenToEnd(text, key) ==                                 \* Mutant:
  IF Found(text, key) THEN Word(After(text, key)) ELSE ""

(* Up to the first blank or the end of the text.                           *)
StringToken(text, key) ==
  IF ~Found(text, key) THEN ""
  ELSE LET rest == After(text, key)
           blanks == {i \in DOMAIN rest : rest[i] = "blank"}
       IN  Word(IF blanks = {} THEN rest
                ELSE SubSeq(rest, 1, (CHOOSE i \in blanks :
                                        \A j \in blanks : i <= j) - 1))

(* Names of a state: those of the command, of SOS and of the old adapter.  *)
CoStatus(s) ==
  IF s \in {"", "zCI", "CIN", "zNOTMANAGED", "UNMANAGEABLE"} THEN "null"
  ELSE IF s \in {"zCO", "COUT"} THEN "CO"
  ELSE IF s \in {"zCO_OTHERS", "COTH"} THEN "COE" ELSE s

PermissionStatus(s) ==
  IF s \in {"", "zREAD"} THEN "READ" ELSE IF s = "zWRITE" THEN "WRITE" ELSE s

(* The command for the name of an operation, by the first of these words   *)
(* that the name contains.                                                 *)
NormalizeOperation(name) ==
  LET has == TokensOf[name]
  IN  IF "submit" \in has THEN "submit"
      ELSE IF has \cap {"ci", "checkin"} # {} THEN "ci"
      ELSE IF has \cap {"cancel", "revert"} # {} THEN "cancel"
      ELSE IF has \cap {"delete", "remove"} # {} THEN "delete"
      ELSE IF "update" \in has THEN "update"
      ELSE IF has \cap {"co", "checkout"} # {} THEN "co"
      ELSE IF has \cap {"history", "log"} # {} THEN "history" ELSE "status"

WaitExitOnly(end) == IF end.how = "exit" THEN end.code ELSE 0  \* Mutant:

(* The end of a process as one number.                                     *)
WaitStatus(end) ==
  IF end.how = "exit" THEN end.code ELSE 128 + end.code

(* The slots of the table that ask for the status of a path.               *)
Questions == {"FileHasVersion", "IsManageable", "IsFileUnmanaged", "Co",
              "Del", "Mod", "Permission", "IsDirectory", "Expand",
              "UpdateNeeded"}

YesNo(b) == IF b THEN "yes" ELSE "no"

(* What a slot answers when the status could not be had.                   *)
Denied(slot) ==
  IF slot = "IsFileUnmanaged" THEN "yes"
  ELSE IF slot \in {"Co", "Del", "Mod", "Permission", "Expand"} THEN "null"
  ELSE "no"

(* What a slot makes of the text of a command that ended well.             *)
FromText(slot, text) ==
  IF slot \in {"FileHasVersion", "IsManageable"}
    THEN YesNo(BoolToken(text, "managed="))
  ELSE IF slot = "IsFileUnmanaged" THEN YesNo(~BoolToken(text, "managed="))
  ELSE IF slot = "Co" THEN CoStatus(StringToken(text, "co="))
  ELSE IF slot = "Del"
    THEN IF BoolToken(text, "deleted=") THEN "DEL" ELSE "null"
  ELSE IF slot = "Mod"
    THEN IF BoolToken(text, "modified=") THEN "MOD" ELSE "null"
  ELSE IF slot = "Permission"
    THEN PermissionStatus(StringToken(text, "perm="))
  ELSE IF slot = "IsDirectory" THEN YesNo(BoolToken(text, "dir="))
  ELSE IF slot = "Expand"
    THEN IF BoolToken(text, "dir=") THEN "dir" ELSE "file"
  ELSE YesNo(BoolToken(text, "update="))

StatusForPath(slot, rc, text) ==
  IF rc # 0 THEN Denied(slot) ELSE FromText(slot, text)

---------------------------------------------------------------------------
(* The pipe.                                                               *)

OfParent == {<<"parent", "read">>, <<"parent", "write">>}
OfChild == {<<"child", "read">>, <<"child", "write">>}

Readers == {e \in ends : e[2] = "read"}
Writers == {e \in ends : e[2] = "write"}

(* The ends that a process leaves open; nobody can take what is in a pipe  *)
(* without ends.                                                           *)
Close(closed) ==
  /\ ends' = ends \ closed
  /\ pipe' = IF ends \subseteq closed THEN << >> ELSE pipe

---------------------------------------------------------------------------
NewCall(pc, slot, command, f, n) ==
  [pc |-> pc, slot |-> slot, command |-> command, facts |-> f, noise |-> n,
   rc |-> 0, text |-> << >>, answer |-> "none"]

NoCall == NewCall("idle", "none", "none", NoPath, 0)

NoChild == [pc |-> "none", left |-> << >>,
            end |-> [how |-> "exit", code |-> 0]]

Init ==
  /\ call = NoCall
  /\ child = NoChild
  /\ pipe = << >>
  /\ ends = {}

At(pc) == call.pc = pc

Goto(pc) == call' = [call EXCEPT !.pc = pc]

Returns(rc) == call' = [call EXCEPT !.pc = "answer", !.rc = rc]

(* A slot that asks for the status of a path.                              *)
Ask(slot, f, n) ==
  /\ At("idle")
  /\ call' = NewCall("pipe", slot, "status-code", f, n)
  /\ UNCHANGED <<child, pipe, ends>>

(* dmServerOperation, and aivivcGdmRunForTest with the command's own name: *)
(* what the command prints goes to the terminal.                           *)
Operate(name, f) ==
  /\ At("idle")
  /\ call' = NewCall("fork", "Operation", NormalizeOperation(name), f, 0)
  /\ UNCHANGED <<child, pipe, ends>>

(* More than 256 arguments, or no memory, or no pipe.                      *)
GivesUp ==
  /\ call.pc \in {"pipe", "fork"} /\ ends = {}
  /\ Returns(2)
  /\ UNCHANGED <<child, pipe, ends>>

MakePipe ==
  /\ At("pipe")
  /\ ends' = OfParent
  /\ Goto("fork")
  /\ UNCHANGED <<child, pipe>>

Piped == ends # {}

Fork ==
  /\ At("fork")
  /\ child' = [child EXCEPT !.pc = "starts",
                            !.left = IF Piped THEN Output(call) ELSE << >>]
  /\ ends' = IF Piped THEN ends \cup OfChild ELSE ends
  /\ Goto(IF Piped THEN "close" ELSE "wait")
  /\ UNCHANGED pipe

ForkFailsLeaky ==                                              \* Mutant:
  /\ At("fork")
  /\ Close({<<"parent", "write">>})
  /\ Returns(2)
  /\ UNCHANGED child

(* fork fails: both ends are closed.                                       *)
ForkFails ==
  /\ At("fork")
  /\ Close(OfParent)
  /\ Returns(2)
  /\ UNCHANGED child

(* The parent closes the end it does not use, or it would wait for itself. *)
CloseWrite ==
  /\ At("close")
  /\ Close({<<"parent", "write">>})
  /\ Goto("read")
  /\ UNCHANGED child

Room == Buffer - Len(call.text)

Smaller(a, b) == IF a < b THEN a ELSE b

(* read returns what is there, as much as the buffer has room for.         *)
Read ==
  /\ At("read") /\ pipe # << >> /\ Room > 0
  /\ LET got == Smaller(Len(pipe), Room)
     IN  /\ call' = [call EXCEPT !.text = @ \o SubSeq(pipe, 1, got)]
         /\ pipe' = SubSeq(pipe, got + 1, Len(pipe))
  /\ UNCHANGED <<child, ends>>

(* The buffer is full, or read returns 0 because nobody can write.         *)
ReadsNoMore ==
  /\ At("read") /\ (Room = 0 \/ (pipe = << >> /\ Writers = {}))
  /\ Goto("shut")
  /\ UNCHANGED <<child, pipe, ends>>

(* A signal interrupts read, which is taken for the end of the text.       *)
ReadInterrupted ==
  /\ At("read") /\ Room > 0 /\ pipe = << >>
  /\ Goto("shut")
  /\ UNCHANGED <<child, pipe, ends>>

KeepReadOpen ==                                                \* Mutant:
  /\ At("shut")
  /\ Goto("wait")
  /\ UNCHANGED <<child, pipe, ends>>

CloseRead ==
  /\ At("shut")
  /\ Close({<<"parent", "read">>})
  /\ Goto("wait")
  /\ UNCHANGED child

(* waitpid, again as often as a signal interrupts it.                      *)
Wait ==
  /\ At("wait") /\ child.pc = "ended"
  /\ child' = [child EXCEPT !.pc = "reaped"]
  /\ Returns(WaitStatus(child.end))
  /\ UNCHANGED <<pipe, ends>>

(* There is nothing to wait for: the application ignores SIGCHLD, or has   *)
(* waited for the process elsewhere, and how it ended is not known.        *)
WaitFails ==
  /\ At("wait") /\ child.pc = "ended"
  /\ child' = [child EXCEPT !.pc = "gone"]
  /\ Returns(2)
  /\ UNCHANGED <<pipe, ends>>

Answer ==
  /\ At("answer")
  /\ call' = [call EXCEPT !.pc = "done",
       !.answer = IF call.slot \in Questions
                  THEN StatusForPath(call.slot, call.rc, call.text)
                  ELSE IF call.rc = 0 THEN "yes" ELSE "no"]
  /\ UNCHANGED <<child, pipe, ends>>

(* The caller has its answer; the wrapper keeps nothing of the call.       *)
Leave ==
  /\ At("done")
  /\ call' = NoCall
  /\ child' = NoChild
  /\ UNCHANGED <<pipe, ends>>

---------------------------------------------------------------------------
(* The process aivivc-gdm.                                                 *)

Ends(how, code) ==
  /\ child' = [child EXCEPT !.pc = "ended",
                            !.end = [how |-> how, code |-> code]]
  /\ Close(OfChild)
  /\ UNCHANGED call

ExecKeepsReader ==                                             \* Mutant:
  /\ child.pc = "starts"
  /\ child' = [child EXCEPT !.pc = "runs"]
  /\ UNCHANGED <<call, pipe, ends>>

(* Its output goes to the pipe; it keeps no end for reading.               *)
Exec ==
  /\ child.pc = "starts"
  /\ child' = [child EXCEPT !.pc = "runs"]
  /\ Close({<<"child", "read">>})
  /\ UNCHANGED call

(* There is no such directory, or no such command.                         *)
ExecFails ==
  /\ child.pc = "starts"
  /\ Ends("exit", 127)

Write(n) ==
  /\ child.pc = "runs" /\ Readers # {}
  /\ n <= Len(child.left) /\ Len(pipe) + n <= Capacity
  /\ pipe' = pipe \o SubSeq(child.left, 1, n)
  /\ child' = [child EXCEPT !.left = SubSeq(@, n + 1, Len(@))]
  /\ UNCHANGED <<call, ends>>

(* Nobody will read: SIGPIPE, or an exception at the end.                  *)
BrokenPipe ==
  /\ child.pc = "runs" /\ child.left # << >> /\ Readers = {}
  /\ \/ Ends("signal", 13)
     \/ Ends("exit", 120)

Finish ==
  /\ child.pc = "runs" /\ child.left = << >>
  /\ Ends("exit", 0)

(* The command fails: no work area, an operation that is refused.          *)
Fails ==
  /\ child.pc = "runs"
  /\ Ends("exit", 1)

Killed ==
  /\ child.pc \in {"starts", "runs"}
  /\ Ends("signal", 9)

---------------------------------------------------------------------------
Asks == \E s \in Questions, f \in Facts, n \in Noise : Ask(s, f, n)
Operates == \E m \in Names, f \in Facts : Operate(m, f)
Prints == \E n \in 1..Capacity : Write(n)

Wrapper == \/ GivesUp \/ MakePipe \/ Fork \/ ForkFails \/ CloseWrite \/ Read
           \/ ReadsNoMore \/ ReadInterrupted \/ CloseRead \/ Wait \/ WaitFails
           \/ Answer \/ Leave

Command == Exec \/ ExecFails \/ Prints \/ BrokenPipe \/ Finish \/ Fails
           \/ Killed

Next == Asks \/ Operates \/ Wrapper \/ Command

Spec == Init /\ [][Next]_vars

(* The wrapper has nothing else to do, and the operating system runs both  *)
(* processes: each goes on when it can.  Nothing has to fail, no signal    *)
(* has to come.  That the command ends when it has printed everything is   *)
(* its own promise.                                                        *)
WrapperGoesOn == \/ MakePipe \/ Fork \/ CloseWrite \/ Read \/ ReadsNoMore
                 \/ CloseRead \/ Wait \/ Answer \/ Leave

CommandGoesOn == Exec \/ Prints \/ BrokenPipe \/ Finish

FairSpec == Spec /\ WF_vars(WrapperGoesOn) /\ WF_vars(CommandGoesOn)

---------------------------------------------------------------------------
Returned == At("done")

(* As far as the wrapper has learnt.                                       *)
EndedWell == child.pc = "reaped" /\ child.end = [how |-> "exit", code |-> 0]

(* What a slot should answer of a path: CO for a checkout of one's own,    *)
(* COE for somebody else's, null otherwise (gdm/README.md:64).             *)
Truth(slot, f) ==
  IF slot \in {"FileHasVersion", "IsManageable"} THEN YesNo(f.managed)
  ELSE IF slot = "IsFileUnmanaged" THEN YesNo(~f.managed)
  ELSE IF slot = "Co"
    THEN IF f.others THEN "COE" ELSE IF f.mine THEN "CO" ELSE "null"
  ELSE IF slot = "Del"
    THEN IF f.exists /\ ~f.deleted THEN "null" ELSE "DEL"
  ELSE IF slot = "Mod" THEN IF f.modified THEN "MOD" ELSE "null"
  ELSE IF slot = "Permission"
    THEN IF f.mine /\ f.writable THEN "WRITE" ELSE "READ"
  ELSE IF slot = "IsDirectory" THEN YesNo(f.dir)
  ELSE IF slot = "Expand" THEN IF f.dir THEN "dir" ELSE "file"
  ELSE YesNo(f.update)

(* Of one question the truth is not told: whether a path is checked out    *)
(* that is, in a work area that is behind (see OwnCheckoutIsCO).           *)
Behind(slot, f) == slot = "Co" /\ f.mine /\ f.update /\ ~f.others

(* An answer is the truth or the denial: the truth when the command ended  *)
(* well and its text was read to the end, the denial when it was not       *)
(* started, failed or was killed.  A text that was cut off can only deny   *)
(* what is asked for with a bit.                                           *)
Truthful ==
  (Returned /\ call.slot \in Questions) =>
    /\ ~EndedWell => call.answer = Denied(call.slot)
    /\ (EndedWell /\ call.text = Output(call)
          /\ ~Behind(call.slot, call.facts)) =>
         call.answer = Truth(call.slot, call.facts)
    /\ call.slot \notin {"Co", "Permission", "Expand"} =>
         call.answer \in {Truth(call.slot, call.facts), Denied(call.slot)}

(* What the current user has checked out is reported as checked out        *)
(* (gdm/README.md:21 and 64): status_record says so only when the work     *)
(* area is not behind.                                                     *)
OwnCheckoutIsCO ==
  (Returned /\ call.slot = "Co" /\ EndedWell /\ call.text = Output(call)) =>
    (call.facts.mine /\ ~call.facts.others => call.answer = "CO")

(* An operation succeeds exactly when the wrapper learns that its command  *)
(* ended well: not when it was killed, not started, ended with an error or *)
(* could not be waited for.                                                *)
SuccessIsSuccess ==
  (Returned /\ call.slot = "Operation") =>
    (call.answer = "yes" <=> EndedWell)

(* A call leaves no process and no open end behind, whatever failed.       *)
NothingLeft ==
  Returned => child.pc \in {"none", "reaped", "gone"} /\ ends = {} /\ pipe = << >>

(* Every call returns: the wrapper does not wait for a process that waits  *)
(* for the wrapper.                                                        *)
CallsReturn == ~At("idle") ~> At("idle")
=============================================================================
