--------------------------- MODULE GdmWrapProofs ---------------------------
(***************************************************************************)
(* Theorems about GdmWrap, for any paths, operations and sizes of the      *)
(* buffer and the pipe, whatever fails, is killed or interrupted: a call   *)
(* leaves no process and no descriptor behind, an operation succeeds only  *)
(* if its command did, and an answer is the truth or a denial.             *)
(***************************************************************************)
EXTENDS GdmWrap, SequenceTheorems, TLAPS

\* The fields of the two records.
IsCall(c) ==
  c \in [pc : {c.pc}, slot : {c.slot}, command : {c.command},
         facts : {c.facts}, noise : {c.noise}, rc : {c.rc}, text : {c.text},
         answer : {c.answer}]

\* What a call is about, and what it has read.
Kept(d, c) ==
  /\ d.slot = c.slot /\ d.noise = c.noise /\ d.facts = c.facts
  /\ d.text = c.text

Endings == [how : {"exit", "signal"}, code : Nat]

IsChild(c) ==
  /\ c \in [pc : {c.pc}, left : {c.left}, end : {c.end}]
  /\ c.end \in Endings

Shapes == IsCall(call) /\ IsChild(child)

\* Only a question has a pipe.
HasPipe == call.slot \in Questions

\* Where the two processes can be at the same time.
Together ==
  \/ call.pc \in {"idle", "fork"} /\ child.pc = "none"
  \/ call.pc = "pipe" /\ child.pc = "none" /\ HasPipe
  \/ call.pc = "close" /\ child.pc \in {"starts", "runs", "ended"} /\ HasPipe
  \/ call.pc \in {"read", "shut"} /\ child.pc \in {"starts", "runs", "ended"}
     /\ HasPipe
  \/ call.pc = "wait" /\ child.pc \in {"starts", "runs", "ended"}
  \/ call.pc \in {"answer", "done"} /\ child.pc \in {"none", "reaped", "gone"}

\* The ends that the wrapper has open.
ParentEnds ==
  IF ~HasPipe THEN {}
  ELSE IF call.pc = "fork" \/ call.pc = "close" THEN OfParent
  ELSE IF call.pc = "read" \/ call.pc = "shut" THEN {<<"parent", "read">>}
  ELSE {}

\* Those of the command, while it has any.
ChildEnds ==
  IF ~HasPipe THEN {}
  ELSE IF child.pc = "starts" THEN OfChild
  ELSE IF child.pc = "runs" THEN {<<"child", "write">>}
  ELSE {}

EndsInv == /\ ends = ParentEnds \cup ChildEnds
           /\ ends = {} => pipe = << >>

Well == child.end = [how |-> "exit", code |-> 0]

\* The number that the wrapper has got says how the command ended.
ResultInv ==
  call.pc \in {"answer", "done"} =>
    (call.rc = 0 <=> (child.pc = "reaped" /\ Well))

AnswerInv ==
  call.pc = "done" /\ call.slot = "Operation" =>
    (call.answer = "yes" <=> call.rc = 0)

\* The inductive invariant.
IInv == Shapes /\ Together /\ EndsInv /\ ResultInv /\ AnswerInv

-----------------------------------------------------------------------------
LEMMA Slots == "Operation" \notin Questions /\ "none" \notin Questions
BY DEF Questions

LEMMA NewCallFields ==
    ASSUME NEW pc, NEW slot, NEW command, NEW f, NEW n
    PROVE  \A c : c = NewCall(pc, slot, command, f, n) =>
             /\ IsCall(c) /\ c.pc = pc /\ c.slot = slot /\ c.rc = 0
             /\ c.text = << >> /\ c.noise = n
BY DEF NewCall, IsCall

LEMMA PcRecord ==
    ASSUME NEW c, IsCall(c), NEW pc
    PROVE  \A s : s = [c EXCEPT !.pc = pc] =>
             /\ s.pc = pc /\ s.slot = c.slot /\ s.rc = c.rc
             /\ s.answer = c.answer /\ IsCall(s) /\ Kept(s, c)
BY DEF IsCall, Kept

LEMMA GotoFields ==
    ASSUME IsCall(call), NEW pc, Goto(pc)
    PROVE  /\ IsCall(call') /\ call'.pc = pc /\ call'.slot = call.slot
           /\ call'.rc = call.rc /\ call'.answer = call.answer
           /\ Kept(call', call)
BY PcRecord DEF Goto

LEMMA RcRecord ==
    ASSUME NEW c, IsCall(c), NEW rc
    PROVE  \A s : s = [c EXCEPT !.pc = "answer", !.rc = rc] =>
             /\ s.pc = "answer" /\ s.slot = c.slot /\ s.rc = rc /\ IsCall(s)
             /\ Kept(s, c)
BY DEF IsCall, Kept

LEMMA ReturnsFields ==
    ASSUME IsCall(call), NEW rc, Returns(rc)
    PROVE  /\ IsCall(call') /\ call'.pc = "answer" /\ call'.slot = call.slot
           /\ call'.rc = rc /\ Kept(call', call)
<1>1. call' = [call EXCEPT !.pc = "answer", !.rc = rc]
  BY Zenon DEF Returns
<1> DEFINE r == [call EXCEPT !.pc = "answer", !.rc = rc]
<1>2. r.pc = "answer" /\ r.slot = call.slot /\ r.rc = rc /\ IsCall(r)
      /\ Kept(r, call)
  BY RcRecord
<1>3. call' = r
  BY <1>1
<1> HIDE DEF r
<1> QED BY <1>2, <1>3

LEMMA WaitZero ==
    ASSUME NEW end \in Endings
    PROVE  WaitStatus(end) = 0 <=> end = [how |-> "exit", code |-> 0]
BY DEF WaitStatus, Endings

\* The ends of one process are not those of the other.
LEMMA TwoEnds == OfParent \cap OfChild = {}
BY DEF OfParent, OfChild

LEMMA TextRecord ==
    ASSUME NEW c, IsCall(c), NEW text
    PROVE  \A s : s = [c EXCEPT !.text = text] =>
             /\ s.pc = c.pc /\ s.slot = c.slot /\ s.rc = c.rc
             /\ s.answer = c.answer /\ IsCall(s)
BY DEF IsCall

LEMMA AnswerRecord ==
    ASSUME NEW c, IsCall(c), NEW answer
    PROVE  \A s : s = [c EXCEPT !.pc = "done", !.answer = answer] =>
             /\ s.pc = "done" /\ s.slot = c.slot /\ s.rc = c.rc
             /\ s.answer = answer /\ IsCall(s)
BY DEF IsCall

LEMMA ChildRecord ==
    ASSUME NEW c, IsChild(c), NEW pc, NEW left
    PROVE  \A s : s = [c EXCEPT !.pc = pc, !.left = left]
                  => s.pc = pc /\ s.end = c.end /\ IsChild(s)
BY DEF IsChild

LEMMA PlaceRecord ==
    ASSUME NEW c, IsChild(c), NEW pc
    PROVE  \A s : s = [c EXCEPT !.pc = pc]
                  => s.pc = pc /\ s.end = c.end /\ IsChild(s)
BY DEF IsChild

LEMMA LeftRecord ==
    ASSUME NEW c, IsChild(c), NEW left
    PROVE  \A s : s = [c EXCEPT !.left = left]
                  => s.pc = c.pc /\ s.end = c.end /\ IsChild(s)
BY DEF IsChild

LEMMA EndRecord ==
    ASSUME NEW c, IsChild(c), NEW end \in Endings
    PROVE  \A s : s = [c EXCEPT !.pc = "ended", !.end = end]
                  => s.pc = "ended" /\ s.end = end /\ IsChild(s)
BY DEF IsChild

\* What is in the pipe goes with its last end.
LEMMA Closing ==
    ASSUME NEW closed, Close(closed), ends = {} => pipe = << >>
    PROVE  ends' = ends \ closed /\ (ends' = {} => pipe' = << >>)
BY DEF Close

-----------------------------------------------------------------------------
LEMMA InitOK == Init => IInv
<1> SUFFICES ASSUME Init PROVE IInv
  OBVIOUS
<1>1. IsCall(call) /\ call.pc = "idle" /\ call.slot = "none"
  BY NewCallFields DEF Init, NoCall
<1>2. IsChild(child) /\ child.pc = "none"
  BY DEF Init, NoChild, IsChild, Endings
<1>3. Together /\ ResultInv /\ AnswerInv
  BY <1>1, <1>2 DEF Together, ResultInv, AnswerInv
<1>4. EndsInv
  BY <1>1, <1>2, Slots DEF Init, EndsInv, ParentEnds, ChildEnds, HasPipe
<1> QED BY <1>1, <1>2, <1>3, <1>4 DEF IInv, Shapes

LEMMA AskOK ==
    ASSUME IInv, NEW slot \in Questions, NEW f, NEW n, Ask(slot, f, n)
    PROVE  IInv'
<1>1. /\ IsCall(call') /\ call'.pc = "pipe" /\ call'.slot = slot
      /\ call.pc = "idle" /\ UNCHANGED <<child, pipe, ends>>
  BY NewCallFields DEF Ask, At
<1>2. Together' /\ ResultInv' /\ AnswerInv'
  BY <1>1 DEF IInv, Together, ResultInv, AnswerInv, HasPipe
<1>3. EndsInv'
  BY <1>1 DEF IInv, Together, EndsInv, ParentEnds, ChildEnds, HasPipe
<1> QED BY <1>1, <1>2, <1>3 DEF IInv, Shapes

LEMMA OperateOK ==
    ASSUME IInv, NEW name, NEW f, Operate(name, f)
    PROVE  IInv'
<1>1. /\ IsCall(call') /\ call'.pc = "fork" /\ call'.slot = "Operation"
      /\ call.pc = "idle" /\ UNCHANGED <<child, pipe, ends>>
  BY NewCallFields DEF Operate, At
<1>2. Together' /\ ResultInv' /\ AnswerInv'
  BY <1>1 DEF IInv, Together, ResultInv, AnswerInv
<1>3. EndsInv'
  BY <1>1, Slots DEF IInv, Together, EndsInv, ParentEnds, ChildEnds, HasPipe
<1> QED BY <1>1, <1>2, <1>3 DEF IInv, Shapes

\* A step of the wrapper to another place, with the ends that go with it.
LEMMA GoesTo ==
    ASSUME IInv, NEW pc, Goto(pc), Together', EndsInv',
           pc \notin {"answer", "done"}, UNCHANGED child
    PROVE  IInv'
<1>1. IsCall(call') /\ call'.pc = pc
  BY GotoFields DEF IInv, Shapes
<1>2. ResultInv' /\ AnswerInv'
  BY <1>1 DEF ResultInv, AnswerInv
<1> QED BY <1>1, <1>2 DEF IInv, Shapes

LEMMA MakePipeOK == ASSUME IInv, MakePipe PROVE IInv'
<1>1. /\ call.pc = "pipe" /\ call'.pc = "fork" /\ call'.slot = call.slot
      /\ ends' = OfParent /\ UNCHANGED <<child, pipe>>
  BY GotoFields DEF MakePipe, At, IInv, Shapes
<1>2. Together'
  BY <1>1 DEF IInv, Together
<1>3. OfParent # {}
  BY DEF OfParent
<1>4. child.pc = "none" /\ HasPipe
  BY <1>1 DEF IInv, Together
<1>5. HasPipe' /\ EndsInv'
  BY <1>1, <1>3, <1>4
  DEF IInv, EndsInv, ParentEnds, ChildEnds, HasPipe
<1> QED BY <1>2, <1>5, GoesTo DEF MakePipe

LEMMA CloseWriteOK == ASSUME IInv, CloseWrite PROVE IInv'
<1>1. /\ call.pc = "close" /\ call'.pc = "read" /\ call'.slot = call.slot
      /\ UNCHANGED child /\ Close({<<"parent", "write">>})
  BY GotoFields DEF CloseWrite, At, IInv, Shapes
<1>2. HasPipe /\ Together'
  BY <1>1 DEF IInv, Together, HasPipe
<1>3. /\ ends' = ends \ {<<"parent", "write">>}
      /\ ends' = {} => pipe' = << >>
  BY <1>1, Closing DEF IInv, EndsInv
<1>4. ends = OfParent \cup ChildEnds
  BY <1>1, <1>2 DEF IInv, EndsInv, ParentEnds
<1>5. OfParent \ {<<"parent", "write">>} = {<<"parent", "read">>}
  BY DEF OfParent
<1>6. <<"parent", "write">> \notin ChildEnds
  BY DEF ChildEnds, OfChild
<1>7. ends' = {<<"parent", "read">>} \cup ChildEnds
  BY <1>3, <1>4, <1>5, <1>6
<1>8. EndsInv'
  BY <1>1, <1>2, <1>3, <1>7
  DEF EndsInv, ParentEnds, ChildEnds, HasPipe
<1> QED BY <1>1, <1>2, <1>8, GoesTo DEF CloseWrite

LEMMA ReadsNoMoreOK ==
    ASSUME IInv, ReadsNoMore \/ ReadInterrupted PROVE IInv'
<1>1. /\ call.pc = "read" /\ call'.pc = "shut" /\ call'.slot = call.slot
      /\ Goto("shut") /\ UNCHANGED <<child, pipe, ends>>
  BY GotoFields DEF ReadsNoMore, ReadInterrupted, At, IInv, Shapes
<1>2. Together'
  BY <1>1 DEF IInv, Together, HasPipe
<1>3. EndsInv'
  BY <1>1 DEF IInv, EndsInv, ParentEnds, ChildEnds, HasPipe
<1> QED BY <1>1, <1>2, <1>3, GoesTo

LEMMA CloseReadOK == ASSUME IInv, CloseRead PROVE IInv'
<1>1. /\ call.pc = "shut" /\ call'.pc = "wait" /\ call'.slot = call.slot
      /\ UNCHANGED child /\ Close({<<"parent", "read">>})
  BY GotoFields DEF CloseRead, At, IInv, Shapes
<1>2. HasPipe /\ Together'
  BY <1>1 DEF IInv, Together, HasPipe
<1>3. /\ ends' = ends \ {<<"parent", "read">>}
      /\ ends' = {} => pipe' = << >>
  BY <1>1, Closing DEF IInv, EndsInv
<1>4. ends = {<<"parent", "read">>} \cup ChildEnds
  BY <1>1, <1>2 DEF IInv, EndsInv, ParentEnds
<1>5. <<"parent", "read">> \notin ChildEnds
  BY DEF ChildEnds, OfChild
<1>6. ends' = ChildEnds
  BY <1>3, <1>4, <1>5
<1>7. EndsInv'
  BY <1>1, <1>2, <1>3, <1>6
  DEF EndsInv, ParentEnds, ChildEnds, HasPipe
<1> QED BY <1>1, <1>2, <1>7, GoesTo DEF CloseRead

LEMMA ReadOK == ASSUME IInv, Read PROVE IInv'
<1> DEFINE text == call.text \o SubSeq(pipe, 1, Smaller(Len(pipe), Room))
           new == [call EXCEPT !.text = text]
<1>1. /\ call.pc = "read" /\ pipe # << >> /\ UNCHANGED <<child, ends>>
      /\ call' = new
  BY DEF Read, At
<1> HIDE DEF text
<1>2. /\ new.pc = call.pc /\ new.slot = call.slot /\ new.rc = call.rc
      /\ IsCall(new)
  BY TextRecord DEF IInv, Shapes
<1> HIDE DEF new
<1>3. /\ IsCall(call') /\ call'.pc = "read" /\ call'.slot = call.slot
  BY <1>1, <1>2
<1>4. Together' /\ ResultInv' /\ AnswerInv'
  BY <1>1, <1>3 DEF IInv, Together, ResultInv, AnswerInv, HasPipe
<1>5. EndsInv'
  BY <1>1, <1>3 DEF IInv, EndsInv, ParentEnds, ChildEnds, HasPipe
<1> QED BY <1>1, <1>3, <1>4, <1>5 DEF IInv, Shapes

LEMMA ForkOK == ASSUME IInv, Fork PROVE IInv'
<1> DEFINE left == IF Piped THEN Output(call) ELSE << >>
           new == [child EXCEPT !.pc = "starts", !.left = left]
<1>1. /\ call.pc = "fork" /\ child' = new /\ UNCHANGED pipe
      /\ ends' = IF Piped THEN ends \cup OfChild ELSE ends
      /\ Goto(IF Piped THEN "close" ELSE "wait")
  BY DEF Fork, At
<1> HIDE DEF left
<1>2. new.pc = "starts" /\ new.end = child.end /\ IsChild(new)
  BY ChildRecord DEF IInv, Shapes
<1> HIDE DEF new
<1>3. IsChild(child') /\ child'.pc = "starts"
  BY <1>1, <1>2
<1>4. /\ IsCall(call') /\ call'.pc = (IF Piped THEN "close" ELSE "wait")
      /\ call'.slot = call.slot
  BY <1>1, GotoFields DEF IInv, Shapes
<1>5. child.pc = "none"
  BY <1>1 DEF IInv, Together
<1>6. ends = IF HasPipe THEN OfParent ELSE {}
  BY <1>1, <1>5 DEF IInv, EndsInv, ParentEnds, ChildEnds
<1>7. Piped <=> HasPipe
  BY <1>6 DEF Piped, OfParent
<1>8. Together' /\ ResultInv' /\ AnswerInv'
  BY <1>3, <1>4, <1>7 DEF Together, ResultInv, AnswerInv, HasPipe
<1>9. EndsInv'
  <2>1. CASE HasPipe
    <3>1. ends' = OfParent \cup OfChild /\ OfParent # {}
      BY <1>1, <1>6, <1>7, <2>1 DEF OfParent
    <3> QED BY <1>3, <1>4, <1>7, <2>1, <3>1
            DEF EndsInv, ParentEnds, ChildEnds, HasPipe
  <2>2. CASE ~HasPipe
    <3>1. ends' = {} /\ pipe' = << >>
      BY <1>1, <1>6, <1>7, <2>2 DEF IInv, EndsInv
    <3> QED BY <1>4, <2>2, <3>1 DEF EndsInv, ParentEnds, ChildEnds, HasPipe
  <2> QED BY <2>1, <2>2
<1> QED BY <1>3, <1>4, <1>8, <1>9 DEF IInv, Shapes

\* The wrapper has a result when it has no end of the pipe any more.
LEMMA ReturnsOK ==
    ASSUME IInv, NEW rc, Returns(rc),
           child'.pc \in {"none", "reaped", "gone"}, IsChild(child'),
           ends' = {}, pipe' = << >>,
           rc = 0 <=> (child'.pc = "reaped" /\ Well')
    PROVE  IInv'
<1>1. /\ IsCall(call') /\ call'.pc = "answer" /\ call'.slot = call.slot
      /\ call'.rc = rc
  BY ReturnsFields DEF IInv, Shapes
<1>2. Together' /\ ResultInv' /\ AnswerInv'
  BY <1>1 DEF Together, ResultInv, AnswerInv
<1>3. EndsInv'
  BY <1>1 DEF EndsInv, ParentEnds, ChildEnds
<1> QED BY <1>1, <1>2, <1>3 DEF IInv, Shapes

LEMMA GivesUpOK == ASSUME IInv, GivesUp PROVE IInv'
<1>1. /\ call.pc \in {"pipe", "fork"} /\ ends' = {} /\ ends = {}
      /\ Returns(2) /\ UNCHANGED <<child, pipe>>
  BY DEF GivesUp
<1>2. child'.pc = "none" /\ IsChild(child') /\ pipe' = << >>
  BY <1>1 DEF IInv, Shapes, Together, EndsInv
<1> QED BY <1>1, <1>2, ReturnsOK

LEMMA ForkFailsOK == ASSUME IInv, ForkFails PROVE IInv'
<1>1. /\ call.pc = "fork" /\ Close(OfParent) /\ Returns(2)
      /\ UNCHANGED child
  BY DEF ForkFails, At
<1>2. child.pc = "none" /\ IsChild(child)
  BY <1>1 DEF IInv, Shapes, Together
<1>3. ends \subseteq OfParent
  BY <1>1, <1>2 DEF IInv, EndsInv, ParentEnds, ChildEnds
<1>4. ends' = {} /\ pipe' = << >>
  BY <1>1, <1>3, Closing DEF IInv, EndsInv
<1> QED BY <1>1, <1>2, <1>4, ReturnsOK

LEMMA WaitOK == ASSUME IInv, Wait PROVE IInv'
<1> DEFINE new == [child EXCEPT !.pc = "reaped"]
<1>1. /\ call.pc = "wait" /\ child.pc = "ended" /\ child' = new
      /\ Returns(WaitStatus(child.end)) /\ UNCHANGED <<pipe, ends>>
  BY DEF Wait, At
<1>2. new.pc = "reaped" /\ new.end = child.end /\ IsChild(new)
  BY PlaceRecord DEF IInv, Shapes
<1> HIDE DEF new
<1>3. child'.pc = "reaped" /\ child'.end = child.end /\ IsChild(child')
  BY <1>1, <1>2
<1>4. ends' = {} /\ pipe' = << >>
  BY <1>1 DEF IInv, EndsInv, ParentEnds, ChildEnds
<1>5. WaitStatus(child.end) = 0 <=> Well'
  <2>1. child.end \in Endings
    BY DEF IInv, Shapes, IsChild
  <2> QED BY <1>3, <2>1, WaitZero DEF Well
<1> QED BY <1>1, <1>3, <1>4, <1>5, ReturnsOK

LEMMA WaitFailsOK == ASSUME IInv, WaitFails PROVE IInv'
<1> DEFINE new == [child EXCEPT !.pc = "gone"]
<1>1. /\ call.pc = "wait" /\ child.pc = "ended" /\ child' = new
      /\ Returns(2) /\ UNCHANGED <<pipe, ends>>
  BY DEF WaitFails, At
<1>2. new.pc = "gone" /\ IsChild(new)
  BY PlaceRecord DEF IInv, Shapes
<1> HIDE DEF new
<1>3. child'.pc = "gone" /\ IsChild(child')
  BY <1>1, <1>2
<1>4. ends' = {} /\ pipe' = << >>
  BY <1>1 DEF IInv, EndsInv, ParentEnds, ChildEnds
<1> QED BY <1>1, <1>3, <1>4, ReturnsOK

LEMMA AnswerOK == ASSUME IInv, Answer PROVE IInv'
<1> DEFINE answer == IF call.slot \in Questions
                     THEN StatusForPath(call.slot, call.rc, call.text)
                     ELSE IF call.rc = 0 THEN "yes" ELSE "no"
           new == [call EXCEPT !.pc = "done", !.answer = answer]
<1>1. /\ call.pc = "answer" /\ UNCHANGED <<child, pipe, ends>>
      /\ call' = new
  BY DEF Answer, At
<1>2. call.slot = "Operation" => (answer = "yes" <=> call.rc = 0)
  BY Slots
<1> HIDE DEF answer
<1>3. /\ new.pc = "done" /\ new.slot = call.slot /\ new.rc = call.rc
      /\ new.answer = answer /\ IsCall(new)
  BY AnswerRecord DEF IInv, Shapes
<1> HIDE DEF new
<1>4. /\ IsCall(call') /\ call'.pc = "done" /\ call'.slot = call.slot
      /\ call'.rc = call.rc /\ call'.answer = answer
  BY <1>1, <1>3
<1>5. Together' /\ ResultInv' /\ AnswerInv'
  BY <1>1, <1>2, <1>4 DEF IInv, Together, ResultInv, AnswerInv, Well
<1>6. EndsInv'
  BY <1>1, <1>4 DEF IInv, EndsInv, ParentEnds, ChildEnds, HasPipe
<1> QED BY <1>1, <1>4, <1>5, <1>6 DEF IInv, Shapes

LEMMA LeaveOK == ASSUME IInv, Leave PROVE IInv'
<1>1. /\ call.pc = "done" /\ call' = NoCall /\ child' = NoChild
      /\ UNCHANGED <<pipe, ends>>
  BY DEF Leave, At
<1>2. IsCall(call') /\ call'.pc = "idle" /\ call'.slot = "none"
  BY <1>1, NewCallFields DEF NoCall
<1>3. IsChild(child') /\ child'.pc = "none"
  BY <1>1 DEF NoChild, IsChild, Endings
<1>4. Together' /\ ResultInv' /\ AnswerInv'
  BY <1>2, <1>3 DEF Together, ResultInv, AnswerInv
<1>5. ends = {} /\ pipe = << >>
  BY <1>1 DEF IInv, EndsInv, Together, ParentEnds, ChildEnds
<1>6. EndsInv'
  BY <1>1, <1>2, <1>5, Slots DEF EndsInv, ParentEnds, ChildEnds, HasPipe
<1> QED BY <1>2, <1>3, <1>4, <1>6 DEF IInv, Shapes

-----------------------------------------------------------------------------
\* The command ends, whatever the reason.
LEMMA EndsOK ==
    ASSUME IInv, NEW how \in {"exit", "signal"}, NEW code \in Nat,
           Ends(how, code), child.pc \in {"starts", "runs"}
    PROVE  IInv'
<1> DEFINE end == [how |-> how, code |-> code]
           new == [child EXCEPT !.pc = "ended", !.end = end]
<1>1. child' = new /\ Close(OfChild) /\ UNCHANGED call
  BY DEF Ends
<1>0. end \in Endings
  BY DEF Endings
<1> HIDE DEF end
<1>2. new.pc = "ended" /\ new.end = end /\ IsChild(new)
  BY <1>0, EndRecord DEF IInv, Shapes
<1> HIDE DEF new
<1>3. child'.pc = "ended" /\ IsChild(child')
  BY <1>1, <1>2
<1>4. Together' /\ ResultInv' /\ AnswerInv'
  BY <1>1, <1>3 DEF IInv, Together, ResultInv, AnswerInv, HasPipe
<1>5. /\ ends' = ends \ OfChild
      /\ ends' = {} => pipe' = << >>
  BY <1>1, Closing DEF IInv, EndsInv
<1>6. ChildEnds \subseteq OfChild /\ ChildEnds' = {}
  BY <1>3 DEF ChildEnds, OfChild
<1>7. ParentEnds \cap OfChild = {} /\ ParentEnds' = ParentEnds
  BY <1>1 DEF ParentEnds, OfParent, OfChild, HasPipe
<1>8. ends = ParentEnds \cup ChildEnds
  BY DEF IInv, EndsInv
<1>9. ends' = ParentEnds' \cup ChildEnds'
  BY <1>5, <1>6, <1>7, <1>8
<1> QED BY <1>1, <1>3, <1>4, <1>5, <1>9 DEF IInv, Shapes, EndsInv

LEMMA ExecOK == ASSUME IInv, Exec PROVE IInv'
<1> DEFINE new == [child EXCEPT !.pc = "runs"]
<1>1. /\ child.pc = "starts" /\ child' = new /\ UNCHANGED call
      /\ Close({<<"child", "read">>})
  BY DEF Exec
<1>2. new.pc = "runs" /\ new.end = child.end /\ IsChild(new)
  BY PlaceRecord DEF IInv, Shapes
<1> HIDE DEF new
<1>3. child'.pc = "runs" /\ IsChild(child')
  BY <1>1, <1>2
<1>4. Together' /\ ResultInv' /\ AnswerInv'
  BY <1>1, <1>3 DEF IInv, Together, ResultInv, AnswerInv, HasPipe
<1>5. /\ ends' = ends \ {<<"child", "read">>}
      /\ ends' = {} => pipe' = << >>
  BY <1>1, Closing DEF IInv, EndsInv
<1>6. ChildEnds' = ChildEnds \ {<<"child", "read">>}
  BY <1>1, <1>3 DEF ChildEnds, OfChild, HasPipe
<1>7. <<"child", "read">> \notin ParentEnds /\ ParentEnds' = ParentEnds
  BY <1>1 DEF ParentEnds, OfParent, HasPipe
<1>8. ends = ParentEnds \cup ChildEnds
  BY DEF IInv, EndsInv
<1>9. ends' = ParentEnds' \cup ChildEnds'
  BY <1>5, <1>6, <1>7, <1>8
<1> QED BY <1>1, <1>3, <1>4, <1>5, <1>9 DEF IInv, Shapes, EndsInv

LEMMA WriteOK == ASSUME IInv, NEW n, Write(n) PROVE IInv'
<1> DEFINE left == SubSeq(child.left, n + 1, Len(child.left))
           new == [child EXCEPT !.left = left]
<1>1. /\ child.pc = "runs" /\ child' = new /\ UNCHANGED <<call, ends>>
      /\ ends # {}
  BY DEF Write, Readers
<1> HIDE DEF left
<1>2. new.pc = child.pc /\ new.end = child.end /\ IsChild(new)
  BY LeftRecord DEF IInv, Shapes
<1> HIDE DEF new
<1>3. child'.pc = "runs" /\ IsChild(child') /\ child'.end = child.end
  BY <1>1, <1>2
<1>4. Together' /\ ResultInv' /\ AnswerInv'
  BY <1>1, <1>3 DEF IInv, Together, ResultInv, AnswerInv, HasPipe
<1>5. EndsInv'
  BY <1>1, <1>3 DEF IInv, EndsInv, ParentEnds, ChildEnds, HasPipe
<1> QED BY <1>1, <1>3, <1>4, <1>5 DEF IInv, Shapes

-----------------------------------------------------------------------------
LEMMA NextOK == IInv /\ [Next]_vars => IInv'
<1> SUFFICES ASSUME IInv, [Next]_vars PROVE IInv'
  OBVIOUS
<1>1. CASE Asks
  BY <1>1, AskOK DEF Asks
<1>2. CASE Operates
  BY <1>2, OperateOK DEF Operates
<1>3. CASE Wrapper
  BY <1>3, GivesUpOK, MakePipeOK, ForkOK, ForkFailsOK, CloseWriteOK, ReadOK,
     ReadsNoMoreOK, CloseReadOK, WaitOK, WaitFailsOK, AnswerOK, LeaveOK
  DEF Wrapper
<1>4. CASE Command
  <2>1. CASE Exec
    BY <2>1, ExecOK
  <2>2. CASE Prints
    BY <2>2, WriteOK DEF Prints
  <2>3. CASE ExecFails
    BY <2>3, EndsOK DEF ExecFails
  <2>4. CASE BrokenPipe
    BY <2>4, EndsOK DEF BrokenPipe
  <2>5. CASE Finish
    BY <2>5, EndsOK DEF Finish
  <2>6. CASE Fails
    BY <2>6, EndsOK DEF Fails
  <2>7. CASE Killed
    BY <2>7, EndsOK DEF Killed
  <2> QED BY <1>4, <2>1, <2>2, <2>3, <2>4, <2>5, <2>6, <2>7 DEF Command
<1>5. CASE UNCHANGED vars
  BY <1>5 DEF vars, IInv, Shapes, IsCall, IsChild, Together, EndsInv,
     ParentEnds, ChildEnds, HasPipe, ResultInv, AnswerInv, Well
<1> QED BY <1>1, <1>2, <1>3, <1>4, <1>5 DEF Next

LEMMA Inductive == Spec => []IInv
BY InitOK, NextOK, PTL DEF Spec

\* A call leaves no process and no open end of the pipe behind, whichever of
\* its steps fails and wherever the command is killed: ParentEnds and ChildEnds
\* follow every exit of aivivc_gdm_run_capture.
THEOREM CallsLeaveNothing == Spec => []NothingLeft
<1>1. ASSUME IInv, Returned PROVE child.pc \in {"none", "reaped", "gone"}
                                  /\ ends = {} /\ pipe = << >>
  BY <1>1 DEF Returned, At, IInv, Together, EndsInv, ParentEnds, ChildEnds
<1>2. IInv => NothingLeft
  BY <1>1 DEF NothingLeft
<1> QED BY <1>2, Inductive, PTL

\* An operation succeeds only if its command ran to its end without an error.
THEOREM OperationsAreHonest == Spec => []SuccessIsSuccess
<1>1. ASSUME IInv, Returned, call.slot = "Operation"
      PROVE  call.answer = "yes" <=> EndedWell
  BY <1>1 DEF Returned, At, IInv, ResultInv, AnswerInv, EndedWell, Well
<1>2. IInv => SuccessIsSuccess
  BY <1>1 DEF SuccessIsSuccess
<1> QED BY <1>2, Inductive, PTL

-----------------------------------------------------------------------------
(* What a text says, and how the wrapper finds it.                          *)

\* The pieces of which texts are made.
Keys == {"co=", "perm=", "modified=", "deleted=", "update=", "managed=",
         "dir="}
Values == {"CO", "E", "READ", "WRI", "TE", "0", "1"}
Letters == Keys \cup Values \cup {"noise", "blank"}

\* A text that lacks a key, and one whose first such key has the value v.
Lacks(s, k) == \A i \in 1..Len(s) : s[i] # k

SaysAt(s, k, v, p) ==
  /\ p \in 1..Len(s) /\ p + Len(v) + 1 <= Len(s)
  /\ s[p] = k /\ s[p + Len(v) + 1] = "blank"
  /\ \A i \in 1..(p - 1) : s[i] # k
  /\ \A i \in 1..Len(v) : s[p + i] = v[i]

Says(s, k, v) == \E p \in Nat : SaysAt(s, k, v, p)

LEMMA Joined ==
    ASSUME NEW a \in Seq(Letters), NEW b \in Seq(Letters)
    PROVE  /\ a \o b \in Seq(Letters) /\ Len(a \o b) = Len(a) + Len(b)
           /\ Len(a) \in Nat /\ Len(b) \in Nat
           /\ \A i \in 1..Len(a) : (a \o b)[i] = a[i]
           /\ \A i \in 1..Len(b) : (a \o b)[Len(a) + i] = b[i]
OBVIOUS

LEMMA LacksBoth ==
    ASSUME NEW a \in Seq(Letters), NEW b \in Seq(Letters), NEW k,
           Lacks(a, k), Lacks(b, k)
    PROVE  Lacks(a \o b, k)
<1> DEFINE s == a \o b
<1>1. /\ Len(s) = Len(a) + Len(b) /\ Len(a) \in Nat /\ Len(b) \in Nat
      /\ \A i \in 1..Len(a) : s[i] = a[i]
      /\ \A i \in 1..Len(b) : s[Len(a) + i] = b[i]
  BY Joined
<1> HIDE DEF s
<1>2. ASSUME NEW i \in 1..Len(s) PROVE s[i] # k
  <2>1. CASE i <= Len(a)
    BY <1>1, <2>1 DEF Lacks
  <2>2. CASE i > Len(a)
    <3>1. i - Len(a) \in 1..Len(b) /\ i = Len(a) + (i - Len(a))
      BY <1>1, <2>2
    <3>2. s[Len(a) + (i - Len(a))] = b[i - Len(a)]
      BY <1>1, <3>1
    <3> QED BY <3>1, <3>2 DEF Lacks
  <2> QED BY <1>1, <2>1, <2>2
<1> QED BY <1>2 DEF Lacks, s

\* What a text says it says with more behind it.
LEMMA SaysMore ==
    ASSUME NEW a \in Seq(Letters), NEW b \in Seq(Letters), NEW k,
           NEW v \in Seq(Letters), Says(a, k, v)
    PROVE  Says(a \o b, k, v)
<1> DEFINE s == a \o b
<1>1. /\ Len(s) = Len(a) + Len(b) /\ Len(a) \in Nat /\ Len(b) \in Nat
      /\ \A i \in 1..Len(a) : s[i] = a[i]
  BY Joined
<1> HIDE DEF s
<1>2. Len(v) \in Nat
  OBVIOUS
<1>3. PICK p \in Nat : SaysAt(a, k, v, p)
  BY DEF Says
<1>4. /\ p \in 1..Len(a) /\ p + Len(v) + 1 \in 1..Len(a)
      /\ p \in 1..Len(s) /\ p + Len(v) + 1 <= Len(s)
  <2>1. p \in 1..Len(a) /\ p + Len(v) + 1 <= Len(a)
    BY <1>3 DEF SaysAt
  <2> QED BY <1>1, <1>2, <2>1
<1>5. /\ a[p] = k /\ a[p + Len(v) + 1] = "blank"
      /\ \A i \in 1..(p - 1) : a[i] # k
      /\ \A i \in 1..Len(v) : a[p + i] = v[i]
  BY <1>3 DEF SaysAt
<1>6. s[p] = k /\ s[p + Len(v) + 1] = "blank"
  BY <1>1, <1>4, <1>5
<1>7. ASSUME NEW i \in 1..(p - 1) PROVE s[i] # k
  <2>1. i \in 1..Len(a)
    BY <1>1, <1>4
  <2> QED BY <1>1, <1>5, <2>1
<1>8. ASSUME NEW i \in 1..Len(v) PROVE s[p + i] = v[i]
  <2>1. p + i \in 1..Len(a)
    BY <1>1, <1>2, <1>4
  <2> QED BY <1>1, <1>5, <2>1
<1>9. SaysAt(s, k, v, p)
  BY <1>4, <1>6, <1>7, <1>8 DEF SaysAt
<1> QED BY <1>9 DEF Says, s

\* And with more before it that lacks the key.
LEMMA SaysLater ==
    ASSUME NEW a \in Seq(Letters), NEW b \in Seq(Letters), NEW k,
           NEW v \in Seq(Letters), Lacks(a, k), Says(b, k, v)
    PROVE  Says(a \o b, k, v)
<1> DEFINE s == a \o b
<1>1. /\ Len(s) = Len(a) + Len(b) /\ Len(a) \in Nat /\ Len(b) \in Nat
      /\ \A i \in 1..Len(a) : s[i] = a[i]
      /\ \A i \in 1..Len(b) : s[Len(a) + i] = b[i]
  BY Joined
<1> HIDE DEF s
<1>2. Len(v) \in Nat
  OBVIOUS
<1>3. PICK p \in Nat : SaysAt(b, k, v, p)
  BY DEF Says
<1> DEFINE q == Len(a) + p
<1>4. /\ q \in 1..Len(s) /\ q + Len(v) + 1 <= Len(s)
      /\ p \in 1..Len(b) /\ p + Len(v) + 1 \in 1..Len(b)
      /\ q + Len(v) + 1 = Len(a) + (p + Len(v) + 1)
  <2>1. p \in 1..Len(b) /\ p + Len(v) + 1 <= Len(b)
    BY <1>3 DEF SaysAt
  <2> QED BY <1>1, <1>2, <2>1
<1>5. s[q] = k /\ s[q + Len(v) + 1] = "blank"
  BY <1>1, <1>3, <1>4 DEF SaysAt
<1>6. ASSUME NEW i \in 1..(q - 1) PROVE s[i] # k
  <2>1. CASE i <= Len(a)
    BY <1>1, <2>1 DEF Lacks
  <2>2. CASE i > Len(a)
    <3>1. /\ i - Len(a) \in 1..Len(b) /\ i - Len(a) \in 1..(p - 1)
          /\ i = Len(a) + (i - Len(a))
      BY <1>1, <1>4, <2>2
    <3>2. s[Len(a) + (i - Len(a))] = b[i - Len(a)]
      BY <1>1, <3>1
    <3> QED BY <1>3, <3>1, <3>2 DEF SaysAt
  <2> QED BY <1>1, <2>1, <2>2
<1>7. ASSUME NEW i \in 1..Len(v) PROVE s[q + i] = v[i]
  <2>1. p + i \in 1..Len(b) /\ q + i = Len(a) + (p + i)
    BY <1>1, <1>2, <1>4
  <2>2. s[Len(a) + (p + i)] = b[p + i]
    BY <1>1, <2>1
  <2> QED BY <1>3, <2>1, <2>2 DEF SaysAt
<1>8. q \in Nat
  BY <1>1
<1> HIDE DEF q
<1>9. SaysAt(s, k, v, q)
  BY <1>4, <1>5, <1>6, <1>7 DEF SaysAt
<1> QED BY <1>8, <1>9 DEF Says, s

LEMMA One ==
    ASSUME NEW S, NEW x \in S
    PROVE  <<x>> \in Seq(S) /\ Len(<<x>>) = 1 /\ <<x>>[1] = x
OBVIOUS

\* A key, a value and a blank, piece by piece.
LEMMA Pieces ==
    ASSUME NEW one \in Seq(Letters), NEW v \in Seq(Letters),
           NEW blank \in Seq(Letters), Len(one) = 1, Len(blank) = 1
    PROVE  \E s \in Seq(Letters) :
             /\ s = one \o v \o blank
             /\ Len(s) = Len(v) + 2
             /\ s[1] = one[1] /\ s[Len(v) + 2] = blank[1]
             /\ \A i \in 1..Len(v) : s[1 + i] = v[i]
<1>1. PICK kv \in Seq(Letters) : kv = one \o v
  BY Joined
<1>2. /\ Len(kv) = Len(v) + 1 /\ Len(v) \in Nat /\ kv[1] = one[1]
      /\ \A i \in 1..Len(v) : kv[1 + i] = v[i]
  <2>1. /\ Len(kv) = 1 + Len(v) /\ Len(v) \in Nat
        /\ \A i \in 1..1 : kv[i] = one[i]
        /\ \A i \in 1..Len(v) : kv[1 + i] = v[i]
    <3>1. /\ Len(one \o v) = Len(one) + Len(v) /\ Len(v) \in Nat
          /\ \A i \in 1..Len(one) : (one \o v)[i] = one[i]
          /\ \A i \in 1..Len(v) : (one \o v)[Len(one) + i] = v[i]
      BY Joined
    <3> QED BY <1>1, <3>1
  <2>2. kv[1] = one[1]
    BY <2>1
  <2>3. Len(kv) = Len(v) + 1
    BY <2>1
  <2> QED BY <2>1, <2>2, <2>3
<1>3. PICK s \in Seq(Letters) : s = kv \o blank
  BY Joined
<1>4. /\ Len(s) = Len(v) + 2 /\ s[Len(v) + 2] = blank[1]
      /\ \A i \in 1..(Len(v) + 1) : s[i] = kv[i]
  <2>1. /\ Len(s) = Len(kv) + 1
        /\ \A i \in 1..Len(kv) : s[i] = kv[i]
        /\ \A i \in 1..1 : s[Len(kv) + i] = blank[i]
    BY <1>3, Joined
  <2>2. s[Len(kv) + 1] = blank[1]
    BY <2>1
  <2> QED BY <1>2, <2>1, <2>2
<1>5. s[1] = one[1]
  BY <1>2, <1>4
<1>6. ASSUME NEW i \in 1..Len(v) PROVE s[1 + i] = v[i]
  BY <1>2, <1>4
<1>7. s = one \o v \o blank
  BY <1>1, <1>3
<1> QED BY <1>4, <1>5, <1>6, <1>7

LEMMA SaysField ==
    ASSUME NEW k \in Letters, NEW v \in Seq(Letters)
    PROVE  /\ Field(k, v) \in Seq(Letters) /\ Says(Field(k, v), k, v)
           /\ \A key : key # k /\ key # "blank" /\ Lacks(v, key)
                         => Lacks(Field(k, v), key)
<1>1. PICK s \in Seq(Letters) :
        /\ s = Field(k, v) /\ Len(s) = Len(v) + 2
        /\ s[1] = k /\ s[Len(v) + 2] = "blank"
        /\ \A i \in 1..Len(v) : s[1 + i] = v[i]
  <2>1. PICK one \in Seq(Letters) : one = <<k>> /\ Len(one) = 1 /\ one[1] = k
    BY One
  <2>2. PICK blank \in Seq(Letters) :
          blank = <<"blank">> /\ Len(blank) = 1 /\ blank[1] = "blank"
    <3>1. ASSUME NEW x \in Letters
          PROVE  \E b \in Seq(Letters) : b = <<x>> /\ Len(b) = 1 /\ b[1] = x
      BY One
    <3>2. "blank" \in Letters
      BY DEF Letters
    <3> QED BY <3>1, <3>2, Zenon
  <2>3. Field(k, v) = one \o v \o blank
    BY <2>1, <2>2 DEF Field
  <2>4. PICK s \in Seq(Letters) :
             /\ s = one \o v \o blank
             /\ Len(s) = Len(v) + 2
             /\ s[1] = one[1] /\ s[Len(v) + 2] = blank[1]
             /\ \A i \in 1..Len(v) : s[1 + i] = v[i]
    <3>1. Len(one) = 1 /\ Len(blank) = 1
      BY <2>1, <2>2
    <3> QED BY <3>1, Pieces, Zenon
  <2> WITNESS s \in Seq(Letters)
  <2> QED BY <2>1, <2>2, <2>3, <2>4
<1>2. Len(v) \in Nat
  OBVIOUS
<1>3. SaysAt(s, k, v, 1)
  <2>1. /\ 1 \in 1..Len(s) /\ 1 + Len(v) + 1 = Len(v) + 2
        /\ 1 + Len(v) + 1 <= Len(s) /\ \A i \in 1..(1 - 1) : FALSE
    <3>1. Len(s) = Len(v) + 2
      BY <1>1
    <3> QED BY <1>2, <3>1
  <2>2. s[1 + Len(v) + 1] = "blank"
    BY <1>1, <2>1
  <2> QED BY <1>1, <2>1, <2>2 DEF SaysAt
<1>4. ASSUME NEW key, key # k, key # "blank", Lacks(v, key)
      PROVE  Lacks(s, key)
  <2>1. ASSUME NEW i \in 1..Len(s) PROVE s[i] # key
    <3>1. CASE i = 1
      BY <1>1, <1>4, <3>1
    <3>2. CASE i = Len(v) + 2
      BY <1>1, <1>4, <3>2
    <3>3. CASE i # 1 /\ i # Len(v) + 2
      <4>0. i \in 1..(Len(v) + 2)
        BY <1>1
      <4>1. i - 1 \in 1..Len(v) /\ i = 1 + (i - 1)
        BY <1>2, <3>3, <4>0
      <4>2. s[i] = v[i - 1]
        BY <1>1, <4>1
      <4> QED BY <1>4, <4>1, <4>2 DEF Lacks
    <3> QED BY <3>1, <3>2, <3>3
  <2> QED BY <2>1 DEF Lacks
<1> QED BY <1>1, <1>3, <1>4 DEF Says

LEMMA TailOf ==
    ASSUME NEW s \in Seq(Letters), NEW p \in 1..Len(s)
    PROVE  /\ SubSeq(s, p + 1, Len(s)) \in Seq(Letters)
           /\ Len(SubSeq(s, p + 1, Len(s))) = Len(s) - p
           /\ \A i \in 1..(Len(s) - p) :
                SubSeq(s, p + 1, Len(s))[i] = s[p + i]
<1>1. Len(s) \in Nat /\ p + 1 \in 1..(Len(s) + 1)
  OBVIOUS
<1> QED BY <1>1, SubSeqProperties

LEMMA HeadOf ==
    ASSUME NEW s, NEW n \in Nat, \A i \in 1..n : s[i] \in Letters
    PROVE  \E w \in Seq(Letters) :
             /\ w = SubSeq(s, 1, n) /\ Len(w) = n
             /\ \A i \in 1..n : w[i] = s[i]
<1> DEFINE w == SubSeq(s, 1, n)
<1>1. /\ w \in Seq(Letters) /\ Len(w) = (IF 1 <= n THEN n - 1 + 1 ELSE 0)
      /\ \A i \in 1..(n - 1 + 1) : w[i] = s[1 + i - 1]
  BY SubSeqProperties
<1>2. n - 1 + 1 = n /\ \A i \in 1..n : 1 + i - 1 = i
  OBVIOUS
<1>3. Len(w) = n
  BY <1>1
<1> HIDE DEF w
<1>4. \A i \in 1..n : w[i] = s[i]
  BY <1>1, <1>2
<1> QED BY <1>1, <1>3, <1>4 DEF w

\* Where the wrapper finds a key.
LEMMA AfterIs ==
    ASSUME NEW s \in Seq(Letters), NEW k, NEW p \in 1..Len(s), s[p] = k,
           \A i \in 1..(p - 1) : s[i] # k
    PROVE  \E rest \in Seq(Letters) :
             /\ rest = After(s, k) /\ Found(s, k) /\ Len(rest) = Len(s) - p
             /\ \A i \in 1..(Len(s) - p) : rest[i] = s[p + i]
<1>1. DOMAIN s = 1..Len(s) /\ Len(s) \in Nat
  OBVIOUS
<1> DEFINE First(i) == s[i] = k /\ \A j \in 1..(i - 1) : s[j] # k
           at == CHOOSE i \in DOMAIN s : First(i)
<1>2. at \in DOMAIN s /\ First(at)
  BY <1>1
<1>3. at = p
  BY <1>1, <1>2
<1> HIDE DEF at
<1>4. After(s, k) = SubSeq(s, p + 1, Len(s))
  BY <1>3 DEF After, at
<1>5. Found(s, k)
  BY <1>1 DEF Found
<1>6. PICK rest \in Seq(Letters) :
        /\ rest = SubSeq(s, p + 1, Len(s)) /\ Len(rest) = Len(s) - p
        /\ \A i \in 1..(Len(s) - p) : rest[i] = s[p + i]
  BY <1>1, TailOf
<1> QED BY <1>4, <1>5, <1>6

LEMMA BoolSays ==
    ASSUME NEW s \in Seq(Letters), NEW k, NEW v \in Seq(Letters), Len(v) = 1,
           Says(s, k, v)
    PROVE  BoolToken(s, k) <=> v[1] = "1"
<1>1. PICK p \in Nat : SaysAt(s, k, v, p)
  BY DEF Says
<1>2. /\ p \in 1..Len(s) /\ s[p] = k /\ \A i \in 1..(p - 1) : s[i] # k
      /\ s[p + 1] = v[1] /\ Len(s) - p >= 2
  <2>1. 1 \in 1..Len(v) /\ Len(s) \in Nat
    OBVIOUS
  <2> QED BY <1>1, <2>1 DEF SaysAt
<1>3. PICK rest \in Seq(Letters) :
        /\ rest = After(s, k) /\ Found(s, k) /\ Len(rest) = Len(s) - p
        /\ \A i \in 1..(Len(s) - p) : rest[i] = s[p + i]
  BY <1>2, AfterIs
<1>4. 1 \in 1..(Len(s) - p)
  BY <1>2
<1>5. rest[1] = v[1]
  BY <1>2, <1>3, <1>4
<1>6. rest # << >> /\ Head(rest) = rest[1]
  BY <1>2, <1>3
<1> QED BY <1>3, <1>5, <1>6 DEF BoolToken

LEMMA BoolAt ==
    ASSUME NEW s \in Seq(Letters), NEW k, NEW p \in 1..Len(s), s[p] = k,
           \A i \in 1..(p - 1) : s[i] # k, BoolToken(s, k)
    PROVE  p + 1 \in 1..Len(s) /\ s[p + 1] = "1"
<1>1. PICK rest \in Seq(Letters) :
        /\ rest = After(s, k) /\ Found(s, k) /\ Len(rest) = Len(s) - p
        /\ \A i \in 1..(Len(s) - p) : rest[i] = s[p + i]
  BY AfterIs
<1>2. rest # << >> /\ Head(rest) = "1"
  BY <1>1 DEF BoolToken
<1>3. 1 \in 1..(Len(s) - p) /\ rest[1] = "1"
  BY <1>1, <1>2
<1> QED BY <1>1, <1>3

\* A bit that is found in the first part of a text is the one of the text.
LEMMA BoolCut ==
    ASSUME NEW a \in Seq(Letters), NEW b \in Seq(Letters), NEW k,
           NEW v \in Seq(Letters), Len(v) = 1, Says(a \o b, k, v),
           BoolToken(a, k)
    PROVE  v[1] = "1"
<1>1. PICK s \in Seq(Letters) :
        /\ s = a \o b /\ Len(s) = Len(a) + Len(b)
        /\ \A i \in 1..Len(a) : s[i] = a[i]
  BY Joined
<1>2. Len(a) \in Nat /\ Len(b) \in Nat /\ DOMAIN a = 1..Len(a)
  OBVIOUS
<1>3. PICK p \in 1..Len(a) :
        /\ a[p] = k /\ \A i \in 1..(p - 1) : a[i] # k
        /\ p \in 1..Len(s) /\ s[p + 1] = v[1]
  <2>1. PICK p \in Nat : SaysAt(s, k, v, p)
    BY <1>1 DEF Says
  <2>2. /\ p \in 1..Len(s) /\ s[p] = k /\ \A i \in 1..(p - 1) : s[i] # k
        /\ s[p + 1] = v[1]
    BY <2>1 DEF SaysAt
  <2>3. PICK n \in 1..Len(a) : a[n] = k
    BY <1>2 DEF BoolToken, Found
  <2>4. p <= n
    <3> SUFFICES ASSUME n < p PROVE FALSE
      BY <1>2
    <3>1. n \in 1..(p - 1)
      BY <1>2
    <3> QED BY <1>1, <2>2, <2>3, <3>1
  <2>5. p \in 1..Len(a) /\ \A i \in 1..(p - 1) : i \in 1..Len(a)
    BY <1>2, <2>2, <2>4
  <2>6. a[p] = k /\ \A i \in 1..(p - 1) : a[i] # k
    BY <1>1, <2>2, <2>5
  <2> QED BY <2>2, <2>5, <2>6
<1>4. p + 1 \in 1..Len(a) /\ a[p + 1] = "1"
  BY <1>3, BoolAt
<1> QED BY <1>1, <1>3, <1>4

LEMMA StringSays ==
    ASSUME NEW s \in Seq(Letters), NEW k, NEW v \in Seq(Letters),
           Lacks(v, "blank"), Says(s, k, v)
    PROVE  StringToken(s, k) = Word(v)
<1>0. Len(v) \in Nat /\ Len(s) \in Nat
  OBVIOUS
<1>1. PICK p \in Nat : SaysAt(s, k, v, p)
  BY DEF Says
<1>2. /\ p \in 1..Len(s) /\ s[p] = k /\ \A i \in 1..(p - 1) : s[i] # k
      /\ \A i \in 1..Len(v) : s[p + i] = v[i]
      /\ s[p + Len(v) + 1] = "blank" /\ Len(v) + 1 \in 1..(Len(s) - p)
  BY <1>0, <1>1 DEF SaysAt
<1>3. PICK rest \in Seq(Letters) :
        /\ rest = After(s, k) /\ Found(s, k) /\ Len(rest) = Len(s) - p
        /\ \A i \in 1..(Len(s) - p) : rest[i] = s[p + i]
  <2>1. /\ p \in 1..Len(s) /\ s[p] = k
        /\ \A i \in 1..(p - 1) : s[i] # k
    BY <1>2
  <2> QED BY ONLY <2>1, AfterIs, s \in Seq(Letters)
<1>4. /\ DOMAIN rest = 1..(Len(s) - p)
      /\ rest[Len(v) + 1] = "blank"
      /\ \A i \in 1..Len(v) : i \in 1..(Len(s) - p) /\ rest[i] = v[i]
  <2>1. p + (Len(v) + 1) = p + Len(v) + 1
    BY <1>0
  <2>2. rest[Len(v) + 1] = "blank"
    BY <1>2, <1>3, <2>1
  <2>3. \A i \in 1..Len(v) : i \in 1..(Len(s) - p)
    BY <1>0, <1>2
  <2> QED BY <1>2, <1>3, <2>2, <2>3
<1> DEFINE blanks == {i \in DOMAIN rest : rest[i] = "blank"}
           at == CHOOSE i \in blanks : \A j \in blanks : i <= j
<1>5. Len(v) + 1 \in blanks
  BY <1>2, <1>4
<1>6. \A j \in blanks : Len(v) + 1 <= j
  <2> SUFFICES ASSUME NEW j \in 1..(Len(s) - p), rest[j] = "blank", j <= Len(v)
               PROVE  FALSE
    BY <1>0, <1>4
  <2>1. j \in 1..Len(v)
    BY <1>0
  <2> QED BY <1>4, <2>1 DEF Lacks
<1>7. blanks \subseteq Int
  BY <1>4
<1> HIDE DEF blanks
<1>8. at \in blanks /\ \A j \in blanks : at <= j
  BY <1>5, <1>6
<1>9. at = Len(v) + 1
  <2>1. PICK n \in Int : n = at
    BY <1>7, <1>8
  <2>2. n <= Len(v) + 1 /\ Len(v) + 1 <= n
    BY <1>5, <1>6, <1>8, <2>1
  <2> QED BY <1>0, <2>1, <2>2
<1> HIDE DEF at
<1>10. SubSeq(rest, 1, Len(v)) = v
  <2>1. \A i \in 1..Len(v) : rest[i] \in Letters
    BY <1>4
  <2>2. PICK w \in Seq(Letters) :
          /\ w = SubSeq(rest, 1, Len(v)) /\ Len(w) = Len(v)
          /\ \A i \in 1..Len(v) : w[i] = rest[i]
    BY <1>0, <2>1, HeadOf
  <2>3. w = v
    BY <1>0, <1>4, <2>2, SeqEqual
  <2> QED BY <2>2, <2>3
<1>11. StringToken(s, k) =
         Word(IF blanks = {} THEN rest ELSE SubSeq(rest, 1, at - 1))
  BY <1>3 DEF StringToken, blanks, at
<1>12. blanks # {} /\ at - 1 = Len(v)
  BY <1>0, <1>5, <1>9
<1> QED BY <1>10, <1>11, <1>12


LEMMA LacksValue ==
    ASSUME NEW v \in Seq(Values)
    PROVE  /\ v \in Seq(Letters) /\ Lacks(v, "blank")
           /\ \A k \in Keys : Lacks(v, k)
<1>1. Values \subseteq Letters /\ "blank" \notin Values
  BY DEF Letters, Values
<1>2. \A k \in Keys : k \notin Values
  BY DEF Keys, Values
<1>3. \A i \in 1..Len(v) : v[i] \in Values
  OBVIOUS
<1>4. v \in Seq(Letters)
  BY <1>1
<1> QED BY <1>1, <1>2, <1>3, <1>4 DEF Lacks

\* What one more field adds to a text.
Adds(a, s, k, v) ==
  /\ s = a \o Field(k, v)
  /\ Lacks(a, k) => Says(s, k, v)
  /\ \A key \in Keys : key # k /\ Lacks(a, key) => Lacks(s, key)
  /\ \A key \in Keys : \A w \in Seq(Letters) :
       Says(a, key, w) => Says(s, key, w)

LEMMA OneMore ==
    ASSUME NEW a \in Seq(Letters), NEW k \in Keys, NEW v \in Seq(Values)
    PROVE  \E s \in Seq(Letters) : Adds(a, s, k, v)
<1>1. k \in Letters /\ \A key \in Keys : key # "blank"
  BY DEF Letters, Keys
<1>2. v \in Seq(Letters) /\ \A key \in Keys : Lacks(v, key)
  BY LacksValue
<1>3. PICK f \in Seq(Letters) :
        /\ f = Field(k, v) /\ Says(f, k, v)
        /\ \A key : key # k /\ key # "blank" /\ Lacks(v, key) => Lacks(f, key)
  BY <1>1, <1>2, SaysField
<1>4. PICK s \in Seq(Letters) : s = a \o f
  BY Joined
<1>5. Lacks(a, k) => Says(s, k, v)
  BY <1>2, <1>3, <1>4, SaysLater
<1>6. ASSUME NEW key \in Keys, key # k, Lacks(a, key) PROVE Lacks(s, key)
  <2>1. Lacks(f, key)
    BY <1>1, <1>2, <1>3, <1>6
  <2> QED BY <1>4, <1>6, <2>1, LacksBoth
<1>7. ASSUME NEW key \in Keys, NEW w \in Seq(Letters), Says(a, key, w)
      PROVE  Says(s, key, w)
  BY <1>4, <1>7, SaysMore
<1>8. s = a \o Field(k, v)
  BY <1>3, <1>4
<1> QED BY <1>5, <1>6, <1>7, <1>8 DEF Adds

LEMMA BitIs ==
    ASSUME NEW b
    PROVE  /\ Bit(b) \in Seq(Values) /\ Len(Bit(b)) = 1
           /\ Bit(b)[1] = "1" <=> b
<1>1. CASE b
  <2>1. <<"1">> \in Seq(Values)
    BY DEF Values
  <2> QED BY <1>1, <2>1 DEF Bit
<1>2. CASE ~b
  <2>1. <<"0">> \in Seq(Values)
    BY DEF Values
  <2> QED BY <1>2, <2>1 DEF Bit
<1> QED BY <1>1, <1>2

LEMMA WordsAre ==
    ASSUME NEW f
    PROVE  CO(f) \in Seq(Values) /\ Perm(f) \in Seq(Values)
<1>1. <<"CO", "E">> \in Seq(Values) /\ <<"CO">> \in Seq(Values)
  BY DEF Values
<1>2. << >> \in Seq(Values)
  OBVIOUS
<1>3. <<"WRI", "TE">> \in Seq(Values) /\ <<"READ">> \in Seq(Values)
  BY DEF Values
<1> QED BY <1>1, <1>2, <1>3 DEF CO, Perm

\* What a text says of a path.
Tells(s, f) ==
  /\ Says(s, "co=", CO(f)) /\ Says(s, "perm=", Perm(f))
  /\ Says(s, "modified=", Bit(f.modified))
  /\ Says(s, "deleted=", Bit(f.deleted \/ ~f.exists))
  /\ Says(s, "update=", Bit(f.update)) /\ Says(s, "managed=", Bit(f.managed))
  /\ Says(s, "dir=", Bit(f.dir))

LEMMA RecordTells ==
    ASSUME NEW f
    PROVE  StatusCode(f) \in Seq(Letters) /\ Tells(StatusCode(f), f)
<1>0. \A v \in Seq(Values) : v \in Seq(Letters)
  BY LacksValue
<1>1. PICK co \in Seq(Values) : co = CO(f)
  BY WordsAre
<1>2. PICK perm \in Seq(Values) : perm = Perm(f)
  BY WordsAre
<1>3. PICK modified \in Seq(Values) : modified = Bit(f.modified)
  BY BitIs
<1>4. PICK deleted \in Seq(Values) : deleted = Bit(f.deleted \/ ~f.exists)
  BY BitIs
<1>5. PICK update \in Seq(Values) : update = Bit(f.update)
  BY BitIs
<1>6. PICK managed \in Seq(Values) : managed = Bit(f.managed)
  BY BitIs
<1>7. PICK dir \in Seq(Values) : dir = Bit(f.dir)
  BY BitIs
<1>8. /\ "co=" \in Keys /\ "perm=" \in Keys /\ "modified=" \in Keys
      /\ "deleted=" \in Keys /\ "update=" \in Keys /\ "managed=" \in Keys
      /\ "dir=" \in Keys
  BY DEF Keys
<1>9. ASSUME NEW key \in Keys, key # "co=" PROVE Lacks(Field("co=", co), key)
  <2>1. "co=" \in Letters /\ key # "blank"
    BY DEF Letters, Keys
  <2>2. co \in Seq(Letters) /\ Lacks(co, key)
    BY LacksValue
  <2> QED BY <1>9, <2>1, <2>2, SaysField
<1>10. PICK s1 \in Seq(Letters) : s1 = Field("co=", co) /\ Says(s1, "co=", co)
  <2>1. "co=" \in Letters
    BY DEF Letters, Keys
  <2>2. co \in Seq(Letters)
    BY <1>0
  <2> QED BY <2>1, <2>2, SaysField
<1>11. PICK s2 \in Seq(Letters) : Adds(s1, s2, "perm=", perm)
  BY <1>8, OneMore
<1>12. PICK s3 \in Seq(Letters) : Adds(s2, s3, "modified=", modified)
  BY <1>8, OneMore
<1>13. PICK s4 \in Seq(Letters) : Adds(s3, s4, "deleted=", deleted)
  BY <1>8, OneMore
<1>14. PICK s5 \in Seq(Letters) : Adds(s4, s5, "update=", update)
  BY <1>8, OneMore
<1>15. PICK s6 \in Seq(Letters) : Adds(s5, s6, "managed=", managed)
  BY <1>8, OneMore
<1>16. PICK s7 \in Seq(Letters) : Adds(s6, s7, "dir=", dir)
  BY <1>8, OneMore
<1>17. s7 = StatusCode(f)
  BY <1>1, <1>2, <1>3, <1>4, <1>5, <1>6, <1>7, <1>10, <1>11, <1>12, <1>13,
     <1>14, <1>15, <1>16 DEF StatusCode, Adds
<1>21. /\ Lacks(s1, "perm=")
      /\ Lacks(s1, "modified=")
      /\ Lacks(s1, "deleted=")
      /\ Lacks(s1, "update=")
      /\ Lacks(s1, "managed=")
      /\ Lacks(s1, "dir=")
  BY <1>8, <1>9, <1>10
<1>22. /\ Lacks(s2, "modified=")
      /\ Lacks(s2, "deleted=")
      /\ Lacks(s2, "update=")
      /\ Lacks(s2, "managed=")
      /\ Lacks(s2, "dir=")
  BY <1>8, <1>21, <1>11 DEF Adds
<1>23. /\ Lacks(s3, "deleted=")
      /\ Lacks(s3, "update=")
      /\ Lacks(s3, "managed=")
      /\ Lacks(s3, "dir=")
  BY <1>8, <1>22, <1>12 DEF Adds
<1>24. /\ Lacks(s4, "update=")
      /\ Lacks(s4, "managed=")
      /\ Lacks(s4, "dir=")
  BY <1>8, <1>23, <1>13 DEF Adds
<1>25. /\ Lacks(s5, "managed=")
      /\ Lacks(s5, "dir=")
  BY <1>8, <1>24, <1>14 DEF Adds
<1>26. /\ Lacks(s6, "dir=")
  BY <1>8, <1>25, <1>15 DEF Adds
<1>31. /\ Says(s2, "co=", co)
      /\ Says(s2, "perm=", perm)
  BY <1>0, <1>8, <1>11, <1>21, <1>10 DEF Adds
<1>32. /\ Says(s3, "co=", co)
      /\ Says(s3, "perm=", perm)
      /\ Says(s3, "modified=", modified)
  BY <1>0, <1>8, <1>12, <1>22, <1>31 DEF Adds
<1>33. /\ Says(s4, "co=", co)
      /\ Says(s4, "perm=", perm)
      /\ Says(s4, "modified=", modified)
      /\ Says(s4, "deleted=", deleted)
  BY <1>0, <1>8, <1>13, <1>23, <1>32 DEF Adds
<1>34. /\ Says(s5, "co=", co)
      /\ Says(s5, "perm=", perm)
      /\ Says(s5, "modified=", modified)
      /\ Says(s5, "deleted=", deleted)
      /\ Says(s5, "update=", update)
  BY <1>0, <1>8, <1>14, <1>24, <1>33 DEF Adds
<1>35. /\ Says(s6, "co=", co)
      /\ Says(s6, "perm=", perm)
      /\ Says(s6, "modified=", modified)
      /\ Says(s6, "deleted=", deleted)
      /\ Says(s6, "update=", update)
      /\ Says(s6, "managed=", managed)
  BY <1>0, <1>8, <1>15, <1>25, <1>34 DEF Adds
<1>36. /\ Says(s7, "co=", co)
      /\ Says(s7, "perm=", perm)
      /\ Says(s7, "modified=", modified)
      /\ Says(s7, "deleted=", deleted)
      /\ Says(s7, "update=", update)
      /\ Says(s7, "managed=", managed)
      /\ Says(s7, "dir=", dir)
  BY <1>0, <1>8, <1>16, <1>26, <1>35 DEF Adds
<1> QED BY <1>1, <1>2, <1>3, <1>4, <1>5, <1>6, <1>7, <1>17, <1>36 DEF Tells

\* With noise before the record.
LEMMA OutputTells ==
    ASSUME NEW c, c.noise \in Nat
    PROVE  Output(c) \in Seq(Letters) /\ Tells(Output(c), c.facts)
<1>1. PICK noise \in Seq(Letters) : noise = [i \in 1..c.noise |-> "noise"]
  <2>1. "noise" \in Letters
    BY DEF Letters
  <2>2. ASSUME NEW n \in Nat
        PROVE  [i \in 1..n |-> "noise"] \in Seq(Letters)
    BY <2>1
  <2> QED BY <2>2
<1>2. ASSUME NEW k \in Keys PROVE Lacks(noise, k)
  <2>1. k # "noise"
    BY DEF Keys
  <2> QED BY <1>1, <2>1 DEF Lacks
<1>3. PICK record \in Seq(Letters) :
        record = StatusCode(c.facts) /\ Tells(record, c.facts)
  BY RecordTells
<1>4. PICK s \in Seq(Letters) : s = noise \o record
  BY Joined
<1>5. s = Output(c)
  BY <1>1, <1>3, <1>4 DEF Output
<1>6. ASSUME NEW k \in Keys, NEW v \in Seq(Values), Says(record, k, v)
      PROVE  Says(s, k, v)
  <2>1. v \in Seq(Letters)
    BY LacksValue
  <2> QED BY <1>2, <1>4, <1>6, <2>1, SaysLater
<1>7. /\ "co=" \in Keys /\ "perm=" \in Keys /\ "modified=" \in Keys
      /\ "deleted=" \in Keys /\ "update=" \in Keys /\ "managed=" \in Keys
      /\ "dir=" \in Keys
  BY DEF Keys
<1>8. Tells(s, c.facts)
  BY <1>3, <1>6, <1>7, BitIs, WordsAre DEF Tells
<1> QED BY <1>5, <1>8

\* The bits of a path.
BitsOf(s, f) ==
  /\ BoolToken(s, "managed=") <=> f.managed
  /\ BoolToken(s, "modified=") <=> f.modified
  /\ BoolToken(s, "deleted=") <=> (f.deleted \/ ~f.exists)
  /\ BoolToken(s, "update=") <=> f.update
  /\ BoolToken(s, "dir=") <=> f.dir

LEMMA BitsRead ==
    ASSUME NEW s \in Seq(Letters), NEW f, Tells(s, f)
    PROVE  BitsOf(s, f)
<1>1. ASSUME NEW b, NEW k, Says(s, k, Bit(b)) PROVE BoolToken(s, k) <=> b
  <2>1. PICK v \in Seq(Values) : v = Bit(b) /\ Len(v) = 1 /\ (v[1] = "1" <=> b)
    BY BitIs
  <2>2. v \in Seq(Letters)
    BY LacksValue
  <2> QED BY <1>1, <2>1, <2>2, BoolSays
<1>2. BoolToken(s, "managed=") <=> f.managed
  <2>1. Says(s, "managed=", Bit(f.managed))
    BY DEF Tells
  <2> QED BY <2>1, <1>1
<1>3. BoolToken(s, "modified=") <=> f.modified
  <2>1. Says(s, "modified=", Bit(f.modified))
    BY DEF Tells
  <2> QED BY <2>1, <1>1
<1>4. BoolToken(s, "deleted=") <=> (f.deleted \/ ~f.exists)
  <2>1. Says(s, "deleted=", Bit(f.deleted \/ ~f.exists))
    BY DEF Tells
  <2> QED BY <2>1, <1>1
<1>5. BoolToken(s, "update=") <=> f.update
  <2>1. Says(s, "update=", Bit(f.update))
    BY DEF Tells
  <2> QED BY <2>1, <1>1
<1>6. BoolToken(s, "dir=") <=> f.dir
  <2>1. Says(s, "dir=", Bit(f.dir))
    BY DEF Tells
  <2> QED BY <2>1, <1>1
<1> QED BY <1>2, <1>3, <1>4, <1>5, <1>6 DEF BitsOf

LEMMA WordsRead ==
    ASSUME NEW s \in Seq(Letters), NEW f, Tells(s, f)
    PROVE  /\ StringToken(s, "co=") = Word(CO(f))
           /\ StringToken(s, "perm=") = Word(Perm(f))
<1>1. PICK co \in Seq(Values) : co = CO(f)
  BY WordsAre
<1>2. PICK perm \in Seq(Values) : perm = Perm(f)
  BY WordsAre
<1>3. /\ co \in Seq(Letters) /\ Lacks(co, "blank")
      /\ perm \in Seq(Letters) /\ Lacks(perm, "blank")
  BY LacksValue
<1>4. Says(s, "co=", co) /\ Says(s, "perm=", perm)
  BY <1>1, <1>2 DEF Tells
<1> QED BY <1>1, <1>2, <1>3, <1>4, StringSays

LEMMA WordIs ==
    /\ Word(<< >>) = "" /\ Word(<<"CO">>) = "CO" /\ Word(<<"READ">>) = "READ"
    /\ Word(<<"CO", "E">>) = "COE" /\ Word(<<"WRI", "TE">>) = "WRITE"
<1>1. /\ <<"CO">> # << >> /\ Len(<<"CO">>) = 1
      /\ <<"READ">> # << >> /\ Len(<<"READ">>) = 1
      /\ <<"CO", "E">> # << >> /\ Len(<<"CO", "E">>) = 2
      /\ <<"WRI", "TE">> # << >> /\ Len(<<"WRI", "TE">>) = 2
      /\ <<"CO", "E">>[1] # <<"WRI", "TE">>[1]
  OBVIOUS
<1> QED BY <1>1 DEF Word

\* From the whole text a slot takes the truth.
LEMMA WholeText ==
    ASSUME NEW s \in Seq(Letters), NEW f, Tells(s, f), NEW slot \in Questions,
           ~Behind(slot, f)
    PROVE  FromText(slot, s) = Truth(slot, f)
<1>1. BitsOf(s, f)
  BY BitsRead
<1>2. CASE slot = "Co"
  <2>1. FromText(slot, s) = CoStatus(Word(CO(f)))
    BY <1>2, WordsRead DEF FromText
  <2>2. CoStatus("COE") = "COE" /\ CoStatus("CO") = "CO" /\ CoStatus("") = "null"
    BY DEF CoStatus
  <2> QED BY <1>2, <2>1, <2>2, WordIs DEF CO, Truth, Behind
<1>3. CASE slot = "Permission"
  <2>1. FromText(slot, s) = PermissionStatus(Word(Perm(f)))
    BY <1>3, WordsRead DEF FromText
  <2>2. PermissionStatus("WRITE") = "WRITE" /\ PermissionStatus("READ") = "READ"
    BY DEF PermissionStatus
  <2> QED BY <1>3, <2>1, <2>2, WordIs DEF Perm, Truth
<1>4. CASE slot \notin {"Co", "Permission"}
  BY <1>1, <1>4 DEF FromText, Truth, BitsOf, YesNo
<1> QED BY <1>2, <1>3, <1>4

\* From a text that was cut off, a slot that asks for a bit takes the truth
\* or answers as if it had no text.
LEMMA CutText ==
    ASSUME NEW a \in Seq(Letters), NEW b \in Seq(Letters), NEW f,
           Tells(a \o b, f),
           NEW slot \in Questions \ {"Co", "Permission", "Expand"}
    PROVE  FromText(slot, a) \in {Truth(slot, f), Denied(slot)}
<1>1. ASSUME NEW c, NEW k, Says(a \o b, k, Bit(c)), BoolToken(a, k) PROVE c
  <2>1. PICK v \in Seq(Values) : v = Bit(c) /\ Len(v) = 1 /\ (v[1] = "1" <=> c)
    BY BitIs
  <2>2. v \in Seq(Letters)
    BY LacksValue
  <2>3. v[1] = "1"
    BY <1>1, <2>1, <2>2, BoolCut
  <2> QED BY <2>1, <2>3
<1>2. BoolToken(a, "managed=") => f.managed
  <2>1. Says(a \o b, "managed=", Bit(f.managed))
    BY DEF Tells
  <2> QED BY <2>1, <1>1
<1>3. BoolToken(a, "modified=") => f.modified
  <2>1. Says(a \o b, "modified=", Bit(f.modified))
    BY DEF Tells
  <2> QED BY <2>1, <1>1
<1>4. BoolToken(a, "deleted=") => (f.deleted \/ ~f.exists)
  <2>1. Says(a \o b, "deleted=", Bit(f.deleted \/ ~f.exists))
    BY DEF Tells
  <2> QED BY <2>1, <1>1
<1>5. BoolToken(a, "update=") => f.update
  <2>1. Says(a \o b, "update=", Bit(f.update))
    BY DEF Tells
  <2> QED BY <2>1, <1>1
<1>6. BoolToken(a, "dir=") => f.dir
  <2>1. Says(a \o b, "dir=", Bit(f.dir))
    BY DEF Tells
  <2> QED BY <2>1, <1>1
<1> QED BY <1>2, <1>3, <1>4, <1>5, <1>6
        DEF FromText, Truth, Denied, YesNo, Questions

-----------------------------------------------------------------------------
\* The text of a question: what is read, what is in the pipe and what the
\* command has still to print are together its output; what is read is always
\* the beginning of it, and the answer is taken from that.
Begins(text) == \E r \in Seq(Letters) : Output(call) = text \o r

FlowInv ==
  HasPipe =>
    /\ call.noise \in Nat
    /\ call.text \in Seq(Letters) /\ Begins(call.text)
    /\ call.pc \in {"pipe", "fork"} => call.text = << >> /\ pipe = << >>
    /\ call.pc \in {"close", "read"} =>
         /\ pipe \in Seq(Letters) /\ child.left \in Seq(Letters)
         /\ Output(call) = (call.text \o pipe) \o child.left
    /\ call.pc = "done" =>
         call.answer = StatusForPath(call.slot, call.rc, call.text)

LEMMA AnswerKeeps ==
    ASSUME IsCall(call), Answer, HasPipe
    PROVE  /\ Kept(call', call) /\ call'.rc = call.rc
           /\ call'.answer = StatusForPath(call.slot, call.rc, call.text)
<1> DEFINE answer == StatusForPath(call.slot, call.rc, call.text)
<1>1. call' = [call EXCEPT !.pc = "done", !.answer = answer]
  BY DEF Answer, HasPipe
<1> HIDE DEF answer
<1>2. Kept(call', call) /\ call'.rc = call.rc /\ call'.answer = answer
  BY <1>1 DEF IsCall, Kept
<1> QED BY <1>2 DEF answer

LEMMA SameOutput ==
    ASSUME NEW c, NEW d, Kept(d, c) PROVE Output(d) = Output(c)
BY DEF Kept, Output

\* Steps that move nothing of the text.
LEMMA FlowStays ==
    ASSUME FlowInv, Kept(call', call), call'.pc \notin {"pipe", "done"},
           call'.pc = "fork" => call.pc \in {"pipe", "fork"} /\ pipe' = pipe,
           call'.pc \in {"close", "read"} =>
             /\ call.pc \in {"close", "read"}
             /\ pipe' = pipe /\ child'.left = child.left
    PROVE  FlowInv'
<1> SUFFICES ASSUME HasPipe' PROVE FlowInv'
  BY DEF FlowInv
<1>1. HasPipe /\ Output(call') = Output(call)
  BY SameOutput DEF HasPipe, Kept
<1>2. call'.noise \in Nat /\ call'.text \in Seq(Letters) /\ Begins(call.text)'
  BY <1>1 DEF FlowInv, Kept, Begins
<1>3. call'.pc = "fork" => call'.text = << >> /\ pipe' = << >>
  BY <1>1 DEF FlowInv, Kept
<1>4. call'.pc \in {"close", "read"} =>
        /\ pipe' \in Seq(Letters) /\ child'.left \in Seq(Letters)
        /\ Output(call') = (call'.text \o pipe') \o child'.left
  BY <1>1 DEF FlowInv, Kept
<1> QED BY <1>2, <1>3, <1>4 DEF FlowInv

LEMMA AskFlow ==
    ASSUME IInv, NEW slot \in Questions, NEW f, NEW n \in Nat, Ask(slot, f, n)
    PROVE  FlowInv'
<1>1. /\ call'.pc = "pipe" /\ call'.text = << >> /\ call'.noise = n
      /\ call.pc = "idle" /\ UNCHANGED <<child, pipe, ends>>
  BY NewCallFields DEF Ask, At
<1>2. pipe' = << >>
  <2>1. child.pc = "none"
    BY <1>1 DEF IInv, Together
  <2>2. ends = {}
    BY <1>1, <2>1 DEF IInv, EndsInv, ParentEnds, ChildEnds
  <2> QED BY <1>1, <2>2 DEF IInv, EndsInv
<1>3. Output(call') \in Seq(Letters)
  BY <1>1, OutputTells
<1>4. << >> \in Seq(Letters) /\ Output(call') = << >> \o Output(call')
  BY <1>3
<1>5. Begins(call.text)'
  BY <1>1, <1>3, <1>4 DEF Begins
<1> QED BY <1>1, <1>2, <1>4, <1>5 DEF FlowInv

LEMMA ForkFlow == ASSUME IInv, FlowInv, Fork, IInv' PROVE FlowInv'
<1> SUFFICES ASSUME HasPipe' PROVE FlowInv'
  BY DEF FlowInv
<1>1. /\ call.pc = "fork" /\ UNCHANGED pipe
      /\ Goto(IF Piped THEN "close" ELSE "wait")
      /\ child' = [child EXCEPT !.pc = "starts",
                     !.left = IF Piped THEN Output(call) ELSE << >>]
  BY DEF Fork, At
<1>2. /\ Kept(call', call) /\ call'.pc = (IF Piped THEN "close" ELSE "wait")
  BY <1>1, GotoFields DEF IInv, Shapes
<1>3. HasPipe
  BY <1>2 DEF HasPipe, Kept
<1>4. Piped
  BY <1>1, <1>3 DEF Piped, IInv, EndsInv, ParentEnds, OfParent
<1>5. child'.left = Output(call)
  BY <1>1, <1>4 DEF IInv, Shapes, IsChild
<1>6. /\ call.text = << >> /\ pipe = << >> /\ call.noise \in Nat
      /\ Begins(call.text)
  BY <1>1, <1>3 DEF FlowInv
<1>7. Output(call') = Output(call) /\ Output(call) \in Seq(Letters)
  BY <1>2, <1>6, SameOutput, OutputTells
<1>8. << >> \in Seq(Letters) /\ Output(call) = (<< >> \o << >>) \o Output(call)
  BY <1>7
<1>9. call'.text = << >> /\ call'.noise = call.noise /\ pipe' = << >>
  BY <1>1, <1>2, <1>6 DEF Kept
<1>10. Begins(call.text)'
  BY <1>6, <1>7, <1>9 DEF Begins
<1>11. call'.pc = "close"
  BY <1>2, <1>4
<1> QED BY <1>5, <1>6, <1>7, <1>8, <1>9, <1>10, <1>11 DEF FlowInv

LEMMA Assoc ==
    ASSUME NEW a \in Seq(Letters), NEW b \in Seq(Letters),
           NEW c \in Seq(Letters)
    PROVE  (a \o b) \o c = a \o (b \o c)
BY ConcatAssociative, SMT

LEMMA TwoParts ==
    ASSUME NEW b \in Seq(Letters), NEW n \in 0..Len(b)
    PROVE  /\ SubSeq(b, 1, n) \o SubSeq(b, n + 1, Len(b)) = b
           /\ SubSeq(b, 1, n) \in Seq(Letters)
           /\ SubSeq(b, n + 1, Len(b)) \in Seq(Letters)
<1>1. /\ 1 \in 1..(Len(b) + 1) /\ n \in (1 - 1)..Len(b)
      /\ Len(b) \in n..Len(b) /\ n \in Nat /\ n <= Len(b)
  OBVIOUS
<1>2. SubSeq(b, 1, n) \o SubSeq(b, n + 1, Len(b)) = SubSeq(b, 1, Len(b))
  BY <1>1, ConcatAdjacentSubSeq
<1>3. SubSeq(b, 1, Len(b)) = b
  OBVIOUS
<1>4. SubSeq(b, 1, n) \in Seq(Letters)
  BY <1>1
<1>5. SubSeq(b, n + 1, Len(b)) \in Seq(Letters)
  BY <1>1
<1> QED BY <1>2, <1>3, <1>4, <1>5

\* The front of the middle one of three texts goes to the end of the first.
Moved(a, b, c, n, u, v) ==
  /\ u = SubSeq(b, 1, n) /\ v = SubSeq(b, n + 1, Len(b))
  /\ a \o u \in Seq(Letters) /\ v \o c \in Seq(Letters)
  /\ ((a \o u) \o v) \o c = (a \o b) \o c
  /\ (a \o u) \o (v \o c) = (a \o b) \o c

LEMMA Moves ==
    ASSUME NEW a \in Seq(Letters), NEW b \in Seq(Letters),
           NEW c \in Seq(Letters), NEW n \in 0..Len(b)
    PROVE  \E u \in Seq(Letters), v \in Seq(Letters) :
             Moved(a, b, c, n, u, v)
<1>1. PICK u \in Seq(Letters) : u = SubSeq(b, 1, n)
  BY TwoParts
<1>2. PICK v \in Seq(Letters) : v = SubSeq(b, n + 1, Len(b))
  BY TwoParts
<1>3. u \o v = b
  BY <1>1, <1>2, TwoParts
<1>4. a \o u \in Seq(Letters) /\ v \o c \in Seq(Letters)
  BY Joined
<1>5. (a \o u) \o v = a \o b
  <2>1. (a \o u) \o v = a \o (u \o v)
    BY Assoc
  <2> QED BY <1>3, <2>1
<1>6. (a \o u) \o (v \o c) = ((a \o u) \o v) \o c
  <2>1. PICK w \in Seq(Letters) : w = a \o u
    BY <1>4
  <2>2. (w \o v) \o c = w \o (v \o c)
    BY Assoc
  <2> QED BY <2>1, <2>2
<1> QED BY <1>1, <1>2, <1>4, <1>5, <1>6 DEF Moved

LEMMA ReadFlow == ASSUME IInv, FlowInv, Read PROVE FlowInv'
<1> DEFINE got == Smaller(Len(pipe), Room)
           text == call.text \o SubSeq(pipe, 1, got)
<1>1. /\ call.pc = "read" /\ UNCHANGED <<child, ends>> /\ Room > 0
      /\ call' = [call EXCEPT !.text = text]
      /\ pipe' = SubSeq(pipe, got + 1, Len(pipe))
  BY DEF Read, At
<1> HIDE DEF text, got
<1>2. /\ call'.pc = call.pc /\ call'.slot = call.slot /\ call'.text = text
      /\ call'.noise = call.noise /\ call'.facts = call.facts
  BY <1>1 DEF IInv, Shapes, IsCall
<1>3. HasPipe
  BY <1>1 DEF IInv, Together
<1>4. /\ call.text \in Seq(Letters) /\ pipe \in Seq(Letters)
      /\ child.left \in Seq(Letters) /\ call.noise \in Nat
      /\ Output(call) = (call.text \o pipe) \o child.left
  BY <1>1, <1>3 DEF FlowInv
<1>5. got \in 0..Len(pipe)
  <2>1. Len(pipe) \in Nat /\ Len(call.text) \in Nat
    BY <1>4
  <2> QED BY <1>1, <2>1, SizesAssumption DEF got, Smaller, Room
<1>6. PICK u \in Seq(Letters), v \in Seq(Letters) :
        Moved(call.text, pipe, child.left, got, u, v)
  BY <1>4, <1>5, Moves
<1>7. text = call.text \o u /\ pipe' = v
  BY <1>1, <1>6 DEF text, Moved
<1>8. Output(call') = Output(call)
  BY <1>2 DEF Output
<1>9. Output(call') = (text \o pipe') \o child.left
  BY <1>4, <1>6, <1>7, <1>8 DEF Moved
<1>10. Output(call') = text \o (v \o child.left)
  BY <1>4, <1>6, <1>7, <1>8 DEF Moved
<1>11. Begins(call.text)'
  BY <1>2, <1>6, <1>10 DEF Begins, Moved
<1>12. text \in Seq(Letters) /\ pipe' \in Seq(Letters)
  BY <1>6, <1>7 DEF Moved
<1> QED BY <1>1, <1>2, <1>4, <1>9, <1>11, <1>12 DEF FlowInv

LEMMA WriteFlow ==
    ASSUME IInv, FlowInv, NEW n \in 1..Capacity, Write(n) PROVE FlowInv'
<1> DEFINE some == SubSeq(child.left, 1, n)
           left == SubSeq(child.left, n + 1, Len(child.left))
<1>1. /\ child.pc = "runs" /\ child' = [child EXCEPT !.left = left]
      /\ UNCHANGED <<call, ends>> /\ n <= Len(child.left)
      /\ pipe' = pipe \o some
  BY DEF Write
<1> HIDE DEF some, left
<1>2. child'.left = left
  BY <1>1 DEF IInv, Shapes, IsChild
<1>3. call.pc \notin {"pipe", "fork"}
  BY <1>1 DEF IInv, Together
<1>4. Kept(call', call) /\ call'.pc = call.pc /\ call.pc # "done"
  BY <1>1 DEF Kept, IInv, Together
<1>5. CASE call.pc \notin {"close", "read"}
  BY <1>3, <1>4, <1>5, FlowStays
<1>6. CASE call.pc \in {"close", "read"} /\ ~HasPipe
  BY <1>1, <1>6 DEF FlowInv, HasPipe
<1>7. CASE call.pc \in {"close", "read"} /\ HasPipe
  <2>1. /\ call.text \in Seq(Letters) /\ pipe \in Seq(Letters)
        /\ child.left \in Seq(Letters)
        /\ Output(call) = (call.text \o pipe) \o child.left
    BY <1>7 DEF FlowInv
  <2>2. n \in 0..Len(child.left)
    <3>1. n \in Nat /\ Len(child.left) \in Nat
      BY <2>1, SizesAssumption
    <3> QED BY <1>1, <3>1
  <2>3. PICK all \in Seq(Letters) : all = call.text \o pipe
    BY <2>1, Joined
  <2>4. PICK u \in Seq(Letters), v \in Seq(Letters) :
          u = some /\ v = left /\ u \o v = child.left
    BY <2>1, <2>2, TwoParts, Zenon DEF some, left
  <2>5. (all \o u) \o v = all \o child.left
    <3>1. (all \o u) \o v = all \o (u \o v)
      BY Assoc
    <3> QED BY <2>4, <3>1
  <2>6. all \o u = call.text \o (pipe \o u) /\ pipe \o u \in Seq(Letters)
    <3>1. (call.text \o pipe) \o u = call.text \o (pipe \o u)
      BY <2>1, Assoc, Zenon
    <3>2. pipe \o u \in Seq(Letters)
      BY <2>1, Joined, Zenon
    <3> QED BY <2>3, <3>1, <3>2
  <2>7. Output(call) = (call.text \o pipe') \o child'.left
    BY <1>1, <1>2, <2>1, <2>3, <2>4, <2>5, <2>6
  <2>8. pipe' \in Seq(Letters) /\ child'.left \in Seq(Letters)
    BY <1>1, <1>2, <2>4, <2>6
  <2> QED BY <1>1, <1>3, <1>4, <1>7, <2>7, <2>8
          DEF FlowInv, HasPipe, Begins
<1> QED BY <1>5, <1>6, <1>7

LEMMA AnswerFlow == ASSUME IInv, FlowInv, Answer PROVE FlowInv'
<1>1. call'.pc = "done" /\ IsCall(call)
  BY DEF Answer, At, IInv, Shapes, IsCall
<1>2. CASE HasPipe
  <2>1. /\ Kept(call', call) /\ call'.rc = call.rc
        /\ call'.answer = StatusForPath(call.slot, call.rc, call.text)
    BY <1>1, <1>2, AnswerKeeps
  <2>2. Output(call') = Output(call)
    BY <2>1, SameOutput
  <2>3. call'.noise \in Nat /\ call'.text \in Seq(Letters) /\ Begins(call.text)'
    BY <1>2, <2>1, <2>2 DEF FlowInv, Kept, Begins
  <2> QED BY <1>1, <2>1, <2>3 DEF FlowInv, Kept
<1>3. CASE ~HasPipe
  <2>1. call'.slot = call.slot
    BY <1>1 DEF Answer, IsCall
  <2> QED BY <1>3, <2>1 DEF FlowInv, HasPipe
<1> QED BY <1>2, <1>3

\* While the wrapper reads, nothing that is in the pipe is lost.
LEMMA PipeKept ==
    ASSUME IInv, IInv', NEW closed, Close(closed),
           call'.pc \in {"close", "read"}
    PROVE  pipe' = pipe
<1>1. HasPipe'
  BY DEF IInv, Together
<1>2. ends' # {}
  BY <1>1 DEF IInv, EndsInv, ParentEnds, OfParent
<1>3. ~(ends \subseteq closed)
  BY <1>2 DEF Close
<1> QED BY <1>3 DEF Close

\* The steps of the command that are its end.
LEMMA EndsFlow ==
    ASSUME IInv, IInv', FlowInv, child.pc \in {"starts", "runs"},
           NEW closed, Close(closed), UNCHANGED call, child'.left = child.left
    PROVE  FlowInv'
<1>1. Kept(call', call) /\ call'.pc = call.pc
  BY DEF Kept
<1>2. call.pc \notin {"pipe", "fork", "done"}
  BY DEF IInv, Together
<1>3. call'.pc \in {"close", "read"} => pipe' = pipe
  BY PipeKept
<1> QED BY <1>1, <1>2, <1>3, FlowStays

LEMMA WrapperFlow == ASSUME IInv, IInv', FlowInv, Wrapper PROVE FlowInv'
<1>0. IsCall(call)
  BY DEF IInv, Shapes
<1>1. CASE GivesUp
  <2>1. Returns(2)
    BY <1>1 DEF GivesUp
  <2>2. call'.pc = "answer" /\ Kept(call', call)
    BY <1>0, <2>1, ReturnsFields
  <2> QED BY <2>2, FlowStays
<1>2. CASE MakePipe
  <2>1. call'.pc = "fork" /\ call.pc = "pipe" /\ Kept(call', call) /\ pipe' = pipe
    BY <1>0, <1>2, GotoFields DEF MakePipe, At
  <2> QED BY <2>1, FlowStays
<1>3. CASE Fork
  BY <1>3, ForkFlow
<1>4. CASE ForkFails
  <2>1. Returns(2)
    BY <1>4 DEF ForkFails
  <2>2. call'.pc = "answer" /\ Kept(call', call)
    BY <1>0, <2>1, ReturnsFields
  <2> QED BY <2>2, FlowStays
<1>5. CASE CloseWrite
  <2>1. /\ call'.pc = "read" /\ call.pc = "close" /\ Kept(call', call)
        /\ Close({<<"parent", "write">>}) /\ child'.left = child.left
    BY <1>0, <1>5, GotoFields DEF CloseWrite, At
  <2>2. pipe' = pipe
    BY <2>1, PipeKept
  <2> QED BY <2>1, <2>2, FlowStays
<1>6. CASE Read
  BY <1>6, ReadFlow
<1>7. CASE ReadsNoMore \/ ReadInterrupted
  <2>1. call'.pc = "shut" /\ Kept(call', call)
    BY <1>0, <1>7, GotoFields DEF ReadsNoMore, ReadInterrupted
  <2> QED BY <2>1, FlowStays
<1>8. CASE CloseRead
  <2>1. call'.pc = "wait" /\ Kept(call', call)
    BY <1>0, <1>8, GotoFields DEF CloseRead
  <2> QED BY <2>1, FlowStays
<1>9. CASE Wait \/ WaitFails
  <2>1. Returns(WaitStatus(child.end)) \/ Returns(2)
    BY <1>9 DEF Wait, WaitFails
  <2>2. call'.pc = "answer" /\ Kept(call', call)
    BY <1>0, <2>1, ReturnsFields
  <2> QED BY <2>2, FlowStays
<1>10. CASE Answer
  BY <1>10, AnswerFlow
<1>11. CASE Leave
  <2>1. call'.slot = "none"
    BY <1>11, NewCallFields DEF Leave, NoCall
  <2> QED BY <2>1, Slots DEF FlowInv, HasPipe
<1> QED BY <1>1, <1>2, <1>3, <1>4, <1>5, <1>6, <1>7, <1>8, <1>9, <1>10, <1>11
        DEF Wrapper

LEMMA CommandFlow == ASSUME IInv, IInv', FlowInv, Command PROVE FlowInv'
<1>0. IsChild(child)
  BY DEF IInv, Shapes
<1>1. ASSUME NEW how, NEW code, Ends(how, code),
             child.pc \in {"starts", "runs"}
      PROVE  FlowInv'
  <2>1. child'.left = child.left /\ Close(OfChild) /\ UNCHANGED call
    BY <1>0, <1>1 DEF Ends, IsChild
  <2> QED BY <1>1, <2>1, EndsFlow
<1>2. CASE Exec
  <2>1. /\ child'.left = child.left /\ Close({<<"child", "read">>})
        /\ UNCHANGED call /\ child.pc = "starts"
    BY <1>0, <1>2 DEF Exec, IsChild
  <2> QED BY <2>1, EndsFlow
<1>3. CASE Prints
  BY <1>3, WriteFlow DEF Prints
<1>4. CASE ExecFails
  BY <1>1, <1>4 DEF ExecFails
<1>5. CASE BrokenPipe
  BY <1>1, <1>5 DEF BrokenPipe
<1>6. CASE Finish
  BY <1>1, <1>6 DEF Finish
<1>7. CASE Fails
  BY <1>1, <1>7 DEF Fails
<1>8. CASE Killed
  BY <1>1, <1>8 DEF Killed
<1> QED BY <1>2, <1>3, <1>4, <1>5, <1>6, <1>7, <1>8 DEF Command

LEMMA InitFlow == Init => FlowInv
<1> SUFFICES ASSUME Init PROVE FlowInv
  OBVIOUS
<1>1. call.slot = "none"
  BY NewCallFields DEF Init, NoCall
<1> QED BY <1>1, Slots DEF FlowInv, HasPipe

LEMMA NextFlow == IInv /\ FlowInv /\ [Next]_vars => FlowInv'
<1> SUFFICES ASSUME IInv, FlowInv, [Next]_vars PROVE FlowInv'
  OBVIOUS
<1>0. IInv'
  BY NextOK
<1>1. CASE Asks
  BY <1>1, AskFlow, SizesAssumption DEF Asks
<1>2. CASE Operates
  <2>1. call'.slot = "Operation"
    BY <1>2, NewCallFields DEF Operates, Operate
  <2> QED BY <2>1, Slots DEF FlowInv, HasPipe
<1>3. CASE Wrapper
  BY <1>0, <1>3, WrapperFlow
<1>4. CASE Command
  BY <1>0, <1>4, CommandFlow
<1>5. CASE UNCHANGED vars
  BY <1>5 DEF vars, FlowInv, HasPipe, Begins, Output
<1> QED BY <1>1, <1>2, <1>3, <1>4, <1>5 DEF Next

LEMMA Flows == Spec => []FlowInv
BY Inductive, InitFlow, NextFlow, PTL DEF Spec

\* An answer is the truth or the denial: the denial when the command did not
\* end well, the truth when it did and its text was read to the end, and of a
\* text that was cut off at any piece the truth or the denial if it is asked
\* for a bit.  The command may print any noise first; FlowInv says that what
\* aivivc_gdm_run_capture has in its buffer is the beginning of what the
\* command prints, Tells what extract_string_token and extract_bool_token find
\* in it.
THEOREM AnswersAreTruthful == Spec => []Truthful
<1>1. ASSUME IInv, FlowInv, Returned, HasPipe
      PROVE  /\ ~EndedWell => call.answer = Denied(call.slot)
             /\ (EndedWell /\ call.text = Output(call)
                   /\ ~Behind(call.slot, call.facts)) =>
                  call.answer = Truth(call.slot, call.facts)
             /\ call.slot \notin {"Co", "Permission", "Expand"} =>
                  call.answer \in
                    {Truth(call.slot, call.facts), Denied(call.slot)}
  <2>1. call.pc = "done" /\ (call.rc = 0 <=> EndedWell)
    BY <1>1 DEF Returned, At, IInv, ResultInv, EndedWell, Well
  <2>2. /\ call.answer = StatusForPath(call.slot, call.rc, call.text)
        /\ call.noise \in Nat /\ call.text \in Seq(Letters)
        /\ Begins(call.text)
    BY <1>1, <2>1 DEF FlowInv
  <2>3. Output(call) \in Seq(Letters) /\ Tells(Output(call), call.facts)
    BY <2>2, OutputTells
  <2>4. call.slot \in Questions
    BY <1>1 DEF HasPipe
  <2>5. CASE ~EndedWell
    BY <2>1, <2>2, <2>5 DEF StatusForPath
  <2>6. CASE EndedWell
    <3>1. call.answer = FromText(call.slot, call.text)
      BY <2>1, <2>2, <2>6 DEF StatusForPath
    <3>2. call.text = Output(call) /\ ~Behind(call.slot, call.facts) =>
            call.answer = Truth(call.slot, call.facts)
      BY <2>3, <2>4, <3>1, WholeText
    <3>3. PICK r \in Seq(Letters) : Output(call) = call.text \o r
      BY <2>2 DEF Begins
    <3>4. Tells(call.text \o r, call.facts)
      BY <2>3, <3>3
    <3>5. call.slot \notin {"Co", "Permission", "Expand"} =>
            call.answer \in {Truth(call.slot, call.facts), Denied(call.slot)}
      BY <2>2, <2>4, <3>1, <3>4, CutText
    <3> QED BY <2>6, <3>2, <3>5
  <2> QED BY <2>5, <2>6
<1>2. IInv /\ FlowInv => Truthful
  BY <1>1 DEF Truthful, HasPipe
<1> QED BY <1>2, Inductive, Flows, PTL

=============================================================================
