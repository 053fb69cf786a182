--------------------------- MODULE CheckoutProofs ---------------------------
(* Theorems about Checkout: when calls do not interleave, checkouts of        *)
(* different users never overlap, whichever program made them and wherever a  *)
(* call died; a command leaves the checkouts of others alone and gives back   *)
(* all of its caller's; a call that completes has protected its targets; and  *)
(* what one identity has checked out stays writable.                          *)
EXTENDS Checkout, TLAPS

\* c moves on in its call and nobody else does.
Goes(c, stage, todo) == /\ call' \in [Client -> CallRecord]
                        /\ \A d \in Client \ {c} : call'[d] = call[d]
                        /\ call'[c].at = stage
                        /\ call'[c].todo = todo

LEMMA ScopeType == \A r \in Rel : Scope(r) \in Rel
  BY CheckoutAssumption DEF Scope, Rel

LEMMA AreasType ==
    ASSUME TypeOK, NEW c \in Client
    PROVE  Areas(c) \subseteq Rel
  <1>1. Targets(c) \subseteq Rel
    BY DEF TypeOK, CallRecord, Targets
  <1>2. QED
    BY <1>1, ScopeType DEF Areas

LEMMA TreeType == \A r : Tree(r) \subseteq Node
  BY DEF Tree, Node

LEMMA SiblingsType == \A files : Siblings(files) \subseteq Node
  BY TreeType DEF Siblings

LEMMA ReachedType == \A rels : Reached(rels) \subseteq Node
  BY TreeType, SiblingsType DEF Reached

LEMMA ToGoes ==
    ASSUME TypeOK, NEW c \in Client, NEW stage \in Stage, To(c, stage)
    PROVE  Goes(c, stage, call[c].todo)
  BY DEF TypeOK, CallRecord, To, Goes

LEMMA ToWithGoes ==
    ASSUME TypeOK, NEW c \in Client, NEW stage \in Stage,
           NEW todo \in SUBSET Rel, ToWith(c, stage, todo)
    PROVE  Goes(c, stage, todo)
  BY DEF TypeOK, CallRecord, ToWith, Goes

LEMMA IdleType == Idle \in CallRecord
  BY DEF Idle, CallRecord, Op, Stage

LEMMA ReturnGoes ==
    ASSUME TypeOK, NEW c \in Client, Return(c)
    PROVE  Goes(c, "idle", {})
  <1>1. Idle.at = "idle" /\ Idle.todo = {}
    BY DEF Idle
  <1>2. QED
    BY <1>1, IdleType DEF TypeOK, Return, Goes

LEMMA ReleaseGoes ==
    ASSUME TypeOK, NEW c \in Client, NEW rels \in SUBSET Rel, Release(c, rels)
    PROVE  \E stage \in Stage \ {"mark"}, todo \in SUBSET Rel : Goes(c, stage, todo)
  <1>1. CASE Return(c)
    BY <1>1, ReturnGoes DEF Stage
  <1>2. CASE ToWith(c, "shut", {})
    BY <1>2, ToWithGoes DEF Stage
  <1>3. CASE call' = [call EXCEPT ![c] = [op |-> @.op, at |-> "unlink",
                                          targets |-> @.targets,
                                          todo |-> rels, seen |-> rels]]
    <2>1. Goes(c, "unlink", rels)
      BY <1>3 DEF TypeOK, CallRecord, Goes, Stage
    <2>2. QED
      BY <2>1 DEF Stage
  <1>4. QED
    BY <1>1, <1>2, <1>3 DEF Release, AfterUnlink

LEMMA BeginGoes ==
    ASSUME TypeOK, NEW c \in Client, NEW op \in Op, NEW rels \in SUBSET Rel,
           Begin(c, op, rels)
    PROVE  Goes(c, FirstStage(op), {}) /\ FirstStage(op) \in Stage \ {"mark"}
  <1>1. FirstStage(op) \in Stage \ {"mark"}
    BY DEF FirstStage, Stage
  <1>2. [op |-> op, at |-> FirstStage(op), targets |-> rels, todo |-> {},
         seen |-> {}] \in CallRecord
    BY <1>1 DEF CallRecord
  <1>3. QED
    BY <1>1, <1>2 DEF TypeOK, Begin, Goes

LEMMA RelsOfType == \A u : RelsOf(u) \subseteq Rel
  BY DEF RelsOf

LEMMA LoadGoes ==
    ASSUME TypeOK, NEW c \in Client, Load(c)
    PROVE  Goes(c, "protect", call[c].todo)
  <1> DEFINE seen == RelsOf(UserOf[c])
  <1>1. seen \in SUBSET Rel
    BY RelsOfType
  <1>2. call' = [call EXCEPT ![c].at = "protect", ![c].seen = seen]
    BY DEF Load
  <1> HIDE DEF seen
  <1>3. call[c] \in CallRecord /\ "protect" \in Stage
    BY DEF TypeOK, Stage
  <1> DEFINE record == [call[c] EXCEPT !.at = "protect", !.seen = seen]
  <1>4. /\ record \in CallRecord
        /\ record.at = "protect"
        /\ record.todo = call[c].todo
    BY <1>1, <1>3 DEF CallRecord
  <1>5. call' = [call EXCEPT ![c] = record]
    BY <1>2
  <1> HIDE DEF record
  <1>6. QED
    BY <1>4, <1>5 DEF TypeOK, Goes

-----------------------------------------------------------------------------
(* Where a step takes its call: anywhere but to "mark", except for Check and  *)
(* Mark.                                                                      *)

Elsewhere(c) == \E stage \in Stage \ {"mark"}, todo \in SUBSET Rel :
                    Goes(c, stage, todo)

LEMMA ElsewhereByTo ==
    ASSUME TypeOK, NEW c \in Client, NEW stage \in Stage \ {"mark"},
           To(c, stage) \/ Return(c)
    PROVE  Elsewhere(c)
  <1>1. call[c].todo \in SUBSET Rel
    BY DEF TypeOK, CallRecord
  <1>2. "idle" \in Stage \ {"mark"}
    BY DEF Stage
  <1>3. QED
    BY <1>1, <1>2, ToGoes, ReturnGoes DEF Elsewhere

LEMMA ElsewhereByToWith ==
    ASSUME TypeOK, NEW c \in Client, NEW stage \in Stage \ {"mark"},
           NEW todo \in SUBSET Rel, ToWith(c, stage, todo)
    PROVE  Elsewhere(c)
  BY ToWithGoes DEF Elsewhere

LEMMA UnlinkElsewhere ==
    ASSUME TypeOK, NEW c \in Client, Unlink(c)
    PROVE  Elsewhere(c)
  <1>1. PICK r \in call[c].todo :
            LET rest == call[c].todo \ {r}
            IN  \/ Return(c) \/ ToWith(c, "unlink", rest) \/ AfterUnlink(c)
    BY DEF Unlink
  <1>2. call[c].todo \ {r} \in SUBSET Rel /\ {} \in SUBSET Rel
    BY DEF TypeOK, CallRecord
  <1>3. {"idle", "unlink", "shut"} \subseteq Stage \ {"mark"}
    BY DEF Stage
  <1>4. QED
    BY <1>1, <1>2, <1>3, ElsewhereByTo, ElsewhereByToWith DEF AfterUnlink

LEMMA StepElsewhere ==
    ASSUME TypeOK, NEW c \in Client, Step(c) \/ Crash(c),
           ~Check(c), ~Mark(c)
    PROVE  Elsewhere(c)
  <1>1. {"idle", "lock", "clear", "load", "protect", "list"} \subseteq Stage \ {"mark"}
    BY DEF Stage
  <1>2. CASE Open(c) \/ SvnLock(c) \/ ClearCheckedOut(c) \/ Shut(c) \/ Look(c)
             \/ Protect(c) \/ Crash(c) \/ VcsFails(c)
    BY <1>1, <1>2, ElsewhereByTo
       DEF Open, SvnLock, ClearCheckedOut, Shut, Look, Protect, Crash, VcsFails
  <1>3. CASE VcsSucceeds(c)
    BY <1>1, <1>3, ElsewhereByTo DEF VcsSucceeds
  <1>4. CASE List(c)
    <2>1. Released(c) \in SUBSET Rel
      BY RelsOfType DEF Released
    <2>2. QED
      BY <1>4, <2>1, ReleaseGoes DEF List, Elsewhere
  <1>5. CASE Unlink(c)
    BY <1>5, UnlinkElsewhere
  <1>6. CASE Load(c)
    BY <1>1, <1>6, LoadGoes DEF TypeOK, CallRecord, Elsewhere
  <1>7. QED
    BY <1>2, <1>3, <1>4, <1>5, <1>6 DEF Step

LEMMA CheckGoes ==
    ASSUME TypeOK, NEW c \in Client, Check(c)
    PROVE  \/ Goes(c, "idle", {})
           \/ Goes(c, "mark", Areas(c)) /\ \A r \in Areas(c) : ~OverlapsOther(UserOf[c], r)
  <1>1. "mark" \in Stage
    BY DEF Stage
  <1>2. QED
    BY <1>1, AreasType, ToWithGoes, ReturnGoes DEF Check

LEMMA MarkGoes ==
    ASSUME TypeOK, NEW c \in Client, Mark(c)
    PROVE  \E r \in call[c].todo, stage \in Stage, todo \in SUBSET call[c].todo :
              /\ Goes(c, stage, todo)
              /\ marker' \in {marker, [marker EXCEPT ![r] = UserOf[c]]}
  <1>1. PICK r \in call[c].todo :
            /\ marker' \in {marker, [marker EXCEPT ![r] = UserOf[c]]}
            /\ \/ Return(c)
               \/ ToWith(c, "open", call[c].todo \ {r})
               \/ ToWith(c, "mark", call[c].todo \ {r})
    BY DEF Mark
  <1>2. call[c].todo \ {r} \in SUBSET Rel
    BY DEF TypeOK, CallRecord
  <1>3. {"idle", "open", "mark"} \subseteq Stage
    BY DEF Stage
  <1>4. CASE Return(c)
    BY <1>1, <1>3, <1>4, ReturnGoes
  <1>5. CASE ToWith(c, "open", call[c].todo \ {r})
    <2>1. Goes(c, "open", call[c].todo \ {r})
      BY <1>2, <1>3, <1>5, ToWithGoes
    <2>2. QED
      BY <1>1, <1>3, <2>1
  <1>6. CASE ToWith(c, "mark", call[c].todo \ {r})
    <2>1. Goes(c, "mark", call[c].todo \ {r})
      BY <1>2, <1>3, <1>6, ToWithGoes
    <2>2. QED
      BY <1>1, <1>3, <2>1
  <1>7. QED
    BY <1>1, <1>4, <1>5, <1>6

-----------------------------------------------------------------------------
(* Type correctness.                                                          *)

LEMMA CallTyped ==
    ASSUME TypeOK, NEW c \in Client, Step(c) \/ Crash(c)
    PROVE  call' \in [Client -> CallRecord]
  BY CheckGoes, MarkGoes, StepElsewhere DEF Elsewhere, Goes

LEMMA MarkerTyped ==
    ASSUME TypeOK, NEW c \in Client, Step(c) \/ Crash(c)
    PROVE  marker' \in [Rel -> User \cup {Nobody}]
  <1>1. UserOf[c] \in User /\ marker \in [Rel -> User \cup {Nobody}]
    BY CheckoutAssumption DEF TypeOK
  <1>2. CASE Mark(c)
    BY <1>1, <1>2 DEF Mark
  <1>3. CASE ClearCheckedOut(c)
    BY <1>1, <1>3 DEF ClearCheckedOut
  <1>4. CASE Unlink(c)
    BY <1>1, <1>4 DEF Unlink
  <1>5. CASE UNCHANGED marker
    BY <1>1, <1>5
  <1>6. QED
    BY <1>2, <1>3, <1>4, <1>5
       DEF Step, Crash, Check, Open, SvnLock, VcsSucceeds, VcsFails, List, Shut,
           Look, Load, Protect

LEMMA FilesTyped ==
    ASSUME TypeOK, NEW c \in Client, Step(c) \/ Crash(c)
    PROVE  /\ writable' \in SUBSET Node
           /\ tracked' \in SUBSET File
           /\ present' \in SUBSET File
  <1> DEFINE Typed == /\ writable' \in SUBSET Node
                      /\ tracked' \in SUBSET File
                      /\ present' \in SUBSET File
  <1>1. /\ writable \in SUBSET Node
        /\ tracked \in SUBSET File
        /\ present \in SUBSET File
        /\ File \subseteq Node
    BY DEF TypeOK, Node, Rel
  <1>2. \A rels : FilesUnder(rels) \subseteq File
    BY DEF FilesUnder
  <1>3. CASE UNCHANGED <<writable, tracked, present>>
    BY <1>1, <1>3
  <1>4. CASE Open(c)
    <2>1. UNION {Tree(r) : r \in Areas(c)} \subseteq Node
      BY TreeType
    <2>2. QED
      BY <1>1, <1>4, <2>1, ReachedType DEF Open
  <1>5. CASE Revert(c)
    BY <1>1, <1>2, <1>5 DEF Revert, Replaceable
  <1>6. CASE Add(c)
    BY <1>1, <1>2, <1>6 DEF Add
  <1>7. CASE Pull(c)
    BY <1>1, <1>2, <1>7 DEF Pull, Replaceable, Rewrite
  <1>8. CASE Remove(c)
    BY <1>1, <1>2, <1>8 DEF Remove, Rewrite
  <1>9. CASE Shut(c) \/ Protect(c)
    BY <1>1, <1>9 DEF Shut, Protect
  <1>10. QED
    BY <1>3, <1>4, <1>5, <1>6, <1>7, <1>8, <1>9
       DEF Step, Crash, Check, Mark, SvnLock, VcsSucceeds, VcsFails,
           ClearCheckedOut, List, Unlink, Look, Load

\* A call begins with one of the operations of its client.
LEMMA InvokeBegins ==
    ASSUME NEW c \in Client, Invoke(c)
    PROVE  \E op \in Op, rels \in SUBSET Rel : Begin(c, op, rels)
  <1>1. OpsOf(c) \subseteq Op /\ CommandLines \subseteq SUBSET Rel
    BY DEF OpsOf, Op, CommandLines
  <1>2. QED
    BY <1>1 DEF Invoke

LEMMA NextTyped == TypeOK /\ [Next]_vars => TypeOK'
  <1> SUFFICES ASSUME TypeOK, [Next]_vars PROVE TypeOK'
    OBVIOUS
  <1>0. UNCHANGED setting
    BY DEF Next, vars
  <1>1. ASSUME NEW c \in Client, Invoke(c)
        PROVE  TypeOK'
    <2>1. PICK op \in Op, rels \in SUBSET Rel : Begin(c, op, rels)
      BY <1>1, InvokeBegins
    <2>2. QED
      BY <1>0, <2>1, BeginGoes DEF TypeOK, Begin, Goes
  <1>2. ASSUME NEW c \in Client, Step(c) \/ Crash(c)
        PROVE  TypeOK'
    BY <1>0, <1>2, CallTyped, MarkerTyped, FilesTyped DEF TypeOK
  <1>3. ASSUME NEW f \in File, SaveNew(f)
        PROVE  TypeOK'
    BY <1>0, <1>3 DEF TypeOK, SaveNew, Node, Rel
  <1>4. CASE UNCHANGED vars
    BY <1>4 DEF TypeOK, vars
  <1>5. QED
    BY <1>1, <1>2, <1>3, <1>4 DEF Next

\* The variables keep their types.
THEOREM TypeCorrect == Spec => []TypeOK
  <1>1. Init => TypeOK
    BY CheckoutAssumption, IdleType DEF Init, TypeOK, Node, Rel
  <1>2. QED
    BY <1>1, NextTyped, PTL DEF Spec

-----------------------------------------------------------------------------
(* One owner per area.                                                        *)

\* At most one call is in progress.
OneCall == \A c, d \in Client : c # d /\ ~In(c, "idle") => In(d, "idle")

\* Once the check has passed, nobody else has a marker in the way.
MarkInv == \A c \in Client : In(c, "mark") =>
              \A r \in call[c].todo : ~OverlapsOther(UserOf[c], r)

ExclusiveInv == TypeOK /\ OneCall /\ MarkInv /\ Exclusive

\* A step that takes its call elsewhere and makes no marker.
LEMMA Shrinks ==
    ASSUME ExclusiveInv, NEW c \in Client, ~In(c, "idle"), Elsewhere(c),
           \A r \in Rel : marker'[r] \in {marker[r], Nobody}
    PROVE  (OneCall /\ MarkInv /\ Exclusive)'
  <1>1. PICK stage \in Stage \ {"mark"}, todo \in SUBSET Rel : Goes(c, stage, todo)
    BY DEF Elsewhere
  <1>2. OneCall'
    BY <1>1 DEF ExclusiveInv, OneCall, In, Goes
  <1>3. MarkInv'
    BY <1>1 DEF ExclusiveInv, OneCall, MarkInv, In, Goes
  <1>4. Exclusive'
    BY DEF ExclusiveInv, Exclusive
  <1>5. QED
    BY <1>2, <1>3, <1>4

LEMMA MarkExclusive ==
    ASSUME ExclusiveInv, NEW c \in Client, Mark(c)
    PROVE  (OneCall /\ MarkInv /\ Exclusive)'
  <1>1. PICK r \in call[c].todo, stage \in Stage, todo \in SUBSET call[c].todo :
            /\ Goes(c, stage, todo)
            /\ marker' \in {marker, [marker EXCEPT ![r] = UserOf[c]]}
    BY MarkGoes DEF ExclusiveInv
  <1>2. In(c, "mark")
    BY DEF Mark
  <1>3. /\ UserOf[c] \in User \ {Nobody}
        /\ marker \in [Rel -> User \cup {Nobody}]
        /\ call[c].todo \subseteq Rel
    BY CheckoutAssumption DEF ExclusiveInv, TypeOK, CallRecord
  <1>4. \A q \in call[c].todo, s \in Rel :
           Overlaps(q, s) => marker[s] \in {UserOf[c], Nobody}
    BY <1>2 DEF ExclusiveInv, MarkInv, OverlapsOther
  <1>5. \A s \in Rel : marker'[s] # marker[s] => s = r /\ marker'[s] = UserOf[c]
    BY <1>1, <1>3
  <1>6. OneCall'
    BY <1>1, <1>2 DEF ExclusiveInv, OneCall, In, Goes
  <1>7. MarkInv'
    <2> SUFFICES ASSUME NEW d \in Client, In(d, "mark")',
                        NEW q \in call'[d].todo, NEW s \in Rel, Overlaps(q, s)
                 PROVE  marker'[s] \in {UserOf[d], Nobody}
      BY DEF MarkInv, OverlapsOther
    <2>1. d = c
      BY <1>1, <1>2 DEF ExclusiveInv, OneCall, In, Goes
    <2>2. q \in call[c].todo
      BY <1>1, <2>1 DEF Goes
    <2>3. QED
      BY <1>4, <1>5, <2>1, <2>2
  <1>8. Exclusive'
    <2> SUFFICES ASSUME NEW s \in Rel, NEW t \in Rel, Overlaps(s, t),
                        marker'[s] # Nobody, marker'[t] # Nobody
                 PROVE  marker'[s] = marker'[t]
      BY DEF Exclusive
    <2>1. Overlaps(t, s)
      BY DEF Overlaps
    <2>2. CASE marker'[s] = marker[s] /\ marker'[t] = marker[t]
      BY <2>2 DEF ExclusiveInv, Exclusive
    <2>3. CASE marker'[s] # marker[s]
      BY <1>4, <1>5, <2>3
    <2>4. CASE marker'[t] # marker[t]
      BY <1>4, <1>5, <2>1, <2>4
    <2>5. QED
      BY <2>2, <2>3, <2>4
  <1>9. QED
    BY <1>6, <1>7, <1>8

LEMMA CheckExclusive ==
    ASSUME ExclusiveInv, NEW c \in Client, Check(c)
    PROVE  (OneCall /\ MarkInv /\ Exclusive)'
  <1>1. In(c, "check") /\ UNCHANGED marker
    BY DEF Check
  <1>2. CASE Goes(c, "idle", {})
    <2>1. Elsewhere(c)
      BY <1>2 DEF Elsewhere, Stage
    <2>2. QED
      BY <1>1, <2>1, Shrinks DEF In
  <1>3. CASE /\ Goes(c, "mark", Areas(c))
             /\ \A r \in Areas(c) : ~OverlapsOther(UserOf[c], r)
    <2>1. OneCall'
      BY <1>1, <1>3 DEF ExclusiveInv, OneCall, In, Goes
    <2>2. MarkInv'
      BY <1>1, <1>3 DEF ExclusiveInv, OneCall, MarkInv, OverlapsOther, In, Goes
    <2>3. Exclusive'
      BY <1>1 DEF ExclusiveInv, Exclusive
    <2>4. QED
      BY <2>1, <2>2, <2>3
  <1>4. QED
    BY <1>2, <1>3, CheckGoes DEF ExclusiveInv

LEMMA NoNewMarker ==
    ASSUME TypeOK, NEW c \in Client, Step(c) \/ Crash(c), ~Mark(c)
    PROVE  /\ ~In(c, "idle")
           /\ \A r \in Rel : marker'[r] \in {marker[r], Nobody}
  <1>1. CASE ClearCheckedOut(c)
    BY <1>1 DEF ClearCheckedOut, In
  <1>2. CASE Unlink(c)
    BY <1>2 DEF Unlink, In, TypeOK
  <1>3. QED
    BY <1>1, <1>2
       DEF Step, Crash, Check, Open, SvnLock, VcsSucceeds, VcsFails, List, Shut,
           Look, Load, Protect, In

LEMMA InitExclusive == Init => ExclusiveInv
  <1>1. Init => OneCall /\ MarkInv /\ Exclusive
    BY DEF Init, OneCall, MarkInv, Exclusive, In, Idle
  <1>2. Init => TypeOK
    BY CheckoutAssumption, IdleType DEF Init, TypeOK, Node, Rel
  <1>3. QED
    BY <1>1, <1>2 DEF ExclusiveInv

LEMMA NextExclusive ==
    ASSUME Overlap = FALSE
    PROVE  ExclusiveInv /\ [Next]_vars => ExclusiveInv'
  <1> SUFFICES ASSUME ExclusiveInv, [Next]_vars
               PROVE  (OneCall /\ MarkInv /\ Exclusive)'
    BY NextTyped DEF ExclusiveInv
  <1>1. ASSUME NEW c \in Client, Invoke(c)
        PROVE  (OneCall /\ MarkInv /\ Exclusive)'
    <2>0. PICK op \in Op, rels \in SUBSET Rel : Begin(c, op, rels)
      BY <1>1, InvokeBegins
    <2>1. /\ Goes(c, FirstStage(op), {})
          /\ FirstStage(op) # "mark"
          /\ \A d \in Client : In(d, "idle")
          /\ UNCHANGED marker
      BY <1>1, <2>0, BeginGoes DEF ExclusiveInv, Begin, Invoke
    <2>2. OneCall' /\ MarkInv'
      BY <2>1 DEF OneCall, MarkInv, In, Goes
    <2>3. QED
      BY <2>1, <2>2 DEF ExclusiveInv, Exclusive
  <1>2. ASSUME NEW c \in Client, Step(c) \/ Crash(c)
        PROVE  (OneCall /\ MarkInv /\ Exclusive)'
    <2>1. CASE Check(c)
      BY <2>1, CheckExclusive
    <2>2. CASE Mark(c)
      BY <2>2, MarkExclusive
    <2>3. CASE ~Check(c) /\ ~Mark(c)
      BY <1>2, <2>3, StepElsewhere, NoNewMarker, Shrinks DEF ExclusiveInv
    <2>4. QED
      BY <2>1, <2>2, <2>3
  <1>3. CASE (\E f \in File : SaveNew(f)) \/ UNCHANGED vars
    <2>1. UNCHANGED <<marker, call>>
      BY <1>3 DEF SaveNew, vars
    <2>2. QED
      BY <2>1 DEF ExclusiveInv, OneCall, MarkInv, Exclusive, OverlapsOther, In
  <1>4. QED
    BY <1>1, <1>2, <1>3 DEF Next

\* Calls that do not interleave: markers of different users never overlap.  It
\* takes that the check covers the markers above and below the path, and that
\* it still holds at each of the markers that one command writes.
THEOREM CheckoutsExclude ==
    ASSUME Overlap = FALSE
    PROVE  Spec => []Exclusive
  <1>1. ExclusiveInv => Exclusive
    BY DEF ExclusiveInv
  <1>2. QED
    BY <1>1, InitExclusive, NextExclusive, PTL DEF Spec

-----------------------------------------------------------------------------
(* The tree of paths.                                                         *)

LEMMA AboveItself == \A r \in Rel : Overlaps(r, r)
  BY DEF Overlaps, RelIsUnder, Above

LEMMA AboveTransitive ==
    ASSUME NEW r \in Rel, NEW a \in Above[r], NEW b \in Above[a]
    PROVE  a \in Rel /\ b \in Above[r]
  BY DEF Above

LEMMA ParentAbove == \A r \in Rel \ {Root} : Parent[r] \in Above[r]
  <1> SUFFICES ASSUME NEW r \in Rel \ {Root} PROVE Parent[r] \in Above[r]
    OBVIOUS
  <1>1. Parent[r] \in Rel
    BY CheckoutAssumption DEF Rel
  <1>2. \A S \in SUBSET Rel : r \in S /\ WithParents(S) => Parent[r] \in S
    BY DEF WithParents
  <1>3. QED
    BY <1>1, <1>2 DEF Above

LEMMA AboveByParent ==
    ASSUME NEW r \in Rel \ {Root}
    PROVE  Above[r] \subseteq {r} \cup Above[Parent[r]]
  <1> DEFINE S == {r} \cup Above[Parent[r]]
  <1>1. Parent[r] \in Rel
    BY CheckoutAssumption DEF Rel
  <1>2. S \in SUBSET Rel
    BY <1>1 DEF Above
  <1>3. Parent[r] \in Above[Parent[r]]
    BY <1>1 DEF Above
  <1>4. WithParents(S)
    <2> SUFFICES ASSUME NEW x \in S \ {Root} PROVE Parent[x] \in S
      BY DEF WithParents
    <2>1. CASE x = r
      BY <1>3, <2>1
    <2>2. CASE x \in Above[Parent[r]]
      <3>1. x \in Rel \ {Root}
        BY <1>2
      <3>2. Parent[x] \in Above[x]
        BY <3>1, ParentAbove
      <3>3. QED
        BY <1>1, <2>2, <3>2, AboveTransitive
    <2>3. QED
      BY <2>1, <2>2
  <1>5. r \in S
    OBVIOUS
  <1> HIDE DEF S
  <1>6. Above[r] \subseteq S
    BY <1>2, <1>4, <1>5 DEF Above
  <1>7. QED
    BY <1>6 DEF S

\* What overlaps a file overlaps its directory.
LEMMA ScopeOverlaps ==
    ASSUME NEW r \in Rel, NEW t \in Rel, Overlaps(r, t)
    PROVE  Overlaps(r, Scope(t))
  <1>1. CASE t \in Dir
    BY <1>1 DEF Scope
  <1>2. CASE t \notin Dir
    <2>1. t \in Rel \ {Root} /\ Scope(t) = Parent[t] /\ Parent[t] \in Above[t]
      BY <1>2, CheckoutAssumption, ParentAbove DEF Scope
    <2>2. CASE t \in Above[r]
      BY <2>1, <2>2, AboveTransitive DEF Overlaps, RelIsUnder
    <2>3. CASE r \in Above[t]
      <3>1. r = t \/ r \in Above[Parent[t]]
        BY <2>1, <2>3, AboveByParent
      <3>2. QED
        BY <2>1, <3>1 DEF Overlaps, RelIsUnder
    <2>4. QED
      BY <2>2, <2>3 DEF Overlaps, RelIsUnder
  <1>3. QED
    BY <1>1, <1>2

-----------------------------------------------------------------------------
(* What a call knows of the markers that it gives back.                       *)

\* c's own markers in the way of what it releases.
Mine(c) == {r \in RelsOf(UserOf[c]) : \E a \in Areas(c) : Overlaps(r, a)}

CallInv(c) ==
    /\ call[c].op \in OpsOf(c) \cup {"none"}
    /\ In(c, "lock") \/ In(c, "clear") => c \in Plugin
    /\ In(c, "unlink") => /\ call[c].todo \subseteq RelsOf(UserOf[c])
                          /\ call[c].op # "delete" => Mine(c) \subseteq call[c].todo
    /\ In(c, "shut") => Mine(c) = {}

ReleaseInv == \A c \in Client : CallInv(c)

\* c goes on with the same operation on the same targets.
Keeps(c) == /\ call'[c].op = call[c].op
            /\ call'[c].targets = call[c].targets

LEMMA ToKeeps ==
    ASSUME TypeOK, NEW c \in Client, NEW stage, To(c, stage)
    PROVE  Keeps(c) /\ call'[c].at = stage
  BY DEF TypeOK, CallRecord, To, Keeps

LEMMA ToWithKeeps ==
    ASSUME TypeOK, NEW c \in Client, NEW stage, NEW todo, ToWith(c, stage, todo)
    PROVE  Keeps(c) /\ call'[c].at = stage /\ call'[c].todo = todo
  BY DEF TypeOK, CallRecord, ToWith, Keeps

\* The operation goes on, but not to where there is something to know.
LEMMA PlainStage ==
    ASSUME NEW c \in Client, CallInv(c), Keeps(c),
           call'[c].at \notin {"lock", "clear", "unlink", "shut"}
    PROVE  CallInv(c)'
  BY DEF CallInv, Keeps, In, OpsOf

LEMMA ReturnInv ==
    ASSUME TypeOK, NEW c \in Client, Return(c)
    PROVE  CallInv(c)'
  <1>1. call'[c] = Idle
    BY DEF TypeOK, Return
  <1>2. QED
    BY <1>1 DEF CallInv, In, Idle

LEMMA MineKept ==
    ASSUME NEW c \in Client, Keeps(c),
           NEW q, \A r \in Rel \ {q} : marker'[r] = marker[r],
           marker'[q] # UserOf[c]
    PROVE  Mine(c)' \subseteq Mine(c) \ {q}
  <1>1. Areas(c)' = Areas(c)
    BY DEF Areas, Targets, Keeps
  <1>2. QED
    BY <1>1 DEF Mine, RelsOf

LEMMA MineUnchanged ==
    ASSUME NEW c \in Client, Keeps(c), UNCHANGED marker
    PROVE  Mine(c)' = Mine(c)
  <1>1. Areas(c)' = Areas(c)
    BY DEF Areas, Targets, Keeps
  <1>2. QED
    BY <1>1 DEF Mine, RelsOf

LEMMA UnlinkInv ==
    ASSUME TypeOK, NEW c \in Client, CallInv(c), Unlink(c)
    PROVE  CallInv(c)'
  <1>1. PICK r \in call[c].todo :
            \/ Return(c)
            \/ /\ marker' = [marker EXCEPT ![r] = Nobody]
               /\ \/ ToWith(c, "unlink", call[c].todo \ {r})
                  \/ call[c].todo \ {r} = {} /\ AfterUnlink(c)
    BY DEF Unlink
  <1>2. /\ call[c].todo \subseteq RelsOf(UserOf[c])
        /\ call[c].op # "delete" => Mine(c) \subseteq call[c].todo
        /\ call[c].op \in OpsOf(c) \cup {"none"}
    BY DEF Unlink, CallInv
  <1>3. r \in Rel /\ marker \in [Rel -> User \cup {Nobody}]
        /\ UserOf[c] # Nobody
    BY CheckoutAssumption DEF TypeOK, CallRecord
  <1>4. CASE Return(c)
    BY <1>4, ReturnInv
  <1>5. CASE /\ marker' = [marker EXCEPT ![r] = Nobody]
             /\ ToWith(c, "unlink", call[c].todo \ {r})
    <2>1. Keeps(c) /\ call'[c].at = "unlink" /\ call'[c].todo = call[c].todo \ {r}
      BY <1>5, ToWithKeeps
    <2>2. Mine(c)' \subseteq Mine(c) \ {r}
      BY <1>3, <1>5, <2>1, MineKept
    <2>3. call'[c].todo \subseteq RelsOf(UserOf[c])'
      BY <1>2, <1>3, <1>5, <2>1 DEF RelsOf
    <2>4. QED
      BY <1>2, <2>1, <2>2, <2>3 DEF CallInv, Keeps, In, OpsOf
  <1>6. CASE /\ marker' = [marker EXCEPT ![r] = Nobody]
             /\ call[c].todo \ {r} = {} /\ AfterUnlink(c)
    <2>1. CASE Return(c)
      BY <2>1, ReturnInv
    <2>2. CASE call[c].op # "delete" /\ ToWith(c, "shut", {})
      <3>1. Keeps(c) /\ call'[c].at = "shut"
        BY <2>2, ToWithKeeps
      <3>2. Mine(c)' \subseteq Mine(c) \ {r}
        BY <1>3, <1>6, <3>1, MineKept
      <3>3. Mine(c)' = {}
        BY <1>2, <1>6, <2>2, <3>2
      <3>4. QED
        BY <1>2, <3>1, <3>3 DEF CallInv, Keeps, In, OpsOf
    <2>3. QED
      BY <1>6, <2>1, <2>2 DEF AfterUnlink
  <1>7. QED
    BY <1>1, <1>4, <1>5, <1>6

LEMMA ListInv ==
    ASSUME TypeOK, NEW c \in Client, CallInv(c), List(c)
    PROVE  CallInv(c)'
  <1>1. /\ Released(c) \subseteq RelsOf(UserOf[c])
        /\ call[c].op # "delete" => Released(c) = Mine(c)
    BY DEF Released, Mine
  <1>2. call[c].op \in OpsOf(c) \cup {"none"} /\ UNCHANGED marker
    BY DEF CallInv, List
  <1>3. CASE Return(c)
    BY <1>3, ReturnInv
  <1>4. CASE Released(c) = {} /\ call[c].op # "delete" /\ ToWith(c, "shut", {})
    <2>1. Keeps(c) /\ call'[c].at = "shut"
      BY <1>4, ToWithKeeps
    <2>2. Mine(c)' = {}
      BY <1>1, <1>2, <1>4, <2>1, MineUnchanged
    <2>3. QED
      BY <1>2, <2>1, <2>2 DEF CallInv, Keeps, In, OpsOf
  <1>5. CASE call' = [call EXCEPT ![c] = [op |-> @.op, at |-> "unlink",
                                          targets |-> @.targets,
                                          todo |-> Released(c), seen |-> Released(c)]]
    <2>1. Keeps(c) /\ call'[c].at = "unlink" /\ call'[c].todo = Released(c)
      BY <1>5 DEF TypeOK, Keeps
    <2>2. Mine(c)' = Mine(c) /\ RelsOf(UserOf[c])' = RelsOf(UserOf[c])
      BY <1>2, <2>1, MineUnchanged DEF RelsOf
    <2>3. QED
      BY <1>1, <1>2, <2>1, <2>2 DEF CallInv, Keeps, In, OpsOf
  <1>6. QED
    BY <1>3, <1>4, <1>5 DEF List, Release, AfterUnlink

LEMMA VcsInv ==
    ASSUME TypeOK, NEW c \in Client, CallInv(c), VcsSucceeds(c)
    PROVE  CallInv(c)'
  <1>1. CASE call[c].op \in {"cancelEdit", "commitEdits"} /\ To(c, "clear")
    <2>1. Keeps(c) /\ call'[c].at = "clear"
      BY <1>1, ToKeeps
    <2>2. c \in Plugin
      BY <1>1 DEF CallInv, OpsOf, AdapterOps
    <2>3. QED
      BY <2>1, <2>2 DEF CallInv, Keeps, In, OpsOf
  <1>2. CASE To(c, "list") \/ To(c, "load")
    BY <1>2, ToKeeps, PlainStage
  <1>3. CASE Return(c)
    BY <1>3, ReturnInv
  <1>4. QED
    BY <1>1, <1>2, <1>3 DEF VcsSucceeds

LEMMA MarkCallInv ==
    ASSUME TypeOK, NEW c \in Client, CallInv(c), Mark(c)
    PROVE  CallInv(c)'
  <1>1. PICK r \in call[c].todo :
            \/ Return(c)
            \/ ToWith(c, "open", call[c].todo \ {r})
            \/ ToWith(c, "mark", call[c].todo \ {r})
    BY DEF Mark
  <1>2. QED
    BY <1>1, ReturnInv, ToWithKeeps, PlainStage

LEMMA LoadKeeps ==
    ASSUME TypeOK, NEW c \in Client, Load(c)
    PROVE  Keeps(c) /\ call'[c].at = "protect"
  <1> DEFINE seen == RelsOf(UserOf[c])
  <1>1. call' = [call EXCEPT ![c].at = "protect", ![c].seen = seen]
    BY DEF Load
  <1> HIDE DEF seen
  <1>2. QED
    BY <1>1 DEF TypeOK, CallRecord, Keeps

LEMMA StepCallInv ==
    ASSUME TypeOK, NEW c \in Client, CallInv(c), Step(c) \/ Crash(c)
    PROVE  CallInv(c)'
  <1>1. CASE Return(c)
    BY <1>1, ReturnInv
  <1>2. CASE Check(c)
    BY <1>2, ReturnInv, ToWithKeeps, PlainStage DEF Check
  <1>3. CASE Open(c) \/ SvnLock(c)
    <2>1. CASE Return(c)
      BY <2>1, ReturnInv
    <2>2. CASE c \in Plugin /\ (To(c, "lock") \/ To(c, "clear"))
      <3>1. Keeps(c) /\ call'[c].at \in {"lock", "clear"}
        BY <2>2, ToKeeps
      <3>2. QED
        BY <2>2, <3>1 DEF CallInv, Keeps, In, OpsOf
    <2>3. QED
      BY <1>3, <2>1, <2>2 DEF Open, SvnLock, CallInv
  <1>4. CASE ClearCheckedOut(c) \/ Look(c)
    BY <1>4, ReturnInv, ToKeeps, PlainStage DEF ClearCheckedOut, Look
  <1>5. CASE Load(c)
    BY <1>5, LoadKeeps, PlainStage
  <1>6. QED
    BY <1>1, <1>2, <1>3, <1>4, <1>5, MarkCallInv, VcsInv, ListInv, UnlinkInv
       DEF Step, Crash, VcsFails, Shut, Protect

LEMMA IdleInv ==
    ASSUME NEW d \in Client, CallInv(d), In(d, "idle"), call'[d] = call[d]
    PROVE  CallInv(d)'
  BY DEF CallInv, In, OpsOf

LEMMA BeginInv ==
    ASSUME TypeOK, NEW c \in Client, Invoke(c)
    PROVE  /\ CallInv(c)'
           /\ \A d \in Client \ {c} : call'[d] = call[d]
  <1>1. PICK op \in OpsOf(c) : \E rels : Begin(c, op, rels)
    BY DEF Invoke
  <1>2. /\ call'[c].op = op
        /\ call'[c].at = FirstStage(op)
        /\ \A d \in Client \ {c} : call'[d] = call[d]
    BY <1>1 DEF TypeOK, Begin
  <1>3. FirstStage(op) \notin {"lock", "clear", "unlink", "shut"}
    BY DEF FirstStage
  <1>4. QED
    BY <1>2, <1>3 DEF CallInv, In, OpsOf

LEMMA OthersWait ==
    ASSUME TypeOK, NEW c \in Client, Step(c) \/ Crash(c)
    PROVE  /\ ~In(c, "idle")
           /\ \A d \in Client \ {c} : call'[d] = call[d]
  <1>1. \A d \in Client \ {c} : call'[d] = call[d]
    BY CheckGoes, MarkGoes, StepElsewhere DEF Elsewhere, Goes
  <1>2. CASE Mark(c)
    BY <1>1, <1>2 DEF Mark, In
  <1>3. CASE ~Mark(c)
    BY <1>1, <1>3, NoNewMarker
  <1>4. QED
    BY <1>1, <1>2, <1>3

\* Together with exclusion: what a command may remove is its caller's.
CommandInv == ExclusiveInv /\ ReleaseInv

LEMMA NextRelease ==
    ASSUME Overlap = FALSE
    PROVE  CommandInv /\ [Next]_vars => CommandInv'
  <1> SUFFICES ASSUME CommandInv, [Next]_vars PROVE ReleaseInv'
    BY NextExclusive DEF CommandInv
  <1>1. TypeOK /\ OneCall /\ \A c \in Client : CallInv(c)
    BY DEF CommandInv, ExclusiveInv, ReleaseInv
  <1>2. ASSUME NEW c \in Client, Invoke(c)
        PROVE  ReleaseInv'
    <2>1. \A d \in Client : In(d, "idle")
      BY <1>2 DEF Invoke
    <2>2. QED
      BY <1>1, <1>2, <2>1, BeginInv, IdleInv DEF ReleaseInv
  <1>3. ASSUME NEW c \in Client, Step(c) \/ Crash(c)
        PROVE  ReleaseInv'
    <2>1. \A d \in Client \ {c} : In(d, "idle") /\ call'[d] = call[d]
      BY <1>1, <1>3, OthersWait DEF OneCall
    <2>2. QED
      BY <1>1, <1>3, <2>1, StepCallInv, IdleInv DEF ReleaseInv
  <1>4. CASE (\E f \in File : SaveNew(f)) \/ UNCHANGED vars
    <2>1. UNCHANGED <<marker, call>>
      BY <1>4 DEF SaveNew, vars
    <2>2. QED
      BY <1>1, <2>1 DEF ReleaseInv, CallInv, Mine, RelsOf, Areas, Targets, In, OpsOf
  <1>5. QED
    BY <1>2, <1>3, <1>4 DEF Next

LEMMA InitRelease == Init => CommandInv
  <1>1. Init => ReleaseInv
    BY DEF Init, ReleaseInv, CallInv, In, Idle
  <1>2. QED
    BY <1>1, InitExclusive DEF CommandInv

\* What a command's step does to the markers of others: nothing.
LEMMA StepKeepsOthers ==
    ASSUME CommandInv, NEW c \in Client \ Plugin, Step(c) \/ Crash(c),
           NEW r \in Rel, marker[r] \notin {Nobody, UserOf[c]}
    PROVE  marker'[r] = marker[r]
  <1>1. TypeOK /\ MarkInv /\ CallInv(c)
    BY DEF CommandInv, ExclusiveInv, ReleaseInv
  <1>2. CASE Mark(c)
    <2>1. PICK q \in call[c].todo : marker' \in {marker, [marker EXCEPT ![q] = UserOf[c]]}
      BY <1>2 DEF Mark
    <2>2. q \in Rel
      BY <1>1 DEF TypeOK, CallRecord
    <2>3. marker[q] \in {UserOf[c], Nobody}
      BY <1>1, <1>2, <2>2, AboveItself DEF MarkInv, OverlapsOther, Mark
    <2>4. QED
      BY <1>1, <2>1, <2>3 DEF TypeOK
  <1>3. CASE Unlink(c)
    <2>1. PICK q \in call[c].todo : marker' \in {marker, [marker EXCEPT ![q] = Nobody]}
      BY <1>3 DEF Unlink
    <2>2. marker[q] = UserOf[c]
      BY <1>1, <1>3 DEF CallInv, RelsOf, Unlink
    <2>3. QED
      BY <1>1, <2>1, <2>2 DEF TypeOK
  <1>4. CASE ClearCheckedOut(c)
    BY <1>1, <1>4 DEF ClearCheckedOut, CallInv
  <1>5. CASE UNCHANGED marker
    BY <1>5
  <1>6. QED
    BY <1>2, <1>3, <1>4, <1>5
       DEF Step, Crash, Check, Open, SvnLock, VcsSucceeds, VcsFails, List, Shut,
           Look, Load, Protect

\* Calls that do not interleave: no step of a command takes a checkout away from
\* another user, whatever directories and files its command line names.
THEOREM OthersAreSafe ==
    ASSUME Overlap = FALSE
    PROVE  Spec => OthersKeepTheirs
  <1> DEFINE Kept == \A c \in Client \ Plugin, r \in Rel :
                        /\ marker[r] \notin {Nobody, UserOf[c]}
                        /\ call'[c] # call[c]
                        => marker'[r] = marker[r]
  <1>1. CommandInv /\ [Next]_vars => [Kept]_vars
    <2> SUFFICES ASSUME CommandInv, [Next]_vars,
                        NEW c \in Client \ Plugin, NEW r \in Rel,
                        marker[r] \notin {Nobody, UserOf[c]}, call'[c] # call[c]
                 PROVE  marker'[r] = marker[r]
      OBVIOUS
    <2>1. TypeOK
      BY DEF CommandInv, ExclusiveInv
    <2>2. ASSUME NEW d \in Client, Invoke(d)
          PROVE  UNCHANGED marker
      BY <2>2 DEF Invoke, Begin
    <2>3. ASSUME NEW d \in Client, Step(d) \/ Crash(d)
          PROVE  marker'[r] = marker[r]
      <3>1. d = c
        BY <2>1, <2>3, OthersWait
      <3>2. QED
        BY <2>3, <3>1, StepKeepsOthers
    <2>4. CASE (\E f \in File : SaveNew(f)) \/ UNCHANGED vars
      BY <2>4 DEF SaveNew, vars
    <2>5. QED
      BY <2>2, <2>3, <2>4 DEF Next
  <1>2. QED
    BY <1>1, InitRelease, NextRelease, PTL DEF Spec, OthersKeepTheirs

\* Calls that do not interleave: a ci or cancel that completes leaves its caller no
\* checkout above or below its targets, although it releases the directories of
\* the files it is given.
THEOREM NothingStaysOut ==
    ASSUME Overlap = FALSE
    PROVE  Spec => ReleasesOverlaps
  <1> DEFINE NoneLeft == \A c \in Client : Shut(c) =>
                             \A r \in Rel, t \in Targets(c) :
                                Overlaps(r, t) => marker'[r] # UserOf[c]
  <1>1. CommandInv => [NoneLeft]_vars
    <2> SUFFICES ASSUME CommandInv, NEW c \in Client, Shut(c),
                        NEW r \in Rel, NEW t \in Targets(c), Overlaps(r, t)
                 PROVE  marker'[r] # UserOf[c]
      OBVIOUS
    <2>1. TypeOK /\ CallInv(c)
      BY DEF CommandInv, ExclusiveInv, ReleaseInv
    <2>2. Mine(c) = {} /\ UNCHANGED marker
      BY <2>1 DEF CallInv, Shut
    <2>3. t \in Rel
      BY <2>1 DEF TypeOK, CallRecord, Targets
    <2>4. \E a \in Areas(c) : Overlaps(r, a)
      BY <2>3, ScopeOverlaps DEF Areas
    <2>5. QED
      BY <2>2, <2>4 DEF Mine, RelsOf
  <1>2. QED
    BY <1>1, InitRelease, NextRelease, PTL DEF Spec, ReleasesOverlaps

-----------------------------------------------------------------------------
(* What a call protects.                                                      *)

\* What c goes by when it protects is what it has checked out.
SeenInv == \A c \in Client : In(c, "protect") => call[c].seen = RelsOf(UserOf[c])

\* A file that may be written is there.
WritableIsPresent == writable \cap File \subseteq present

ProtectInv == ExclusiveInv /\ SeenInv /\ WritableIsPresent

LEMMA FilesPresent ==
    ASSUME TypeOK, WritableIsPresent, [Next]_vars
    PROVE  WritableIsPresent'
  <1>1. CASE UNCHANGED <<writable, present>>
    BY <1>1 DEF WritableIsPresent
  <1>2. ASSUME NEW c \in Client, Open(c)
        PROVE  WritableIsPresent'
    BY <1>2, CheckoutAssumption DEF Open, WritableIsPresent, Rel
  <1>3. ASSUME NEW c \in Client, Revert(c) \/ Add(c) \/ Pull(c) \/ Remove(c)
        PROVE  WritableIsPresent'
    BY <1>3 DEF Revert, Add, Pull, Remove, Rewrite, WritableIsPresent
  <1>4. ASSUME NEW c \in Client, Shut(c) \/ Protect(c)
        PROVE  WritableIsPresent'
    BY <1>4 DEF Shut, Protect, WritableIsPresent
  <1>5. ASSUME NEW f \in File, SaveNew(f)
        PROVE  WritableIsPresent'
    BY <1>5 DEF SaveNew, WritableIsPresent
  <1>6. ASSUME NEW c \in Client, Step(c)
        PROVE  WritableIsPresent'
    BY <1>1, <1>2, <1>3, <1>4, <1>6
       DEF Step, Check, Mark, SvnLock, VcsSucceeds, VcsFails, ClearCheckedOut, List,
           Unlink, Look, Load
  <1>7. QED
    BY <1>1, <1>5, <1>6 DEF Next, Invoke, Begin, Crash, vars

\* Only Load takes a call to "protect", and it reads the markers.
LEMMA LoadSees ==
    ASSUME TypeOK, NEW c \in Client, Load(c)
    PROVE  call'[c].seen = RelsOf(UserOf[c])
  <1> DEFINE seen == RelsOf(UserOf[c])
  <1>1. call' = [call EXCEPT ![c].at = "protect", ![c].seen = seen]
    BY DEF Load
  <1> HIDE DEF seen
  <1>2. call'[c].seen = seen
    BY <1>1 DEF TypeOK, CallRecord
  <1>3. QED
    BY <1>2 DEF seen

LEMMA OnlyLoadProtects ==
    ASSUME TypeOK, NEW c \in Client, Step(c) \/ Crash(c), ~Load(c)
    PROVE  call'[c].at # "protect"
  <1>1. Return(c) => call'[c].at = "idle"
    BY DEF TypeOK, Return, Idle
  <1>2. CASE Check(c) \/ Mark(c) \/ Open(c) \/ SvnLock(c)
    <2>1. CASE Check(c)
      BY <1>1, <2>1, ToWithKeeps DEF Check
    <2>2. CASE Mark(c)
      <3>1. PICK r : \/ Return(c)
                     \/ ToWith(c, "open", call[c].todo \ {r})
                     \/ ToWith(c, "mark", call[c].todo \ {r})
        BY <2>2 DEF Mark
      <3>2. QED
        BY <1>1, <3>1, ToWithKeeps
    <2>3. CASE Open(c) \/ SvnLock(c)
      <3>1. Return(c) \/ To(c, "lock") \/ To(c, "clear")
        BY <2>3 DEF Open, SvnLock
      <3>2. QED
        BY <1>1, <3>1, ToKeeps
    <2>4. QED
      BY <1>2, <2>1, <2>2, <2>3
  <1>3. CASE VcsSucceeds(c) \/ VcsFails(c) \/ ClearCheckedOut(c) \/ Look(c)
    BY <1>1, <1>3, ToKeeps DEF VcsSucceeds, VcsFails, ClearCheckedOut, Look
  <1>4. CASE List(c)
    <2>1. CASE Return(c) \/ ToWith(c, "shut", {})
      BY <1>1, <2>1, ToWithKeeps
    <2>2. CASE call' = [call EXCEPT ![c] = [op |-> @.op, at |-> "unlink",
                                            targets |-> @.targets,
                                            todo |-> Released(c), seen |-> Released(c)]]
      BY <2>2 DEF TypeOK
    <2>3. QED
      BY <1>4, <2>1, <2>2 DEF List, Release, AfterUnlink
  <1>5. CASE Unlink(c)
    BY <1>1, <1>5, ToWithKeeps DEF Unlink, AfterUnlink
  <1>6. QED
    BY <1>1, <1>2, <1>3, <1>4, <1>5 DEF Step, Crash, Shut, Protect

LEMMA NextProtect ==
    ASSUME Overlap = FALSE
    PROVE  ProtectInv /\ [Next]_vars => ProtectInv'
  <1> SUFFICES ASSUME ProtectInv, [Next]_vars PROVE SeenInv'
    BY NextExclusive, FilesPresent DEF ProtectInv, ExclusiveInv
  <1>1. TypeOK /\ OneCall /\ SeenInv
    BY DEF ProtectInv, ExclusiveInv
  <1>2. ASSUME NEW c \in Client, Invoke(c)
        PROVE  SeenInv'
    <2>1. PICK op \in Op, rels \in SUBSET Rel : Begin(c, op, rels)
      BY <1>2, InvokeBegins
    <2>2. /\ call'[c].at = FirstStage(op)
          /\ \A d \in Client \ {c} : call'[d] = call[d]
          /\ UNCHANGED marker
      BY <1>1, <2>1 DEF TypeOK, Begin
    <2>3. FirstStage(op) # "protect"
      BY DEF FirstStage
    <2>4. QED
      BY <1>1, <2>2, <2>3 DEF SeenInv, In, RelsOf
  <1>3. ASSUME NEW c \in Client, Step(c) \/ Crash(c)
        PROVE  SeenInv'
    <2>1. \A d \in Client \ {c} : In(d, "idle") /\ call'[d] = call[d]
      BY <1>1, <1>3, OthersWait DEF OneCall
    <2>2. Load(c) => call'[c].seen = RelsOf(UserOf[c]) /\ UNCHANGED marker
      BY <1>1, LoadSees DEF Load
    <2>3. QED
      BY <1>1, <1>3, <2>1, <2>2, OnlyLoadProtects DEF SeenInv, In, RelsOf
  <1>4. CASE (\E f \in File : SaveNew(f)) \/ UNCHANGED vars
    BY <1>1, <1>4 DEF SaveNew, vars, SeenInv, In, RelsOf
  <1>5. QED
    BY <1>2, <1>3, <1>4 DEF Next

\* What is below a target is below what the call works on.
LEMMA AreasCover ==
    ASSUME TypeOK, NEW c \in Client
    PROVE  FilesUnder(Targets(c)) \subseteq FilesUnder(Areas(c))
  <1> SUFFICES ASSUME NEW f \in File, NEW t \in Targets(c), t \in Above[f]
               PROVE  \E a \in Areas(c) : a \in Above[f]
    BY DEF FilesUnder, RelIsUnder
  <1>1. t \in Rel /\ f \in Rel
    BY DEF TypeOK, CallRecord, Targets, Rel
  <1>2. Scope(t) \in Above[f]
    <2>1. CASE t \in Dir
      BY <2>1 DEF Scope
    <2>2. CASE t \notin Dir
      <3>1. Scope(t) = Parent[t] /\ Parent[t] \in Above[t]
        BY <1>1, <2>2, CheckoutAssumption, ParentAbove DEF Scope
      <3>2. QED
        BY <1>1, <3>1, AboveTransitive
    <2>3. QED
      BY <2>1, <2>2
  <1>3. QED
    BY <1>2 DEF Areas

LEMMA FileAmongSiblings ==
    ASSUME NEW files \in SUBSET File
    PROVE  files \subseteq Siblings(files)
  <1> SUFFICES ASSUME NEW f \in files PROVE f \in Tree(Parent[f])
    BY DEF Siblings
  <1>1. f \in Rel \ {Root}
    BY CheckoutAssumption DEF Rel
  <1>2. QED
    BY <1>1, ParentAbove DEF Tree, RelIsUnder

LEMMA ShutCloses ==
    ASSUME TypeOK, NEW c \in Client, Shut(c),
           NEW f \in tracked \cap FilesUnder(Targets(c))
    PROVE  f \notin writable'
  <1> DEFINE rels == Areas(c) \cup call[c].seen
             files == tracked \cap FilesUnder(rels)
  <1>1. f \in files /\ files \subseteq File
    BY AreasCover DEF FilesUnder, TypeOK
  <1>2. f \in Reached(rels)
    <2>1. CASE Git
      BY <1>1, <2>1, FileAmongSiblings DEF Reached
    <2>2. CASE ~Git
      BY <1>1, <2>2 DEF Reached, FilesUnder, Tree, Rel
    <2>3. QED
      BY <2>1, <2>2
  <1>3. QED
    BY <1>2 DEF Shut

LEMMA ProtectCloses ==
    ASSUME ProtectInv, NEW c \in Client, Protect(c),
           NEW f \in tracked \cap FilesUnder(Targets(c)), f \in writable'
    PROVE  CheckedOut(f, RelsOf(UserOf[c]))
  <1>1. TypeOK /\ call[c].seen = RelsOf(UserOf[c])
    BY DEF ProtectInv, ExclusiveInv, SeenInv, Protect
  <1>2. f \in File /\ f \in tracked \cap FilesUnder(Areas(c))
    BY <1>1, AreasCover DEF FilesUnder
  <1>3. f \in present
    BY <1>2 DEF ProtectInv, WritableIsPresent, Protect
  <1> SUFFICES ASSUME ~CheckedOut(f, call[c].seen) PROVE FALSE
    BY <1>1
  <1>4. CASE c \in Plugin
    BY <1>2, <1>3, <1>4 DEF Protect, PluginProtects
  <1>5. CASE c \notin Plugin
    <2> DEFINE free == {g \in tracked \cap FilesUnder(Areas(c)) : ~CheckedOut(g, call[c].seen)}
               there == {g \in present \cap FilesUnder(Areas(c)) : ~CheckedOut(g, call[c].seen)}
    <2>1. f \in free /\ free \subseteq File
      BY <1>2 DEF FilesUnder
    <2>2. f \in there /\ there \subseteq File
      BY <1>2, <1>3 DEF FilesUnder
    <2>3. f \in AdapterProtects(c)
      <3>1. f \in Siblings(free) /\ f \in Siblings(there)
        BY <2>1, <2>2, FileAmongSiblings
      <3>2. QED
        BY <3>1 DEF AdapterProtects
    <2>4. QED
      BY <1>5, <2>3 DEF Protect
  <1>6. QED
    BY <1>4, <1>5

\* Calls that do not interleave: when a call that protects completes, no controlled
\* file of its targets can be written unless its caller has it checked out.  The
\* markers that it goes by are still those on the disk, and a file is protected
\* with the directory that it is in.
THEOREM DoneMeansProtected ==
    ASSUME Overlap = FALSE
    PROVE  Spec => DoneIsProtected
  <1> DEFINE Protected == \A c \in Client : Completes(c) =>
                            \A f \in tracked \cap FilesUnder(Targets(c)) :
                               f \in writable' => CheckedOut(f, RelsOf(UserOf[c]))
  <1>1. Init => ProtectInv
    <2>1. Init => SeenInv /\ WritableIsPresent
      BY CheckoutAssumption DEF Init, SeenInv, WritableIsPresent, In, Idle, Rel
    <2>2. QED
      BY <2>1, InitExclusive DEF ProtectInv
  <1>2. ProtectInv => [Protected]_vars
    <2> SUFFICES ASSUME ProtectInv, NEW c \in Client, Completes(c),
                        NEW f \in tracked \cap FilesUnder(Targets(c)), f \in writable'
                 PROVE  CheckedOut(f, RelsOf(UserOf[c]))
      OBVIOUS
    <2>1. QED
      BY ShutCloses, ProtectCloses DEF Completes, ProtectInv, ExclusiveInv
  <1>3. QED
    BY <1>1, <1>2, NextProtect, PTL DEF Spec, DoneIsProtected

-----------------------------------------------------------------------------
(* What one identity has checked out.                                         *)

\* The call that writes the marker of r has yet to open what is below it.
Opening(r) == \E c \in Client : /\ call[c].at \in {"mark", "open"}
                                /\ r \in Targets(c)

OpenInv == \A r \in Rel, f \in present :
               marker[r] # Nobody /\ RelIsUnder(f, r) => f \in writable \/ Opening(r)

\* Only those who work are in a call.
Working == \A c \in Client : ~In(c, "idle") => c \in setting.clients

\* Every marker is of the one identity, and a call marks only its targets.
OwnersInv ==
    \A r \in Rel : marker[r] \in {Nobody} \cup {UserOf[c] : c \in setting.clients}
TodoInv == \A c \in Client : In(c, "mark") => call[c].todo \subseteq Targets(c)

\* The stages of a plug-in's call; the others are the command's.
PluginStage(c) == call[c].at \notin {"list", "unlink", "shut"}

WritableInv == /\ ProtectInv /\ ReleaseInv
               /\ OpenInv /\ OwnersInv /\ TodoInv /\ Working
               /\ \A c \in Client : PluginStage(c)

LEMMA PluginAreas == ASSUME OneIdentity, NEW c \in setting.clients
                     PROVE  Areas(c) = Targets(c)
  BY DEF OneIdentity, Areas

\* The calls of the others are idle, so only c can be about to open something.
LEMMA OnlyOneOpens ==
    ASSUME WritableInv, NEW c \in Client, ~In(c, "idle"), NEW r, Opening(r)
    PROVE  call[c].at \in {"mark", "open"} /\ r \in Targets(c)
  BY DEF WritableInv, ProtectInv, ExclusiveInv, OneCall, Opening, In

\* Steps that change neither markers nor files nor permissions, of a call that
\* opens nothing.
LEMMA FilesStay ==
    ASSUME WritableInv, NEW c \in Client, ~In(c, "idle"),
           ~(call[c].at \in {"mark", "open"}),
           \A r \in Rel : marker'[r] \in {marker[r], Nobody},
           \A f \in present' : \/ f \in writable'
                               \/ f \in present /\ (f \in writable => f \in writable')
    PROVE  OpenInv'
  <1>1. \A r : ~Opening(r)
    BY OnlyOneOpens
  <1>2. SUFFICES ASSUME NEW r \in Rel, NEW f \in present', marker'[r] # Nobody,
                        RelIsUnder(f, r)
                 PROVE  f \in writable'
    BY DEF OpenInv, RelIsUnder
  <1>3. QED
    BY <1>1, <1>2 DEF WritableInv, OpenInv

LEMMA OpenByMark ==
    ASSUME OneIdentity, WritableInv, NEW c \in Client, Mark(c)
    PROVE  OpenInv'
  <1>1. TypeOK /\ c \in Plugin
    BY DEF WritableInv, ProtectInv, ExclusiveInv, Working, Mark, In, OneIdentity
  <1>2. PICK q \in call[c].todo :
            /\ marker' \in {marker, [marker EXCEPT ![q] = UserOf[c]]}
            /\ \/ ToWith(c, "open", call[c].todo \ {q})
               \/ ToWith(c, "mark", call[c].todo \ {q})
    BY <1>1 DEF Mark
  <1>3. Keeps(c) /\ call'[c].at \in {"mark", "open"}
    BY <1>1, <1>2, ToWithKeeps
  <1>4. q \in Targets(c) /\ ~In(c, "idle")
    BY <1>2 DEF WritableInv, TodoInv, Mark, In
  <1>5. \A r \in Targets(c) : Opening(r)'
    BY <1>3 DEF Opening, Keeps, Targets
  <1>6. \A r : Opening(r) => Opening(r)'
    BY <1>4, <1>5, OnlyOneOpens
  <1>7. \A r \in Rel : marker'[r] = marker[r] \/ r = q
    BY <1>1, <1>2 DEF TypeOK
  <1>8. UNCHANGED <<writable, present>>
    BY DEF Mark
  <1>9. QED
    BY <1>4, <1>5, <1>6, <1>7, <1>8 DEF WritableInv, OpenInv, RelIsUnder

LEMMA OpenByOpen ==
    ASSUME OneIdentity, WritableInv, NEW c \in Client, Open(c)
    PROVE  OpenInv'
  <1>1. SUFFICES ASSUME NEW r \in Rel, NEW f \in present, marker[r] # Nobody,
                        RelIsUnder(f, r)
                 PROVE  f \in writable'
    BY DEF OpenInv, Open, RelIsUnder
  <1>2. CASE f \in writable
    BY <1>2 DEF Open
  <1>3. CASE Opening(r)
    <2>1. r \in Targets(c)
      BY <1>3, OnlyOneOpens DEF Open, In
    <2>2. f \in Tree(r)
      BY <1>1 DEF Tree, Rel, WritableInv, ProtectInv, ExclusiveInv, TypeOK
    <2>3. c \in setting.clients /\ c \in Plugin
      BY DEF WritableInv, Working, Open, In, OneIdentity
    <2>4. QED
      BY <2>1, <2>2, <2>3, PluginAreas DEF Open
  <1>4. QED
    BY <1>1, <1>2, <1>3 DEF WritableInv, OpenInv

\* A file below a marker is below one that the call has seen.
LEMMA OpenByProtect ==
    ASSUME OneIdentity, WritableInv, NEW c \in Client, Protect(c)
    PROVE  OpenInv'
  <1>1. /\ call[c].at = "protect" /\ ~In(c, "idle")
        /\ call[c].seen = RelsOf(UserOf[c])
        /\ UNCHANGED <<marker, present>>
        /\ writable' = writable \ PluginProtects(c)
        /\ c \in setting.clients
    BY DEF OneIdentity, WritableInv, ProtectInv, SeenInv, Protect, In, Working
  <1>2. SUFFICES ASSUME NEW r \in Rel, NEW f \in present, marker[r] # Nobody,
                        RelIsUnder(f, r)
                 PROVE  f \in writable'
    BY <1>1 DEF OpenInv, RelIsUnder
  <1>3. f \in writable
    BY <1>1, <1>2, OnlyOneOpens DEF WritableInv, OpenInv
  <1>4. r \in RelsOf(UserOf[c])
    BY <1>1, <1>2 DEF WritableInv, OwnersInv, OneIdentity, RelsOf
  <1>5. QED
    BY <1>1, <1>2, <1>3, <1>4 DEF PluginProtects, CheckedOut

\* The version control system leaves what it rewrites writable, and takes the
\* permission from files only when it removes them.
LEMMA VcsLeavesWritable ==
    ASSUME NEW c \in Client, Revert(c) \/ Add(c) \/ Pull(c) \/ Remove(c)
    PROVE  \A f \in present' : \/ f \in writable'
                               \/ f \in present /\ (f \in writable => f \in writable')
  BY DEF Revert, Add, Pull, Remove, Rewrite

LEMMA StepOpens ==
    ASSUME OneIdentity, WritableInv, NEW c \in Client, Step(c)
    PROVE  OpenInv'
  <1>0. TypeOK
    BY DEF WritableInv, ProtectInv, ExclusiveInv
  <1>1. CASE Mark(c) \/ Open(c) \/ Protect(c)
    BY <1>1, OpenByMark, OpenByOpen, OpenByProtect
  <1>2. CASE ~(Mark(c) \/ Open(c) \/ Protect(c))
    <2>1. /\ ~In(c, "idle")
          /\ \A r \in Rel : marker'[r] \in {marker[r], Nobody}
      BY <1>0, <1>2, NoNewMarker
    <2>2. ~Shut(c)
      BY DEF WritableInv, PluginStage, Shut, In
    <2>3. call[c].at \notin {"mark", "open"}
      BY <1>2, <2>2 DEF Step, Check, SvnLock, VcsSucceeds, VcsFails, ClearCheckedOut,
         List, Unlink, Look, Load, In
    <2>4. \A f \in present' : \/ f \in writable'
                              \/ f \in present /\ (f \in writable => f \in writable')
      BY <1>2, <2>2, VcsLeavesWritable
         DEF Step, Check, SvnLock, VcsSucceeds, VcsFails, ClearCheckedOut,
             List, Unlink, Look, Load
    <2>5. QED
      BY <2>1, <2>3, <2>4, FilesStay
  <1>3. QED
    BY <1>1, <1>2

\* Where a step takes the call of a plug-in, and what it has to mark then.
LEMMA StepStage ==
    ASSUME OneIdentity, WritableInv, NEW c \in Client, Step(c)
    PROVE  /\ PluginStage(c)'
           /\ In(c, "mark")' => (call[c].todo \subseteq Targets(c))'
  <1>0. c \in setting.clients
    <2>1. TypeOK
      BY DEF WritableInv, ProtectInv, ExclusiveInv
    <2>2. QED
      BY <2>1, OthersWait DEF WritableInv, Working
  <1>1. /\ TypeOK /\ c \in Plugin /\ PluginStage(c)
        /\ call[c].op \in PluginOps \cup {"none"}
        /\ In(c, "mark") => call[c].todo \subseteq Targets(c)
    BY <1>0 DEF WritableInv, ProtectInv, ExclusiveInv, OneIdentity, ReleaseInv,
                CallInv, OpsOf, TodoInv
  <1>2. CASE Return(c)
    BY <1>1, <1>2, ReturnGoes DEF Goes, PluginStage, In
  <1>3. CASE \E stage \in {"lock", "clear", "load"} : To(c, stage)
    BY <1>1, <1>3, ToKeeps DEF PluginStage, In
  <1>4. CASE Check(c)
    BY <1>0, <1>1, <1>2, <1>4, PluginAreas, ToWithKeeps
       DEF Check, PluginStage, In, Keeps, Targets
  <1>5. CASE Mark(c)
    <2>1. PICK q \in call[c].todo, stage \in {"mark", "open"} :
              ToWith(c, stage, call[c].todo \ {q})
      BY <1>1, <1>5 DEF Mark
    <2>2. In(c, "mark")
      BY <1>5 DEF Mark
    <2>3. QED
      BY <1>1, <2>1, <2>2, ToWithKeeps DEF PluginStage, In, Keeps, Targets
  <1>6. CASE Open(c) \/ SvnLock(c) \/ ClearCheckedOut(c) \/ Look(c)
    BY <1>2, <1>3, <1>6 DEF Open, SvnLock, ClearCheckedOut, Look
  <1>7. CASE VcsSucceeds(c) \/ VcsFails(c)
    BY <1>1, <1>2, <1>3, <1>7 DEF VcsSucceeds, VcsFails, PluginOps
  <1>8. CASE Load(c)
    BY <1>1, <1>8, LoadGoes DEF Goes, PluginStage, In
  <1>9. CASE Protect(c)
    BY <1>2, <1>9 DEF Protect
  <1>10. QED
    BY <1>1, <1>4, <1>5, <1>6, <1>7, <1>8, <1>9
       DEF Step, List, Unlink, Shut, In, PluginStage

LEMMA StepOwners ==
    ASSUME OwnersInv, TypeOK, NEW c \in setting.clients, c \in Client, Step(c),
           UNCHANGED setting
    PROVE  OwnersInv'
  <1>1. CASE Mark(c)
    BY <1>1 DEF Mark, OwnersInv, TypeOK
  <1>2. CASE ~Mark(c)
    BY <1>2, NoNewMarker DEF OwnersInv
  <1>3. QED
    BY <1>1, <1>2

LEMMA NextWritable ==
    ASSUME Overlap = FALSE
    PROVE  OneIdentity /\ WritableInv /\ [Next]_vars => WritableInv'
  <1> SUFFICES ASSUME OneIdentity, WritableInv, [Next]_vars
               PROVE  (OpenInv /\ OwnersInv /\ TodoInv /\ Working
                           /\ \A c \in Client : PluginStage(c))'
    BY NextProtect, NextRelease DEF WritableInv, CommandInv, ProtectInv
  <1>1. TypeOK /\ OneCall /\ OpenInv /\ OwnersInv /\ TodoInv /\ Working
        /\ \A c \in Client : PluginStage(c)
    BY DEF WritableInv, ProtectInv, ExclusiveInv
  <1>0. UNCHANGED setting
    BY DEF Next, vars
  <1>2. ASSUME NEW c \in Client, Invoke(c)
        PROVE  (OpenInv /\ OwnersInv /\ TodoInv /\ Working
                    /\ \A d \in Client : PluginStage(d))'
    <2>1. PICK op \in Op, rels \in SUBSET Rel : Begin(c, op, rels) /\ op \in OpsOf(c)
      BY <1>2, CheckoutAssumption
         DEF Invoke, CommandLines, OpsOf, Op, PluginOps, AdapterOps
    <2>2. FirstStage(op) \notin {"list", "unlink", "shut", "mark"}
      BY DEF FirstStage
    <2>3. /\ call'[c].at = FirstStage(op)
          /\ \A d \in Client \ {c} : call'[d] = call[d]
          /\ UNCHANGED <<marker, writable, present>>
          /\ \A d \in Client : In(d, "idle")
      BY <1>1, <1>2, <2>1 DEF TypeOK, Begin, Invoke
    <2>4. \A r : ~Opening(r)
      BY <2>3 DEF Opening, In
    <2>5. OpenInv' /\ OwnersInv'
      BY <1>0, <1>1, <2>3, <2>4 DEF OpenInv, OwnersInv, RelIsUnder
    <2>6. TodoInv' /\ Working' /\ \A d \in Client : PluginStage(d)'
      BY <1>0, <1>1, <1>2, <2>2, <2>3 DEF TodoInv, Working, Invoke, PluginStage, In
    <2>7. QED
      BY <2>5, <2>6
  <1>3. ASSUME NEW c \in Client, Step(c)
        PROVE  (OpenInv /\ OwnersInv /\ TodoInv /\ Working
                    /\ \A d \in Client : PluginStage(d))'
    <2>1. (\A d \in Client \ {c} : call'[d] = call[d]) /\ ~In(c, "idle")
      BY <1>1, <1>3, OthersWait
    <2>2. c \in setting.clients /\ Working'
      BY <1>0, <1>1, <2>1 DEF Working, In
    <2>3. TodoInv' /\ \A d \in Client : PluginStage(d)'
      BY <1>1, <1>3, <2>1, StepStage DEF TodoInv, PluginStage, In, Targets
    <2>4. QED
      BY <1>0, <1>1, <1>3, <2>2, <2>3, StepOpens, StepOwners
  <1>4. ASSUME NEW f \in File, SaveNew(f)
        PROVE  (OpenInv /\ OwnersInv /\ TodoInv /\ Working
                    /\ \A d \in Client : PluginStage(d))'
    BY <1>0, <1>1, <1>4 DEF SaveNew, OpenInv, Opening, OwnersInv, TodoInv, Working,
       PluginStage, In, Targets, RelIsUnder
  <1>5. CASE UNCHANGED vars
    BY <1>1, <1>5 DEF vars, OpenInv, Opening, OwnersInv, TodoInv, Working,
       PluginStage, In, Targets, RelIsUnder
  <1>6. ~ \E c \in Client : Crash(c)
    BY DEF OneIdentity, Crash
  <1>7. QED
    BY <1>2, <1>3, <1>4, <1>5, <1>6 DEF Next

\* Plug-ins of one identity, one call after the other, under Git or Subversion:
\* between calls every file that is checked out may be written, whatever was
\* queried, cancelled, committed or updated around it.
THEOREM CheckedOutStaysWritable ==
    ASSUME Overlap = FALSE
    PROVE  Spec => []CheckedOutWritable
  <1> DEFINE Inv == OneIdentity => WritableInv
  <1>1. Init => Inv
    <2>1. Init => ProtectInv /\ ReleaseInv
      BY InitRelease, CheckoutAssumption
         DEF CommandInv, ProtectInv, Init, SeenInv, WritableIsPresent, In, Idle, Rel
    <2>2. Init => /\ OpenInv /\ OwnersInv /\ TodoInv /\ Working
                  /\ \A c \in Client : PluginStage(c)
      BY DEF Init, OpenInv, OwnersInv, TodoInv, Working, PluginStage, In, Idle
    <2>3. QED
      BY <2>1, <2>2 DEF WritableInv
  <1>2. Inv => CheckedOutWritable
    <2> SUFFICES ASSUME WritableInv, \A c \in Client : In(c, "idle"),
                        NEW f \in present, EffectiveOwner(f) # Nobody
                 PROVE  f \in writable
      BY DEF CheckedOutWritable
    <2>1. PICK r \in Above[f] : marker[r] # Nobody
      BY DEF EffectiveOwner
    <2>2. f \in Rel /\ r \in Rel
      BY <2>1 DEF WritableInv, ProtectInv, ExclusiveInv, TypeOK, Rel, Above
    <2>3. ~Opening(r)
      BY DEF Opening, In
    <2>4. QED
      BY <2>1, <2>2, <2>3 DEF WritableInv, OpenInv, RelIsUnder
  <1>3. Inv /\ [Next]_vars => Inv'
    <2>1. [Next]_vars => (OneIdentity' => OneIdentity)
      BY DEF Next, vars, OneIdentity
    <2>2. QED
      BY <2>1, NextWritable
  <1>4. QED
    BY <1>1, <1>2, <1>3, PTL DEF Spec
=============================================================================
