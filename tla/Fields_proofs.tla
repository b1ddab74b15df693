--------------------------- MODULE Fields_proofs ----------------------------
(***************************************************************************)
(* Theorems about the fields as a whole and about the dialogs that edit a  *)
(* computed one, for any number of dialogs, rules, categories and          *)
(* requests.                                                               *)
(***************************************************************************)
EXTENDS Fields, SchemaTree_proofs, TLAPS

-----------------------------------------------------------------------------
(* What a save that nobody disturbs finds at each of its steps: the old    *)
(* numbers until it writes, then the new ones where it has been.           *)
Fits(save, r, things, numbers) ==
    LET All(x) == \A t \in things : numbers[t] \subseteq {x}
    IN  /\ ~ save.moved /\ ~ save.clash
        /\ save.phase = "patch" => All(r) /\ r = save.opened
        /\ save.phase \in {"recompute", "undo"} => All(save.opened) /\ r = save.draft
        /\ save.phase = "write" =>
               /\ r = save.draft /\ save.todo \subseteq things
               /\ \A t \in things :
                      numbers[t] \subseteq {IF t \in save.todo THEN save.opened ELSE r}
        /\ save.phase = "well" => All(r) /\ r = save.draft
        /\ save.phase = "conflicts" => All(r) /\ r = save.opened

Undisturbed(e) == saves[e] # Closed /\ saves[e].alone /\ hung \subseteq Shelves

OnCourse(e) == Undisturbed(e) => Fits(saves[e], rule, hung, numbered)

AllOnCourse == \A e \in FieldDialog : OnCourse(e)

-----------------------------------------------------------------------------
(* Types.                                                                  *)

LEMMA ClosedIsNone ==
    Closed \notin Dialog /\ Closed \notin Saving /\ Closed \notin Calling /\ Closed \notin Thing
BY FieldAssumption

LEMMA NotAloneTypes ==
    ASSUME FieldTypeOK, NEW others, NotAlone(others)
    PROVE  saves' \in [FieldDialog -> Saving \cup {Closed}]
BY DEF NotAlone, FieldTypeOK, Saving

LEMMA NotSoleTypes ==
    ASSUME FieldTypeOK, NEW others, NotSole(others)
    PROVE  editors' \in [FieldDialog -> Dialog \cup {Closed}]
<1>1. \A D \in Dialog : [D EXCEPT !.sole = FALSE] \in Dialog
  BY DEF Dialog
<1>2. \A e \in FieldDialog : editors[e] # Closed => editors[e] \in Dialog
  BY DEF FieldTypeOK
<1> QED
  BY <1>1, <1>2 DEF NotSole, FieldTypeOK, Open

LEMMA OnwardTypes ==
    ASSUME FieldTypeOK, NEW e \in FieldDialog, NEW next \in Saving \cup {Closed}, NEW changes,
           Onward(e, next, changes)
    PROVE  saves' \in [FieldDialog -> Saving \cup {Closed}]
BY DEF Onward, FieldTypeOK, Saving

LEMMA MutateTypes ==
    ASSUME FieldTypeOK, NEW e \in FieldDialog, Open(e), Mutate(e)
    PROVE  saves' \in [FieldDialog -> Saving \cup {Closed}] /\ edits' \in 0..MaxEdits
<1>1. editors[e] \in Dialog
  BY DEF FieldTypeOK, Open
<1>2. Begun(e) \in Saving
  BY <1>1 DEF Begun, Saving, Dialog, Phase, FieldTypeOK, AllNumbered
<1>3. edits' \in 0..MaxEdits
  BY FieldAssumption DEF Mutate, FieldTypeOK
<1> QED
  BY <1>2, <1>3 DEF Mutate, FieldTypeOK

LEMMA SendTypes ==
    ASSUME FieldTypeOK, NEW e \in FieldDialog, NEW op \in {"bind", "unbind"}, NEW t \in Thing,
           Send(e, op, t)
    PROVE  calls' \in [Call -> Calling \cup {Closed}] /\ edits' \in 0..MaxEdits
<1>1. edits' \in 0..MaxEdits
  BY FieldAssumption DEF Send, FieldTypeOK
<1>2. [ by |-> e, op |-> op, target |-> t, state |-> "sent" ] \in Calling
  BY DEF Calling
<1> QED
  BY <1>1, <1>2 DEF Send, FieldTypeOK

LEMMA FieldTypeInit == FieldInit => FieldTypeOK
<1> SUFFICES ASSUME FieldInit
             PROVE  FieldTypeOK
  OBVIOUS
<1>1. hung \subseteq Thing /\ rule \in Rule
  BY DEF FieldInit, Thing
<1>2. numbered \in [Thing -> SUBSET Rule]
  BY <1>1 DEF FieldInit
<1>3. edits \in 0..MaxEdits
  BY FieldAssumption DEF FieldInit
<1> QED
  BY <1>1, <1>2, <1>3 DEF FieldInit, FieldTypeOK

LEMMA FieldTypeStep == FieldTypeOK /\ [FieldNext]_fieldVars => FieldTypeOK'
<1> SUFFICES ASSUME FieldTypeOK, [FieldNext]_fieldVars
             PROVE  FieldTypeOK'
  OBVIOUS
<1> USE DEF FieldTypeOK
<1>1. CASE UNCHANGED fieldVars
  BY <1>1 DEF fieldVars
<1>2. ASSUME NEW e \in FieldDialog, OpenField(e)
      PROVE  FieldTypeOK'
  <2>1. editors' \in [FieldDialog -> Dialog \cup {Closed}]
    BY <1>2 DEF OpenField, Dialog
  <2> QED
    BY <1>2, <2>1 DEF OpenField
<1>3. ASSUME NEW e \in FieldDialog, CloseField(e)
      PROVE  FieldTypeOK'
  BY <1>3 DEF CloseField
<1>4. ASSUME NEW e \in FieldDialog, TypeRule(e)
      PROVE  FieldTypeOK'
  <2>1. editors' \in [FieldDialog -> Dialog \cup {Closed}]
    BY <1>4 DEF TypeRule, Attending, Open, Dialog
  <2> QED
    BY <1>4, <2>1 DEF TypeRule
<1>5. ASSUME NEW e \in FieldDialog, SubmitField(e)
      PROVE  FieldTypeOK'
  <2>1. Open(e) /\ editors[e] \in Dialog
    BY <1>5 DEF SubmitField, Attending, Open
  <2>2. editors' \in [FieldDialog -> Dialog \cup {Closed}]
    <3>1. [editors[e] EXCEPT !.confirming = TRUE] \in Dialog
      BY <2>1 DEF Dialog
    <3>2. CASE editors[e].draft # editors[e].opened
      <4>1. editors' = [editors EXCEPT ![e].confirming = TRUE]
        BY <1>5, <3>2 DEF SubmitField
      <4> QED
        BY <3>1, <4>1
    <3>3. CASE editors[e].draft = editors[e].opened
      BY <1>5, <3>3 DEF SubmitField
    <3> QED
      BY <3>2, <3>3
  <2>3. saves' \in [FieldDialog -> Saving \cup {Closed}] /\ edits' \in 0..MaxEdits
    BY <1>5, <2>1, MutateTypes DEF SubmitField
  <2> QED
    BY <1>5, <2>2, <2>3 DEF SubmitField
<1>6. ASSUME NEW e \in FieldDialog, ConfirmRule(e)
      PROVE  FieldTypeOK'
  <2>1. Open(e) /\ editors[e] \in Dialog
    BY <1>6 DEF ConfirmRule, Open
  <2>2. editors' \in [FieldDialog -> Dialog \cup {Closed}]
    BY <1>6, <2>1 DEF ConfirmRule, Dialog
  <2>3. saves' \in [FieldDialog -> Saving \cup {Closed}] /\ edits' \in 0..MaxEdits
    BY <1>6, <2>1, MutateTypes DEF ConfirmRule
  <2> QED
    BY <1>6, <2>2, <2>3 DEF ConfirmRule
<1>7. ASSUME NEW e \in FieldDialog, PatchRule(e)
      PROVE  FieldTypeOK'
  <2>1. saves[e] \in Saving
    BY <1>7 DEF PatchRule, At
  <2>2. rule' \in Rule
    BY <1>7, <2>1 DEF PatchRule, Saving
  <2> DEFINE on == IF saves[e].draft = saves[e].opened THEN "well" ELSE "recompute"
  <2>3. [saves[e] EXCEPT !.phase = on] \in Saving
    BY <2>1 DEF Saving, Phase
  <2>4. Onward(e, [saves[e] EXCEPT !.phase = on], rule' # rule)
    BY <1>7 DEF PatchRule
  <2>5. saves' \in [FieldDialog -> Saving \cup {Closed}]
    BY <2>3, <2>4, OnwardTypes
  <2> QED
    BY <1>7, <2>2, <2>5 DEF PatchRule
<1>8. ASSUME NEW e \in FieldDialog, LookAhead(e)
      PROVE  FieldTypeOK'
  <2>1. saves[e] \in Saving
    BY <1>8 DEF LookAhead, At
  <2> DEFINE next(phase) ==
        [saves[e] EXCEPT !.phase = phase, !.todo = Roots, !.moved = FALSE]
  <2>2. \A phase \in Phase : next(phase) \in Saving
    BY <2>1 DEF Saving, Roots
  <2>3. \E phase \in {"write", "undo", "well"} : Onward(e, next(phase), FALSE)
    BY <1>8 DEF LookAhead
  <2>4. saves' \in [FieldDialog -> Saving \cup {Closed}]
    <3>1. PICK phase \in {"write", "undo", "well"} : Onward(e, next(phase), FALSE)
      BY <2>3
    <3>2. next(phase) \in Saving
      BY <2>2 DEF Phase
    <3> HIDE DEF next
    <3> QED
      BY <3>1, <3>2, OnwardTypes
  <2> QED
    BY <1>8, <2>4 DEF LookAhead
<1>9. ASSUME NEW e \in FieldDialog, WriteCategory(e)
      PROVE  FieldTypeOK'
  <2>1. saves[e] \in Saving
    BY <1>9 DEF WriteCategory, At
  <2>2. PICK t \in saves[e].todo, clash \in {FALSE, saves[e].moved} :
           LET todo == saves[e].todo \ {t}
               any  == saves[e].clash \/ clash
               on   == IF todo # {} THEN "write" ELSE IF any THEN "undo" ELSE "well"
           IN  /\ numbered' = IF clash THEN numbered ELSE [numbered EXCEPT ![t] = Recomputed(t)]
               /\ Onward(e, [saves[e] EXCEPT !.phase = on, !.todo = todo, !.clash = any],
                         numbered' # numbered)
    BY <1>9 DEF WriteCategory
  <2> DEFINE todo == saves[e].todo \ {t}
             any  == saves[e].clash \/ clash
             on   == IF todo # {} THEN "write" ELSE IF any THEN "undo" ELSE "well"
             next == [saves[e] EXCEPT !.phase = on, !.todo = todo, !.clash = any]
  <2>3. next \in Saving
    BY <2>1, <2>2 DEF Saving, Phase
  <2>4. saves' \in [FieldDialog -> Saving \cup {Closed}]
    <3>1. Onward(e, next, numbered' # numbered)
      BY <2>2
    <3> HIDE DEF next
    <3> QED
      BY <2>3, <3>1, OnwardTypes
  <2>5. numbered' \in [Thing -> SUBSET Rule]
    BY <2>2 DEF Recomputed
  <2> QED
    BY <1>9, <2>4, <2>5 DEF WriteCategory
<1>10. ASSUME NEW e \in FieldDialog, UndoRule(e)
       PROVE  FieldTypeOK'
  <2>1. saves[e] \in Saving
    BY <1>10 DEF UndoRule, At
  <2>2. rule' \in Rule
    BY <1>10, <2>1 DEF UndoRule, Saving, Restored
  <2>3. [saves[e] EXCEPT !.phase = "conflicts"] \in Saving
    BY <2>1 DEF Saving, Phase
  <2>4. Onward(e, [saves[e] EXCEPT !.phase = "conflicts"], rule' # rule)
    BY <1>10 DEF UndoRule
  <2>5. saves' \in [FieldDialog -> Saving \cup {Closed}]
    BY <2>3, <2>4, OnwardTypes
  <2> QED
    BY <1>10, <2>2, <2>5 DEF UndoRule
<1>11. ASSUME NEW e \in FieldDialog, SaveEnds(e)
       PROVE  FieldTypeOK'
  BY <1>11 DEF SaveEnds
<1>12. ASSUME NEW e \in FieldDialog, SaveFails(e)
       PROVE  FieldTypeOK'
  BY <1>12 DEF SaveFails
<1>13. ASSUME NEW e \in FieldDialog, TickBox(e)
       PROVE  FieldTypeOK'
  <2>1. Open(e) /\ editors[e] \in Dialog
    BY <1>13 DEF TickBox, Attending, Open
  <2>2. PICK t \in SideOf(editors[e].mode) \ editors[e].ticks :
           /\ Send(e, "bind", t)
           /\ editors' = [editors EXCEPT ![e].sole = @ /\ ~ Meets(e, t)]
    BY <1>13 DEF TickBox
  <2>3. t \in Thing
    BY DEF SideOf, Thing
  <2>4. editors' \in [FieldDialog -> Dialog \cup {Closed}]
    BY <2>1, <2>2 DEF Dialog
  <2> QED
    BY <1>13, <2>2, <2>3, <2>4, SendTypes DEF TickBox
<1>14. ASSUME NEW e \in FieldDialog, UntickBox(e)
       PROVE  FieldTypeOK'
  <2>1. Open(e) /\ editors[e] \in Dialog
    BY <1>14 DEF UntickBox, Attending, Open
  <2>2. PICK t \in SideOf(editors[e].mode) \cap editors[e].ticks :
           editors' = [editors EXCEPT ![e].asked = t]
    BY <1>14 DEF UntickBox
  <2>3. editors' \in [FieldDialog -> Dialog \cup {Closed}]
    BY <2>1, <2>2 DEF Dialog
  <2> QED
    BY <1>14, <2>3 DEF UntickBox
<1>15. ASSUME NEW e \in FieldDialog, ConfirmUntick(e)
       PROVE  FieldTypeOK'
  <2>1. editors[e] \in Dialog /\ editors[e].asked \in Thing
    BY <1>15 DEF ConfirmUntick, Open, Dialog
  <2>2. editors' \in [FieldDialog -> Dialog \cup {Closed}]
    BY <1>15, <2>1 DEF ConfirmUntick, Dialog
  <2>3. calls' \in [Call -> Calling \cup {Closed}] /\ edits' \in 0..MaxEdits
    BY <1>15, <2>1, SendTypes DEF ConfirmUntick
  <2> QED
    BY <1>15, <2>2, <2>3 DEF ConfirmUntick
<1>16. ASSUME NEW e \in FieldDialog, SwitchMode(e)
       PROVE  FieldTypeOK'
  <2>1. Open(e) /\ editors[e] \in Dialog
    BY <1>16 DEF SwitchMode, Attending, Open
  <2>2. editors' \in [FieldDialog -> Dialog \cup {Closed}]
    <3>1. PICK m \in {"category", "device"} :
             editors' = [editors EXCEPT ![e].mode = m, ![e].sole = @ /\ Sends(e) = {}]
      BY <1>16 DEF SwitchMode
    <3> DEFINE still == editors[e].sole /\ Sends(e) = {}
    <3>2. still \in BOOLEAN
      OBVIOUS
    <3> HIDE DEF still
    <3>3. [editors[e] EXCEPT !.mode = m, !.sole = still] \in Dialog
      BY <2>1, <3>1, <3>2 DEF Dialog
    <3>4. editors' = [editors EXCEPT ![e] = [editors[e] EXCEPT !.mode = m, !.sole = still]]
      BY <3>1 DEF still
    <3> QED
      BY <3>3, <3>4
  <2> QED
    BY <1>16, <2>2 DEF SwitchMode
<1>17. ASSUME NEW c \in Call, NEW things \in SUBSET Thing, Arrived(c, "bind") \/ Arrived(c, "unbind"),
              Does(c, things)
       PROVE  FieldTypeOK'
  <2>1. calls[c] \in Calling
    BY <1>17 DEF Arrived
  <2>2. calls' \in [Call -> Calling \cup {Closed}]
    BY <1>17, <2>1 DEF Does, Calling
  <2>3. /\ saves' \in [FieldDialog -> Saving \cup {Closed}]
        /\ editors' \in [FieldDialog -> Dialog \cup {Closed}]
    BY <1>17, NotAloneTypes, NotSoleTypes DEF Does
  <2> QED
    BY <1>17, <2>2, <2>3 DEF Does
<1>18. ASSUME NEW c \in Call, Arrived(c, "bind") \/ Arrived(c, "unbind"), Refuses(c)
       PROVE  FieldTypeOK'
  <2>1. calls[c] \in Calling
    BY <1>18 DEF Arrived
  <2>2. calls' \in [Call -> Calling \cup {Closed}]
    BY <1>18, <2>1 DEF Refuses, Calling
  <2> QED
    BY <1>18, <2>2 DEF Refuses
<1>19. ASSUME NEW c \in Call, ServeBind(c)
       PROVE  FieldTypeOK'
  <2>1. calls[c].target \in Thing
    BY <1>19 DEF ServeBind, Arrived, Calling
  <2> QED
    BY <1>17, <1>18, <1>19, <2>1 DEF ServeBind
<1>20. ASSUME NEW c \in Call, ServeUnbind(c)
       PROVE  FieldTypeOK'
  BY <1>17, <1>18, <1>20 DEF ServeUnbind
<1>21. ASSUME NEW c \in Call, CallAnswered(c)
       PROVE  FieldTypeOK'
  <2>1. calls[c] \in Calling
    BY <1>21 DEF CallAnswered
  <2>2. editors' \in [FieldDialog -> Dialog \cup {Closed}]
    BY <1>21, <2>1 DEF CallAnswered, Dialog, Calling, Open, Follows
  <2> QED
    BY <1>21, <2>2 DEF CallAnswered
<1>22. ASSUME NEW c \in Call, CallLost(c)
       PROVE  FieldTypeOK'
  BY <1>22, NotSoleTypes DEF CallLost
<1>23. CASE RecordDevice
  <2>1. edits' \in 0..MaxEdits
    BY <1>23, FieldAssumption DEF RecordDevice
  <2>2. numbered' \in [Thing -> SUBSET Rule]
    BY <1>23 DEF RecordDevice
  <2> QED
    BY <1>23, <2>1, <2>2, NotAloneTypes DEF RecordDevice
<1> QED
  BY <1>1, <1>2, <1>3, <1>4, <1>5, <1>6, <1>7, <1>8, <1>9, <1>10, <1>11, <1>12, <1>13, <1>14,
     <1>15, <1>16, <1>19, <1>20, <1>21, <1>22, <1>23 DEF FieldNext

(* FieldEditor's variables have their types (FieldEditor.tsx).             *)
THEOREM FieldTypes == FieldSpec => []FieldTypeOK
BY FieldTypeInit, FieldTypeStep, PTL DEF FieldSpec

-----------------------------------------------------------------------------
(* Saves.                                                                  *)

(* A save that keeps its step, while what it works on stays, is on course; *)
(* and so is one that is disturbed, or over.                               *)
LEMMA KeepsCourse ==
    ASSUME NEW d \in FieldDialog, OnCourse(d),
           \/ saves'[d] = saves[d] /\ UNCHANGED <<rule, hung, numbered>>
           \/ saves'[d] = Closed
           \/ ~ saves'[d].alone
    PROVE  OnCourse(d)'
BY DEF OnCourse, Undisturbed, Fits

LEMMA DisturbedCourse ==
    ASSUME FieldTypeOK, AllOnCourse, NotAlone(FieldDialog)
    PROVE  AllOnCourse'
<1> SUFFICES ASSUME NEW d \in FieldDialog
             PROVE  OnCourse(d)'
  BY DEF AllOnCourse
<1>1. CASE saves[d] = Closed
  BY <1>1, KeepsCourse DEF NotAlone, AllOnCourse
<1>2. CASE saves[d] # Closed
  <2>1. saves[d] \in Saving
    BY <1>2 DEF FieldTypeOK
  <2>2. saves'[d] = [saves[d] EXCEPT !.moved = TRUE, !.alone = FALSE]
    BY <1>2 DEF NotAlone
  <2>3. ~ saves'[d].alone
    BY <2>1, <2>2 DEF Saving
  <2> QED
    BY <2>3, KeepsCourse DEF AllOnCourse
<1> QED
  BY <1>1, <1>2

(* A step of a save disturbs the others if it changes what they work on.   *)
LEMMA OnwardCourse ==
    ASSUME FieldTypeOK, AllOnCourse, NEW e \in FieldDialog, NEW next \in Saving,
           NEW changes \in BOOLEAN, Onward(e, next, changes), UNCHANGED hung,
           ~ changes => UNCHANGED <<rule, numbered>>,
           next.alone /\ hung \subseteq Shelves => Fits(next, rule', hung, numbered')
    PROVE  AllOnCourse'
<1> SUFFICES ASSUME NEW d \in FieldDialog
             PROVE  OnCourse(d)'
  BY DEF AllOnCourse
<1>1. CASE d = e
  <2>1. saves'[e] = next
    BY DEF Onward
  <2> QED
    BY <1>1, <2>1 DEF OnCourse, Undisturbed
<1>2. CASE d # e /\ changes /\ saves[d] # Closed
  <2>1. saves[d] \in Saving
    BY <1>2 DEF FieldTypeOK
  <2>2. saves'[d] = [saves[d] EXCEPT !.moved = TRUE, !.alone = FALSE]
    BY <1>2 DEF Onward
  <2>3. ~ saves'[d].alone
    BY <2>1, <2>2 DEF Saving
  <2> QED
    BY <2>3, KeepsCourse DEF AllOnCourse
<1>3. CASE d # e /\ saves[d] = Closed
  BY <1>3, KeepsCourse DEF Onward, AllOnCourse
<1>4. CASE d # e /\ ~ changes
  BY <1>4, KeepsCourse DEF Onward, AllOnCourse
<1> QED
  BY <1>1, <1>2, <1>3, <1>4

(* Beginning a save.                                                       *)
LEMMA BegunCourse ==
    ASSUME FieldTypeOK, AllOnCourse, NEW e \in FieldDialog, Mutate(e),
           UNCHANGED <<rule, hung, numbered>>
    PROVE  AllOnCourse'
<1> SUFFICES ASSUME NEW d \in FieldDialog
             PROVE  OnCourse(d)'
  BY DEF AllOnCourse
<1>1. CASE d = e
  <2>1. saves'[d] = Begun(e)
    BY <1>1 DEF Mutate, FieldTypeOK
  <2>2. Begun(e).alone /\ hung \subseteq Shelves => Fits(Begun(e), rule, hung, numbered)
    BY DEF Begun, Fits, AllNumbered
  <2> QED
    BY <2>1, <2>2 DEF OnCourse, Undisturbed
<1>2. CASE d # e
  BY <1>2, KeepsCourse DEF Mutate, AllOnCourse, FieldTypeOK
<1> QED
  BY <1>1, <1>2

LEMMA PatchCourse ==
    ASSUME FieldTypeOK, AllOnCourse, NEW e \in FieldDialog, PatchRule(e)
    PROVE  AllOnCourse'
<1> DEFINE on == IF saves[e].draft = saves[e].opened THEN "well" ELSE "recompute"
           next == [saves[e] EXCEPT !.phase = on]
<1>1. saves[e] \in Saving /\ saves[e] # Closed /\ saves[e].phase = "patch"
  BY DEF PatchRule, At, FieldTypeOK
<1>2. next \in Saving /\ next.alone = saves[e].alone
  BY <1>1 DEF Saving, Phase
<1>3. Onward(e, next, rule' # rule) /\ UNCHANGED <<hung, numbered>> /\ rule' = saves[e].draft
  BY DEF PatchRule
<1>4. ASSUME next.alone, hung \subseteq Shelves
      PROVE  Fits(next, rule', hung, numbered')
  <2>1. Fits(saves[e], rule, hung, numbered)
    BY <1>1, <1>2, <1>4 DEF AllOnCourse, OnCourse, Undisturbed
  <2>2. /\ ~ saves[e].moved /\ ~ saves[e].clash /\ rule = saves[e].opened
        /\ \A t \in hung : numbered[t] \subseteq {rule}
    BY <1>1, <2>1 DEF Fits
  <2>3. /\ next.moved = saves[e].moved /\ next.draft = saves[e].draft /\ next.clash = saves[e].clash
        /\ next.opened = saves[e].opened /\ next.phase = on
    BY <1>1 DEF Saving
  <2> QED
    BY <1>3, <2>2, <2>3 DEF Fits
<1> HIDE DEF next
<1> QED
  BY <1>2, <1>3, <1>4, OnwardCourse

LEMMA LookCourse ==
    ASSUME FieldTypeOK, AllOnCourse, NEW e \in FieldDialog, LookAhead(e)
    PROVE  AllOnCourse'
<1> DEFINE next(phase) ==
        [saves[e] EXCEPT !.phase = phase, !.todo = Roots, !.moved = FALSE]
<1>1. saves[e] \in Saving /\ saves[e] # Closed /\ saves[e].phase = "recompute"
  BY DEF LookAhead, At, FieldTypeOK
<1>2. PICK phase \in {"write", "undo", "well"} :
         Onward(e, next(phase), FALSE) /\ (phase = "well" => ~ Affected)
  BY DEF LookAhead
<1> DEFINE then == next(phase)
<1>3. /\ then \in Saving /\ then.alone = saves[e].alone /\ then.phase = phase
      /\ then.draft = saves[e].draft /\ then.opened = saves[e].opened
      /\ then.todo = Roots /\ then.moved = FALSE /\ then.clash = saves[e].clash
  BY <1>1, <1>2 DEF Saving, Phase, Roots
<1>4. UNCHANGED <<rule, hung, numbered>>
  BY DEF LookAhead
<1>5. ASSUME then.alone, hung \subseteq Shelves
      PROVE  Fits(then, rule, hung, numbered)
  <2>1. Fits(saves[e], rule, hung, numbered)
    BY <1>1, <1>3, <1>5 DEF AllOnCourse, OnCourse, Undisturbed
  <2>2. /\ ~ saves[e].moved /\ rule = saves[e].draft
        /\ \A t \in hung : numbered[t] \subseteq {saves[e].opened}
    BY <1>1, <2>1 DEF Fits
  <2>3. Roots = hung
    BY <1>5 DEF Roots
  <2>4. phase = "well" => \A t \in hung : numbered[t] \subseteq {rule}
    BY <1>2, <2>3 DEF Affected
  <2>5. ~ saves[e].clash
    BY <1>1, <2>1 DEF Fits
  <2> HIDE DEF then
  <2> QED
    BY <1>2, <1>3, <2>2, <2>3, <2>4, <2>5 DEF Fits
<1>6. Onward(e, then, FALSE)
  BY <1>2
<1> HIDE DEF then
<1> QED
  BY <1>3, <1>4, <1>5, <1>6, OnwardCourse

LEMMA WriteCourse ==
    ASSUME FieldTypeOK, AllOnCourse, NEW e \in FieldDialog, WriteCategory(e)
    PROVE  AllOnCourse'
<1>1. saves[e] \in Saving /\ saves[e] # Closed /\ saves[e].phase = "write"
  BY DEF WriteCategory, At, FieldTypeOK
<1>2. PICK t \in saves[e].todo, clash \in {FALSE, saves[e].moved} :
         LET todo == saves[e].todo \ {t}
             any  == saves[e].clash \/ clash
             on   == IF todo # {} THEN "write" ELSE IF any THEN "undo" ELSE "well"
         IN  /\ numbered' = IF clash THEN numbered ELSE [numbered EXCEPT ![t] = Recomputed(t)]
             /\ Onward(e, [saves[e] EXCEPT !.phase = on, !.todo = todo, !.clash = any],
                       numbered' # numbered)
  BY DEF WriteCategory
<1> DEFINE todo == saves[e].todo \ {t}
           any  == saves[e].clash \/ clash
           on   == IF todo # {} THEN "write" ELSE IF any THEN "undo" ELSE "well"
           next == [saves[e] EXCEPT !.phase = on, !.todo = todo, !.clash = any]
<1>3. /\ next \in Saving /\ next.alone = saves[e].alone /\ next.phase = on
      /\ next.draft = saves[e].draft /\ next.opened = saves[e].opened
      /\ next.todo = todo /\ next.moved = saves[e].moved /\ next.clash = any
  BY <1>1, <1>2 DEF Saving, Phase
<1>4. UNCHANGED <<rule, hung>>
  BY DEF WriteCategory
<1>5. ASSUME next.alone, hung \subseteq Shelves
      PROVE  Fits(next, rule, hung, numbered')
  <2>1. Fits(saves[e], rule, hung, numbered)
    BY <1>1, <1>3, <1>5 DEF AllOnCourse, OnCourse, Undisturbed
  <2>2. /\ ~ saves[e].moved /\ rule = saves[e].draft
        /\ ~ saves[e].clash /\ saves[e].todo \subseteq hung
        /\ \A u \in hung :
               numbered[u] \subseteq {IF u \in saves[e].todo THEN saves[e].opened ELSE rule}
    BY <1>1, <2>1 DEF Fits
  <2>3. ~ any /\ ~ clash
    BY <1>2, <2>2
  <2>4. numbered' = [numbered EXCEPT ![t] = Recomputed(t)]
    BY <1>2, <2>3
  <2>5. numbered'[t] \subseteq {rule} /\ \A u \in hung \ {t} : numbered'[u] = numbered[u]
    BY <1>2, <2>2, <2>4, <1>5 DEF Recomputed, FieldTypeOK, Thing
  <2>6. \A u \in hung : numbered'[u] \subseteq {IF u \in todo THEN saves[e].opened ELSE rule}
    BY <2>2, <2>5
  <2> HIDE DEF next
  <2> QED
    BY <1>3, <2>2, <2>3, <2>6 DEF Fits
<1>6. Onward(e, next, numbered' # numbered)
  BY <1>2
<1> HIDE DEF next
<1> QED
  BY <1>3, <1>4, <1>5, <1>6, OnwardCourse

LEMMA UndoCourse ==
    ASSUME FieldTypeOK, AllOnCourse, NEW e \in FieldDialog, UndoRule(e)
    PROVE  AllOnCourse'
<1> DEFINE next == [saves[e] EXCEPT !.phase = "conflicts"]
<1>1. saves[e] \in Saving /\ saves[e] # Closed /\ saves[e].phase = "undo"
  BY DEF UndoRule, At, FieldTypeOK
<1>2. next \in Saving /\ next.alone = saves[e].alone
  BY <1>1 DEF Saving, Phase
<1>3. Onward(e, next, rule' # rule) /\ UNCHANGED <<hung, numbered>> /\ rule' = saves[e].opened
  BY DEF UndoRule, Restored
<1>4. ASSUME next.alone, hung \subseteq Shelves
      PROVE  Fits(next, rule', hung, numbered')
  <2>1. Fits(saves[e], rule, hung, numbered)
    BY <1>1, <1>2, <1>4 DEF AllOnCourse, OnCourse, Undisturbed
  <2>2. /\ ~ saves[e].moved /\ ~ saves[e].clash
        /\ \A t \in hung : numbered[t] \subseteq {saves[e].opened}
    BY <1>1, <2>1 DEF Fits
  <2>3. /\ next.moved = saves[e].moved /\ next.clash = saves[e].clash
        /\ next.opened = saves[e].opened /\ next.phase = "conflicts"
    BY <1>1 DEF Saving
  <2> HIDE DEF next
  <2> QED
    BY <1>3, <2>2, <2>3 DEF Fits
<1> HIDE DEF next
<1> QED
  BY <1>2, <1>3, <1>4, OnwardCourse

LEMMA CourseInit == FieldInit => AllOnCourse
BY DEF FieldInit, AllOnCourse, OnCourse, Undisturbed

LEMMA CourseStep == FieldTypeOK /\ AllOnCourse /\ [FieldNext]_fieldVars => AllOnCourse'
<1> SUFFICES ASSUME FieldTypeOK, AllOnCourse, [FieldNext]_fieldVars
             PROVE  AllOnCourse'
  OBVIOUS
<1>1. ASSUME UNCHANGED <<rule, hung, numbered, saves>>
      PROVE  AllOnCourse'
  BY <1>1, KeepsCourse DEF AllOnCourse
<1>2. ASSUME NEW e \in FieldDialog, saves' = [saves EXCEPT ![e] = Closed],
             UNCHANGED <<rule, hung, numbered>>
      PROVE  AllOnCourse'
  <2> SUFFICES ASSUME NEW d \in FieldDialog
               PROVE  OnCourse(d)'
    BY DEF AllOnCourse
  <2>1. saves'[d] = saves[d] \/ saves'[d] = Closed
    BY <1>2 DEF FieldTypeOK
  <2> QED
    BY <1>2, <2>1, KeepsCourse DEF AllOnCourse
<1>3. ASSUME NEW e \in FieldDialog,
             OpenField(e) \/ CloseField(e) \/ TypeRule(e) \/ TickBox(e) \/ UntickBox(e)
             \/ ConfirmUntick(e) \/ SwitchMode(e)
      PROVE  AllOnCourse'
  BY <1>1, <1>3 DEF OpenField, CloseField, TypeRule, TickBox, UntickBox, ConfirmUntick, SwitchMode
<1>4. ASSUME NEW e \in FieldDialog, SubmitField(e) \/ ConfirmRule(e)
      PROVE  AllOnCourse'
  BY <1>1, <1>4, BegunCourse DEF SubmitField, ConfirmRule
<1>5. ASSUME NEW e \in FieldDialog, SaveEnds(e) \/ SaveFails(e)
      PROVE  AllOnCourse'
  BY <1>2, <1>5 DEF SaveEnds, SaveFails
<1>6. ASSUME NEW c \in Call, ServeBind(c) \/ ServeUnbind(c)
      PROVE  AllOnCourse'
  <2>1. \/ Refuses(c)
        \/ Does(c, hung \cup {calls[c].target})
        \/ Does(c, hung \ {calls[c].target})
    BY <1>6 DEF ServeBind, ServeUnbind
  <2>2. CASE Refuses(c)
    BY <1>1, <2>2 DEF Refuses
  <2>3. ASSUME NEW things, Does(c, things)
        PROVE  AllOnCourse'
    <3>1. CASE things = hung
      BY <1>1, <2>3, <3>1 DEF Does
    <3>2. CASE things # hung
      BY <2>3, <3>2, DisturbedCourse DEF Does
    <3> QED
      BY <3>1, <3>2
  <2> QED
    BY <2>1, <2>2, <2>3
<1>7. ASSUME NEW c \in Call, CallAnswered(c) \/ CallLost(c)
      PROVE  AllOnCourse'
  BY <1>1, <1>7 DEF CallAnswered, CallLost
<1>8. CASE RecordDevice
  BY <1>8, DisturbedCourse DEF RecordDevice
<1>9. CASE UNCHANGED fieldVars
  BY <1>1, <1>9 DEF fieldVars
<1> QED
  BY <1>3, <1>4, <1>5, <1>6, <1>7, <1>8, <1>9, PatchCourse, LookCourse, WriteCourse, UndoCourse
     DEF FieldNext

(* A save that nobody disturbs and that is answered leaves every device    *)
(* numbered by the rule there is (FieldEditor.tsx's save).                 *)
THEOREM SavesStayWhole == FieldSpec => []SavesAreWhole
<1>1. AllOnCourse => SavesAreWhole
  <2> SUFFICES ASSUME AllOnCourse, NEW e \in FieldDialog, Undisturbed(e)
               PROVE  /\ saves[e].phase = "well" => AllNumbered /\ rule = saves[e].draft
                      /\ saves[e].phase = "conflicts" => AllNumbered /\ rule = saves[e].opened
    BY DEF SavesAreWhole, Undisturbed
  <2>1. Fits(saves[e], rule, hung, numbered)
    BY DEF AllOnCourse, OnCourse
  <2> QED
    BY <2>1 DEF Fits, AllNumbered
<1> QED
  BY <1>1, FieldTypeInit, FieldTypeStep, CourseInit, CourseStep, PTL DEF FieldSpec

-----------------------------------------------------------------------------
(* What the requests under way will make of the boxes of a dialog that has *)
(* them for itself: they are of different boxes, all of its side, and a    *)
(* box differs from its binding only until an answer that has been given   *)
(* is heard.                                                               *)

Sole(e) == Open(e) /\ editors[e].sole

Decided(e, t) == \E c \in Sends(e) : calls[c].target = t /\ calls[c].state = "done"

InStep(e) ==
    /\ hung \subseteq SideOf(editors[e].mode)
    /\ \A c \in Sends(e) :
          /\ calls[c].target \in SideOf(editors[e].mode)
          /\ calls[c].state = "done" => (calls[c].target \in hung <=> calls[c].op = "bind")
    /\ \A c, d \in Sends(e) : c # d => calls[c].target # calls[d].target
    /\ \A t \in Thing : (t \in hung <=> t \in editors[e].ticks) \/ Decided(e, t)

OneSide == hung \subseteq Shelves \/ hung \subseteq Makes

AllInStep == OneSide /\ \A e \in FieldDialog : Sole(e) => InStep(e)

(* A dialog stays in step when its boxes, its requests and the bindings    *)
(* stay as they are.                                                       *)
LEMMA StaysInStep ==
    ASSUME NEW e \in FieldDialog, Sole(e) => InStep(e),
           hung' = hung, calls' = calls,
           Sole(e)' => /\ Sole(e)
                       /\ editors'[e].mode = editors[e].mode
                       /\ editors'[e].ticks = editors[e].ticks
    PROVE  (Sole(e) => InStep(e))'
BY DEF InStep, Sends, Decided, SideOf

LEMMA StepStart == FieldInit => AllInStep
BY DEF FieldInit, AllInStep, OneSide, Sole, Open

(* Steps that leave bindings, requests and boxes alone.                    *)
LEMMA QuietSteps ==
    ASSUME FieldTypeOK, AllInStep, hung' = hung, calls' = calls,
           \A e \in FieldDialog : Sole(e)' =>
               /\ Sole(e)
               /\ editors'[e].mode = editors[e].mode
               /\ editors'[e].ticks = editors[e].ticks
    PROVE  AllInStep'
<1>1. OneSide'
  BY DEF AllInStep, OneSide
<1>2. \A e \in FieldDialog : (Sole(e) => InStep(e))'
  BY StaysInStep DEF AllInStep
<1> QED
  BY <1>1, <1>2 DEF AllInStep

LEMMA OpenStep ==
    ASSUME FieldTypeOK, AllInStep, NEW e \in FieldDialog, OpenField(e)
    PROVE  AllInStep'
<1>1. OneSide'
  BY DEF AllInStep, OneSide, OpenField
<1>2. InStep(e)'
  <2>1. editors'[e].ticks = hung /\ hung' = hung /\ calls' = calls
    BY DEF OpenField, FieldTypeOK
  <2>2. editors'[e].mode = IF hung \cap Makes # {} THEN "device" ELSE "category"
    BY DEF OpenField, FieldTypeOK
  <2>3. hung \subseteq SideOf(editors'[e].mode)
    BY <2>2, FieldAssumption DEF AllInStep, OneSide, SideOf, FieldTypeOK, Thing
  <2>4. Sends(e)' = {}
    BY <2>1 DEF OpenField, Sends
  <2> QED
    BY <2>1, <2>3, <2>4 DEF InStep, SideOf
<1>3. ASSUME NEW d \in FieldDialog, d # e
      PROVE  (Sole(d) => InStep(d))'
  <2>1. editors'[d] = editors[d] /\ hung' = hung /\ calls' = calls
    BY <1>3 DEF OpenField, FieldTypeOK
  <2>2. (Sole(d))' => Sole(d)
    BY <2>1 DEF Sole, Open
  <2> QED
    BY <2>1, <2>2, StaysInStep DEF AllInStep
<1> QED
  BY <1>1, <1>2, <1>3 DEF AllInStep

(* A new request is of a box of the side, and no other is of it.           *)
LEMMA SendStep ==
    ASSUME FieldTypeOK, AllInStep, NEW e \in FieldDialog, Open(e),
           NEW op \in {"bind", "unbind"}, NEW t \in SideOf(editors[e].mode),
           Send(e, op, t), hung' = hung,
           \A d \in FieldDialog \ {e} : editors'[d] = editors[d],
           editors'[e].mode = editors[e].mode, editors'[e].ticks = editors[e].ticks,
           editors'[e].sole => editors[e].sole /\ ~ Meets(e, t)
    PROVE  AllInStep'
<1>1. PICK c \in Call : /\ calls[c] = Closed
                        /\ calls' = [calls EXCEPT ![c] =
                              [ by |-> e, op |-> op, target |-> t, state |-> "sent" ]]
  BY DEF Send
<1>2. /\ calls'[c] = [ by |-> e, op |-> op, target |-> t, state |-> "sent" ]
      /\ calls'[c] # Closed
      /\ \A b \in Call \ {c} : calls'[b] = calls[b]
  <2>1. t \in Thing
    BY DEF SideOf, Thing
  <2>2. [ by |-> e, op |-> op, target |-> t, state |-> "sent" ] \in Calling
    BY <2>1 DEF Calling
  <2> QED
    BY <1>1, <2>2, ClosedIsNone DEF FieldTypeOK
<1>3. OneSide'
  BY DEF AllInStep, OneSide
<1>4. ASSUME NEW d \in FieldDialog, d # e
      PROVE  (Sole(d) => InStep(d))'
  <2>1. Sends(d)' = Sends(d) /\ c \notin Sends(d)
    BY <1>1, <1>2, <1>4 DEF Sends
  <2>2. \A b \in Sends(d) : calls'[b] = calls[b]
    BY <1>2, <2>1 DEF Sends
  <2>3. editors'[d] = editors[d]
    BY <1>4
  <2> QED
    BY <2>1, <2>2, <2>3 DEF AllInStep, Sole, Open, InStep, Decided, SideOf
<1>5. ASSUME Sole(e)'
      PROVE  InStep(e)'
  <2>1. InStep(e) /\ ~ Meets(e, t)
    BY <1>5 DEF AllInStep, Sole
  <2>2. Sends(e)' = Sends(e) \cup {c} /\ c \notin Sends(e)
    BY <1>1, <1>2 DEF Sends
  <2>3. \A b \in Sends(e) : calls'[b] = calls[b] /\ calls[b].target # t
    BY <1>2, <2>1, <2>2 DEF Sends, Meets
  <2>4. (hung \subseteq SideOf(editors[e].mode))'
    BY <2>1 DEF InStep, SideOf
  <2>5. ASSUME NEW b \in Sends(e)'
        PROVE  /\ calls'[b].target \in SideOf(editors[e].mode)
               /\ calls'[b].state = "done" => (calls'[b].target \in hung <=> calls'[b].op = "bind")
    BY <1>2, <2>1, <2>2, <2>3 DEF InStep
  <2>6. ASSUME NEW a \in Sends(e)', NEW b \in Sends(e)', a # b
        PROVE  calls'[a].target # calls'[b].target
    BY <1>2, <2>1, <2>2, <2>3, <2>6 DEF InStep
  <2>7. \A u \in Thing : Decided(e, u) => Decided(e, u)'
    BY <2>2, <2>3 DEF Decided
  <2> QED
    BY <2>1, <2>4, <2>5, <2>6, <2>7 DEF InStep, SideOf
<1> QED
  BY <1>3, <1>4, <1>5 DEF AllInStep

LEMMA SwitchStep ==
    ASSUME FieldTypeOK, AllInStep, NEW e \in FieldDialog, SwitchMode(e)
    PROVE  AllInStep'
<1>1. hung' = hung /\ calls' = calls /\ editors[e].ticks = {}
  BY DEF SwitchMode
<1>2. OneSide'
  BY <1>1 DEF AllInStep, OneSide
<1>3. PICK m \in {"category", "device"} :
         editors' = [editors EXCEPT ![e].mode = m, ![e].sole = @ /\ Sends(e) = {}]
  BY DEF SwitchMode
<1>4. ASSUME NEW d \in FieldDialog, d # e
      PROVE  (Sole(d) => InStep(d))'
  <2>1. editors'[d] = editors[d]
    BY <1>3, <1>4 DEF FieldTypeOK
  <2>2. (Sole(d))' => Sole(d)
    BY <2>1 DEF Sole, Open
  <2> QED
    BY <1>1, <2>1, <2>2, StaysInStep DEF AllInStep
<1>5. ASSUME Sole(e)'
      PROVE  InStep(e)'
  <2>1. editors[e] \in Dialog
    BY DEF SwitchMode, Attending, Open, FieldTypeOK
  <2>2. editors'[e].ticks = {} /\ editors[e].sole /\ Sends(e) = {}
    BY <1>1, <1>3, <1>5, <2>1 DEF FieldTypeOK, Dialog, Sole
  <2>3. InStep(e)
    BY <2>2 DEF AllInStep, Sole, SwitchMode, Attending
  <2>4. hung = {}
    BY <1>1, <2>2, <2>3 DEF InStep, Decided, FieldTypeOK
  <2>5. Sends(e)' = {}
    BY <1>1, <2>2 DEF Sends
  <2> QED
    BY <1>1, <2>2, <2>4, <2>5 DEF InStep
<1> QED
  BY <1>2, <1>4, <1>5 DEF AllInStep

(* A request that changes the bindings is of a dialog that is sole, or of  *)
(* none: the others know that they are not.                                *)
LEMMA ServeStep ==
    ASSUME FieldTypeOK, AllInStep, NEW c \in Call, NEW t \in Thing, NEW things,
           calls[c] # Closed, calls[c].state = "sent", calls[c].target = t,
           \/ calls[c].op = "bind" /\ MayHang(t) /\ things = hung \cup {t}
           \/ calls[c].op = "unbind" /\ things = hung \ {t},
           Does(c, things)
    PROVE  AllInStep'
<1>1. calls[c] \in Calling
  BY DEF FieldTypeOK
<1>2. calls'[c] = [calls[c] EXCEPT !.state = "done"] /\ \A b \in Call \ {c} : calls'[b] = calls[b]
  BY DEF Does, FieldTypeOK
<1>3. /\ calls'[c].by = calls[c].by /\ calls'[c].op = calls[c].op
      /\ calls'[c].target = t /\ calls'[c].state = "done"
  BY <1>1, <1>2 DEF Calling
<1>4. calls'[c] # Closed
  <2>1. calls'[c] \in Calling
    BY <1>1, <1>2 DEF Calling
  <2> QED
    BY <2>1, ClosedIsNone
<1>5. hung' = things
  BY DEF Does
<1>6. OneSide'
  BY <1>5 DEF AllInStep, OneSide, MayHang, Thing
<1>7. ASSUME NEW e \in FieldDialog, Sole(e)'
      PROVE  InStep(e)'
  <2>1. Sole(e) /\ editors'[e].mode = editors[e].mode /\ editors'[e].ticks = editors[e].ticks
    <3>1. CASE things = hung
      BY <1>7, <3>1 DEF Does, Sole, Open
    <3>2. CASE things # hung
      <4>1. editors'[e] = editors[e] \/ (Open(e) /\ editors'[e] = [editors[e] EXCEPT !.sole = FALSE])
        BY <3>2 DEF Does, NotSole
      <4>2. CASE editors'[e] = editors[e]
        BY <1>7, <4>2 DEF Sole, Open
      <4>3. CASE Open(e) /\ editors'[e] = [editors[e] EXCEPT !.sole = FALSE]
        <5>1. editors[e] \in Dialog
          BY <4>3 DEF Open, FieldTypeOK
        <5>2. ~ editors'[e].sole
          BY <4>3, <5>1 DEF Dialog
        <5> QED
          BY <1>7, <5>2 DEF Sole
      <4> QED
        BY <4>1, <4>2, <4>3
    <3> QED
      BY <3>1, <3>2
  <2>2. InStep(e)
    BY <2>1 DEF AllInStep
  <2>3. Sends(e)' = Sends(e)
    BY <1>2, <1>3, <1>4 DEF Sends
  <2>4. CASE calls[c].by = e
    <3>1. c \in Sends(e)
      BY <2>4 DEF Sends
    <3>2. \A b \in Sends(e) \ {c} : calls'[b] = calls[b] /\ calls[b].target # t
      BY <1>2, <2>2, <3>1 DEF InStep, Sends
    <3>3. \A u \in Thing \ {t} : u \in things <=> u \in hung
      OBVIOUS
    <3>4. t \in things <=> calls[c].op = "bind"
      OBVIOUS
    <3>5. (hung \subseteq SideOf(editors[e].mode))'
      BY <1>5, <2>1, <2>2, <3>1, <3>3 DEF InStep, SideOf
    <3>6. ASSUME NEW b \in Sends(e)
          PROVE  /\ calls'[b].target \in SideOf(editors[e].mode)
                 /\ calls'[b].state = "done" => (calls'[b].target \in things <=> calls'[b].op = "bind")
      <4>1. CASE b = c
        BY <1>3, <2>2, <3>1, <3>4, <4>1 DEF InStep
      <4>2. CASE b # c
        <5>1. calls'[b] = calls[b] /\ calls[b].target # t
          BY <3>2, <4>2
        <5> QED
          BY <2>2, <5>1 DEF InStep
      <4> QED
        BY <4>1, <4>2
    <3>7. \A a, b \in Sends(e) : a # b => calls'[a].target # calls'[b].target
      <4>1. \A b \in Sends(e) : calls'[b].target = calls[b].target
        BY <1>3, <3>2
      <4> QED
        BY <2>2, <4>1 DEF InStep
    <3>8. ASSUME NEW u \in Thing
          PROVE  (u \in things <=> u \in editors[e].ticks) \/ Decided(e, u)'
      <4>1. CASE u = t
        BY <1>3, <2>3, <3>1, <4>1 DEF Decided
      <4>2. CASE u # t
        <5>1. Decided(e, u) => Decided(e, u)'
          BY <2>3, <3>2, <4>2 DEF Decided
        <5> QED
          BY <2>2, <3>3, <4>2, <5>1 DEF InStep
      <4> QED
        BY <4>1, <4>2
    <3> QED
      BY <1>5, <2>1, <2>3, <3>5, <3>6, <3>7, <3>8 DEF InStep, SideOf
  <2>5. CASE calls[c].by # e
    <3>1. things = hung
      <4> SUFFICES ASSUME things # hung
                   PROVE  FALSE
        OBVIOUS
      <4>1. e \in FieldDialog \ {calls[c].by} /\ Open(e)
        BY <2>1, <2>5 DEF Sole
      <4>2. editors'[e] = [editors[e] EXCEPT !.sole = FALSE]
        BY <4>1 DEF Does, NotSole
      <4>3. editors[e] \in Dialog
        BY <4>1 DEF Open, FieldTypeOK
      <4> QED
        BY <1>7, <4>2, <4>3 DEF Sole, Dialog
    <3>2. c \notin Sends(e) /\ \A b \in Sends(e) : calls'[b] = calls[b]
      BY <1>2, <2>5 DEF Sends
    <3> QED
      BY <1>5, <2>1, <2>2, <2>3, <3>1, <3>2 DEF InStep, Decided, SideOf
  <2> QED
    BY <2>4, <2>5
<1> QED
  BY <1>6, <1>7 DEF AllInStep

(* An answer that is heard is of one box, and no other request is of it.   *)
LEMMA AnswerStep ==
    ASSUME FieldTypeOK, AllInStep, NEW c \in Call, CallAnswered(c)
    PROVE  AllInStep'
<1>1. calls[c] \in Calling /\ calls[c] # Closed /\ calls[c].state # "sent"
  BY DEF CallAnswered, FieldTypeOK
<1>2. PICK e \in FieldDialog : e = calls[c].by
  BY <1>1 DEF Calling
<1>3. hung' = hung /\ calls'[c] = Closed /\ \A b \in Call \ {c} : calls'[b] = calls[b]
  BY DEF CallAnswered, FieldTypeOK
<1>4. editors' = IF Open(e) THEN [editors EXCEPT ![e].ticks = Follows(@, calls[c])] ELSE editors
  BY <1>2 DEF CallAnswered
<1>5. OneSide'
  BY <1>3 DEF AllInStep, OneSide
<1>6. ASSUME NEW d \in FieldDialog, d # e
      PROVE  (Sole(d) => InStep(d))'
  <2>1. editors'[d] = editors[d]
    BY <1>4, <1>6 DEF FieldTypeOK
  <2>2. Sends(d)' = Sends(d) /\ \A b \in Sends(d) : calls'[b] = calls[b]
    BY <1>2, <1>3, <1>6 DEF Sends
  <2> QED
    BY <1>3, <2>1, <2>2 DEF AllInStep, Sole, Open, InStep, Decided, SideOf
<1>7. ASSUME Sole(e)'
      PROVE  InStep(e)'
  <2>1. Open(e)
    BY <1>4, <1>7 DEF Sole, Open
  <2>2. editors[e] \in Dialog
    BY <1>2, <2>1 DEF Open, FieldTypeOK
  <2>3. /\ editors'[e].mode = editors[e].mode /\ editors'[e].sole = editors[e].sole
        /\ editors'[e].ticks = Follows(editors[e].ticks, calls[c])
    BY <1>2, <1>4, <2>1, <2>2 DEF FieldTypeOK, Dialog
  <2>4. InStep(e)
    BY <1>2, <1>7, <2>1, <2>3 DEF AllInStep, Sole
  <2>5. c \in Sends(e) /\ Sends(e)' = Sends(e) \ {c}
    BY <1>1, <1>2, <1>3 DEF Sends
  <2>6. \A b \in Sends(e) \ {c} : calls'[b] = calls[b] /\ calls[b].target # calls[c].target
    BY <1>3, <2>4, <2>5 DEF InStep, Sends
  <2>7. (hung \subseteq SideOf(editors[e].mode))'
    BY <1>3, <2>3, <2>4 DEF InStep, SideOf
  <2>8. ASSUME NEW b \in Sends(e)'
        PROVE  /\ calls'[b].target \in SideOf(editors'[e].mode)
               /\ calls'[b].state = "done" => (calls'[b].target \in hung' <=> calls'[b].op = "bind")
    BY <1>3, <2>3, <2>4, <2>5, <2>6 DEF InStep, SideOf
  <2>9. ASSUME NEW a \in Sends(e)', NEW b \in Sends(e)', a # b
        PROVE  calls'[a].target # calls'[b].target
    BY <2>4, <2>5, <2>6, <2>9 DEF InStep
  <2>10. ASSUME NEW u \in Thing
         PROVE  (u \in hung' <=> u \in editors'[e].ticks) \/ Decided(e, u)'
    <3>1. CASE u = calls[c].target
      <4>1. CASE calls[c].state = "done"
        <5>1. u \in hung <=> calls[c].op = "bind"
          BY <2>4, <2>5, <3>1, <4>1 DEF InStep
        <5> QED
          BY <1>3, <2>3, <3>1, <4>1, <5>1 DEF Follows
      <4>2. CASE calls[c].state # "done"
        <5>1. ~ Decided(e, u)
          BY <2>6, <3>1, <4>2 DEF Decided
        <5> QED
          BY <1>3, <2>3, <2>4, <4>2, <5>1 DEF Follows, InStep
      <4> QED
        BY <4>1, <4>2
    <3>2. CASE u # calls[c].target
      <4>1. Decided(e, u) => Decided(e, u)'
        BY <2>5, <2>6, <3>2 DEF Decided
      <4>2. u \in editors'[e].ticks <=> u \in editors[e].ticks
        BY <2>3, <3>2 DEF Follows
      <4> QED
        BY <1>3, <2>4, <4>1, <4>2 DEF InStep
    <3> QED
      BY <3>1, <3>2
  <2> QED
    BY <2>7, <2>8, <2>9, <2>10 DEF InStep
<1> QED
  BY <1>5, <1>6, <1>7 DEF AllInStep

LEMMA LostStep ==
    ASSUME FieldTypeOK, AllInStep, NEW c \in Call, CallLost(c)
    PROVE  AllInStep'
<1>1. calls[c] \in Calling
  BY DEF CallLost, FieldTypeOK
<1>2. hung' = hung /\ calls'[c] = Closed /\ \A b \in Call \ {c} : calls'[b] = calls[b]
  BY DEF CallLost, FieldTypeOK
<1>3. OneSide'
  BY <1>2 DEF AllInStep, OneSide
<1>4. ASSUME NEW d \in FieldDialog, Sole(d)'
      PROVE  InStep(d)'
  <2>1. d # calls[c].by
    <3> SUFFICES ASSUME d = calls[c].by
                 PROVE  FALSE
      OBVIOUS
    <3>1. Open(d)
      BY <1>4 DEF CallLost, NotSole, Sole, Open
    <3>2. editors[d] \in Dialog /\ editors'[d] = [editors[d] EXCEPT !.sole = FALSE]
      BY <3>1 DEF CallLost, NotSole, FieldTypeOK, Open
    <3> QED
      BY <1>4, <3>2 DEF Sole, Dialog
  <2>2. editors'[d] = editors[d]
    BY <2>1 DEF CallLost, NotSole
  <2>3. Sends(d)' = Sends(d) /\ \A b \in Sends(d) : calls'[b] = calls[b]
    BY <1>2, <2>1 DEF Sends
  <2> QED
    BY <1>2, <1>4, <2>2, <2>3 DEF AllInStep, Sole, Open, InStep, Decided, SideOf
<1> QED
  BY <1>3, <1>4 DEF AllInStep

(* What a dialog asks about is a box of its side.                          *)
QuestionsFit ==
    \A e \in FieldDialog :
        Open(e) /\ editors[e].asked # Closed => editors[e].asked \in SideOf(editors[e].mode)

LEMMA QuestionInit == FieldInit => QuestionsFit
BY DEF FieldInit, QuestionsFit, Open

LEMMA QuestionStep == FieldTypeOK /\ QuestionsFit /\ [FieldNext]_fieldVars => QuestionsFit'
<1> SUFFICES ASSUME FieldTypeOK, QuestionsFit, [FieldNext]_fieldVars,
                    NEW d \in FieldDialog, Open(d)', editors'[d].asked # Closed
             PROVE  editors'[d].asked \in SideOf(editors'[d].mode)
  BY DEF QuestionsFit, SideOf
<1>1. ASSUME Open(d), editors'[d].asked = editors[d].asked, editors'[d].mode = editors[d].mode
      PROVE  editors'[d].asked \in SideOf(editors'[d].mode)
  BY <1>1 DEF QuestionsFit
<1>2. ASSUME editors'[d] = editors[d]
      PROVE  editors'[d].asked \in SideOf(editors'[d].mode)
  BY <1>1, <1>2 DEF Open
<1>3. ASSUME NEW others, NotSole(others)
      PROVE  editors'[d].asked \in SideOf(editors'[d].mode)
  <2>1. editors'[d] = editors[d] \/ (Open(d) /\ editors'[d] = [editors[d] EXCEPT !.sole = FALSE])
    BY <1>3 DEF NotSole
  <2>2. Open(d) => editors[d] \in Dialog
    BY DEF Open, FieldTypeOK
  <2> QED
    BY <1>1, <1>2, <2>1, <2>2 DEF Dialog
<1>4. ASSUME NEW e \in FieldDialog, e # d,
             \/ OpenField(e) \/ CloseField(e) \/ TypeRule(e) \/ SubmitField(e) \/ ConfirmRule(e)
             \/ TickBox(e) \/ UntickBox(e) \/ ConfirmUntick(e) \/ SwitchMode(e)
      PROVE  editors'[d].asked \in SideOf(editors'[d].mode)
  <2>1. editors'[d] = editors[d]
    BY <1>4 DEF OpenField, CloseField, TypeRule, SubmitField, ConfirmRule, TickBox, UntickBox,
                ConfirmUntick, SwitchMode, FieldTypeOK
  <2> QED
    BY <1>2, <2>1
<1>5. ASSUME OpenField(d) \/ CloseField(d)
      PROVE  FALSE
  BY <1>5 DEF OpenField, CloseField, FieldTypeOK, Open
<1>6. ASSUME TypeRule(d) \/ SubmitField(d) \/ ConfirmRule(d) \/ TickBox(d)
      PROVE  editors'[d].asked \in SideOf(editors'[d].mode)
  <2>1. Open(d) /\ editors[d] \in Dialog
    BY <1>6 DEF TypeRule, SubmitField, ConfirmRule, TickBox, Attending, Open, FieldTypeOK
  <2>2. editors'[d].asked = editors[d].asked /\ editors'[d].mode = editors[d].mode
    BY <1>6, <2>1 DEF TypeRule, SubmitField, ConfirmRule, TickBox, FieldTypeOK, Dialog
  <2> QED
    BY <1>1, <2>1, <2>2
<1>7. CASE UntickBox(d)
  <2>1. editors[d] \in Dialog
    BY <1>7 DEF UntickBox, Attending, Open, FieldTypeOK
  <2> QED
    BY <1>7, <2>1 DEF UntickBox, FieldTypeOK, Dialog
<1>8. ASSUME ConfirmUntick(d) \/ SwitchMode(d)
      PROVE  FALSE
  <2>1. editors[d] \in Dialog
    BY <1>8 DEF ConfirmUntick, SwitchMode, Attending, Open, FieldTypeOK
  <2>2. editors'[d].asked = Closed
    <3>1. CASE ConfirmUntick(d)
      BY <2>1, <3>1 DEF ConfirmUntick, FieldTypeOK, Dialog
    <3>2. CASE SwitchMode(d)
      <4>1. PICK m \in {"category", "device"} :
               editors' = [editors EXCEPT ![d].mode = m, ![d].sole = @ /\ Sends(d) = {}]
        BY <3>2 DEF SwitchMode
      <4>2. editors[d].asked = Closed
        BY <3>2 DEF SwitchMode, Attending
      <4> QED
        BY <2>1, <4>1, <4>2 DEF FieldTypeOK, Dialog
    <3> QED
      BY <1>8, <3>1, <3>2
  <2> QED
    BY <2>2
<1>9. ASSUME NEW e \in FieldDialog,
             \/ PatchRule(e) \/ LookAhead(e) \/ WriteCategory(e) \/ UndoRule(e)
             \/ SaveEnds(e) \/ SaveFails(e)
      PROVE  editors'[d].asked \in SideOf(editors'[d].mode)
  <2>1. editors'[d] = editors[d]
    BY <1>9 DEF PatchRule, LookAhead, WriteCategory, UndoRule, SaveEnds, SaveFails, FieldTypeOK, Open
  <2> QED
    BY <1>2, <2>1
<1>10. ASSUME NEW c \in Call, ServeBind(c) \/ ServeUnbind(c) \/ CallLost(c)
       PROVE  editors'[d].asked \in SideOf(editors'[d].mode)
  <2>1. editors' = editors \/ \E others : NotSole(others)
    BY <1>10 DEF ServeBind, ServeUnbind, CallLost, Does, Refuses
  <2> QED
    BY <1>2, <1>3, <2>1
<1>11. ASSUME NEW c \in Call, CallAnswered(c)
       PROVE  editors'[d].asked \in SideOf(editors'[d].mode)
  <2>1. editors'[d] = editors[d] \/ (Open(d) /\ editors'[d] = [editors[d] EXCEPT !.ticks = Follows(@, calls[c])])
    BY <1>11 DEF CallAnswered, FieldTypeOK
  <2>2. Open(d) => editors[d] \in Dialog
    BY DEF Open, FieldTypeOK
  <2> QED
    BY <1>1, <1>2, <2>1, <2>2 DEF Dialog
<1>12. CASE RecordDevice \/ UNCHANGED fieldVars
  BY <1>2, <1>12 DEF RecordDevice, fieldVars
<1> QED
  BY <1>4, <1>5, <1>6, <1>7, <1>8, <1>9, <1>10, <1>11, <1>12 DEF FieldNext

LEMMA StepKeeps ==
    FieldTypeOK /\ QuestionsFit /\ AllInStep /\ [FieldNext]_fieldVars => AllInStep'
<1> SUFFICES ASSUME FieldTypeOK, QuestionsFit, AllInStep, [FieldNext]_fieldVars
             PROVE  AllInStep'
  OBVIOUS
<1>1. ASSUME NEW e \in FieldDialog,
             \/ CloseField(e) \/ TypeRule(e) \/ SubmitField(e) \/ ConfirmRule(e) \/ UntickBox(e)
      PROVE  AllInStep'
  <2>1. hung' = hung /\ calls' = calls
    BY <1>1 DEF CloseField, TypeRule, SubmitField, ConfirmRule, UntickBox
  <2>2. editors[e] \in Dialog
    BY <1>1 DEF CloseField, TypeRule, SubmitField, ConfirmRule, UntickBox, Attending, Open, FieldTypeOK
  <2>3. \A d \in FieldDialog \ {e} : editors'[d] = editors[d]
    BY <1>1 DEF CloseField, TypeRule, SubmitField, ConfirmRule, UntickBox, FieldTypeOK
  <2>4. \/ editors'[e] = Closed
        \/ /\ editors'[e].mode = editors[e].mode /\ editors'[e].ticks = editors[e].ticks
           /\ editors'[e].sole = editors[e].sole
    BY <1>1, <2>2 DEF CloseField, TypeRule, SubmitField, ConfirmRule, UntickBox, FieldTypeOK, Dialog
  <2>5. Open(e)
    BY <1>1 DEF CloseField, TypeRule, SubmitField, ConfirmRule, UntickBox, Attending
  <2> QED
    BY <2>1, <2>3, <2>4, <2>5, QuietSteps DEF Sole, Open
<1>2. ASSUME NEW e \in FieldDialog,
             \/ PatchRule(e) \/ LookAhead(e) \/ WriteCategory(e) \/ UndoRule(e) \/ SaveFails(e)
      PROVE  AllInStep'
  <2>1. hung' = hung /\ calls' = calls /\ editors' = editors
    BY <1>2 DEF PatchRule, LookAhead, WriteCategory, UndoRule, SaveFails
  <2> QED
    BY <2>1, QuietSteps DEF Sole, Open
<1>3. ASSUME NEW e \in FieldDialog, SaveEnds(e)
      PROVE  AllInStep'
  <2>1. hung' = hung /\ calls' = calls
    BY <1>3 DEF SaveEnds
  <2>2. \A d \in FieldDialog : editors'[d] = editors[d] \/ editors'[d] = Closed
    BY <1>3 DEF SaveEnds, FieldTypeOK
  <2> QED
    BY <2>1, <2>2, QuietSteps DEF Sole, Open
<1>4. ASSUME NEW e \in FieldDialog, TickBox(e)
      PROVE  AllInStep'
  <2>1. Open(e) /\ editors[e] \in Dialog /\ hung' = hung
    BY <1>4 DEF TickBox, Attending, Open, FieldTypeOK
  <2>2. PICK t \in SideOf(editors[e].mode) :
           Send(e, "bind", t) /\ editors' = [editors EXCEPT ![e].sole = @ /\ ~ Meets(e, t)]
    BY <1>4 DEF TickBox
  <2>3. /\ editors'[e].mode = editors[e].mode /\ editors'[e].ticks = editors[e].ticks
        /\ editors'[e].sole => editors[e].sole /\ ~ Meets(e, t)
        /\ \A d \in FieldDialog \ {e} : editors'[d] = editors[d]
    BY <2>1, <2>2 DEF FieldTypeOK, Dialog
  <2> QED
    BY <2>1, <2>2, <2>3, SendStep
<1>5. ASSUME NEW e \in FieldDialog, ConfirmUntick(e)
      PROVE  AllInStep'
  <2>1. Open(e) /\ editors[e] \in Dialog /\ hung' = hung
    BY <1>5 DEF ConfirmUntick, Open, FieldTypeOK
  <2> DEFINE t == editors[e].asked
  <2>2. CASE /\ Send(e, "unbind", t)
             /\ editors' = [editors EXCEPT ![e].asked = Closed, ![e].sole = @ /\ ~ Meets(e, t)]
    <3>1. /\ editors'[e].mode = editors[e].mode /\ editors'[e].ticks = editors[e].ticks
          /\ editors'[e].sole => editors[e].sole /\ ~ Meets(e, t)
          /\ \A d \in FieldDialog \ {e} : editors'[d] = editors[d]
      BY <2>1, <2>2 DEF FieldTypeOK, Dialog
    <3>2. t \in SideOf(editors[e].mode)
      BY <1>5, <2>1 DEF ConfirmUntick, QuestionsFit
    <3> QED
      BY <2>1, <2>2, <3>1, <3>2, SendStep
  <2>3. CASE editors' = [editors EXCEPT ![e].asked = Closed] /\ UNCHANGED <<calls, edits>>
    <3>1. /\ editors'[e].mode = editors[e].mode /\ editors'[e].ticks = editors[e].ticks
          /\ editors'[e].sole = editors[e].sole
          /\ \A d \in FieldDialog \ {e} : editors'[d] = editors[d]
      BY <2>1, <2>3 DEF FieldTypeOK, Dialog
    <3> QED
      BY <2>1, <2>3, <3>1, QuietSteps DEF Sole, Open
  <2> QED
    BY <1>5, <2>2, <2>3 DEF ConfirmUntick
<1>6. ASSUME NEW c \in Call, ServeBind(c) \/ ServeUnbind(c)
      PROVE  AllInStep'
  <2>1. calls[c] \in Calling /\ calls[c] # Closed /\ calls[c].state = "sent"
    BY <1>6 DEF ServeBind, ServeUnbind, Arrived, FieldTypeOK
  <2>2. calls[c].target \in Thing
    BY <2>1 DEF Calling
  <2>3. CASE Refuses(c)
    <3>1. /\ editors' = editors /\ hung' = hung
          /\ calls'[c] = [calls[c] EXCEPT !.state = "refused"]
          /\ \A b \in Call \ {c} : calls'[b] = calls[b]
      BY <2>3 DEF Refuses, FieldTypeOK
    <3>2. calls'[c] \in Calling
      BY <2>1, <3>1 DEF Calling
    <3>3. /\ calls'[c] # Closed /\ calls'[c].by = calls[c].by
          /\ calls'[c].target = calls[c].target /\ calls'[c].state = "refused"
      BY <2>1, <3>1, <3>2, ClosedIsNone DEF Calling
    <3>4. ASSUME NEW e \in FieldDialog
          PROVE  Sends(e)' = Sends(e)
      <4>1. \A b \in Call : calls'[b] # Closed <=> calls[b] # Closed
        BY <2>1, <3>1, <3>3
      <4>2. \A b \in Call : calls'[b].by = calls[b].by
        BY <3>1, <3>3
      <4> QED
        BY <4>1, <4>2 DEF Sends
    <3>5. ASSUME NEW b \in Call
          PROVE  /\ calls'[b].target = calls[b].target
                 /\ calls'[b].state = "done" <=> calls[b].state = "done"
                 /\ calls'[b].state = "done" => calls'[b].op = calls[b].op
      <4>1. CASE b = c
        BY <2>1, <3>3, <4>1
      <4>2. CASE b # c
        BY <3>1, <4>2
      <4> QED
        BY <4>1, <4>2
    <3>6. \A e \in FieldDialog : Sends(e) \subseteq Call
      BY DEF Sends
    <3>7. OneSide'
      BY <3>1 DEF AllInStep, OneSide
    <3>8. ASSUME NEW e \in FieldDialog, Sole(e)'
          PROVE  InStep(e)'
      <4>1. InStep(e)
        BY <3>1, <3>8 DEF AllInStep, Sole, Open
      <4>2. \A u \in Thing : Decided(e, u) => Decided(e, u)'
        BY <3>4, <3>5, <3>6 DEF Decided
      <4>3. \A b \in Sends(e)' :
               /\ calls'[b].target \in SideOf(editors[e].mode)
               /\ calls'[b].state = "done" => (calls'[b].target \in hung <=> calls'[b].op = "bind")
        BY <3>4, <3>5, <3>6, <4>1 DEF InStep
      <4>4. \A a, b \in Sends(e)' : a # b => calls'[a].target # calls'[b].target
        BY <3>4, <3>5, <3>6, <4>1 DEF InStep
      <4> QED
        BY <3>1, <4>1, <4>2, <4>3, <4>4 DEF InStep, SideOf
    <3> QED
      BY <3>7, <3>8 DEF AllInStep
  <2>4. CASE /\ calls[c].op = "bind" /\ MayHang(calls[c].target)
             /\ Does(c, hung \cup {calls[c].target})
    BY <2>1, <2>2, <2>4, ServeStep
  <2>5. CASE calls[c].op = "unbind" /\ Does(c, hung \ {calls[c].target})
    BY <2>1, <2>2, <2>5, ServeStep
  <2> QED
    BY <1>6, <2>3, <2>4, <2>5 DEF ServeBind, ServeUnbind, Arrived
<1>7. CASE RecordDevice
  <2>1. hung' = hung /\ calls' = calls /\ editors' = editors
    BY <1>7 DEF RecordDevice
  <2> QED
    BY <2>1, QuietSteps DEF Sole, Open
<1>8. CASE UNCHANGED fieldVars
  <2>1. hung' = hung /\ calls' = calls /\ editors' = editors
    BY <1>8 DEF fieldVars
  <2> QED
    BY <2>1, QuietSteps DEF Sole, Open
<1> QED
  BY <1>1, <1>2, <1>3, <1>4, <1>5, <1>6, <1>7, <1>8, OpenStep, SwitchStep, AnswerStep, LostStep
     DEF FieldNext

(* A dialog that has heard the answers to all it asked ticks what the      *)
(* field hangs on (FieldEditor.tsx's boxes), unless others bound it, an    *)
(* answer was lost or two of its requests met.                             *)
THEOREM TicksStayTrue == FieldSpec => []TicksAreTrue
<1>1. FieldTypeOK /\ AllInStep => TicksAreTrue
  <2> SUFFICES ASSUME FieldTypeOK, AllInStep, NEW e \in FieldDialog,
                      Open(e), editors[e].sole, Sends(e) = {}
               PROVE  editors[e].ticks = hung /\ hung \subseteq SideOf(editors[e].mode)
    BY DEF TicksAreTrue
  <2>1. InStep(e)
    BY DEF AllInStep, Sole
  <2>2. editors[e].ticks \subseteq Thing /\ hung \subseteq Thing
    BY DEF FieldTypeOK, Open, Dialog
  <2>3. \A t \in Thing : t \in hung <=> t \in editors[e].ticks
    BY <2>1 DEF InStep, Decided
  <2> QED
    BY <2>1, <2>2, <2>3 DEF InStep
<1> QED
  BY <1>1, FieldTypeInit, FieldTypeStep, QuestionInit, QuestionStep, StepStart, StepKeeps,
     PTL DEF FieldSpec

-----------------------------------------------------------------------------
(* Both together                                                           *)

(* The schema and the dialogs are of their types, whichever is looked at   *)
(* (internal/schema, web/src/features/fields).                             *)
THEOREM FieldsStayTyped == FieldsSpec => []FieldsTypeOK
<1>1. FieldsInit => FieldsTypeOK
  BY TypeInit, FieldTypeInit DEF FieldsInit, FieldsTypeOK
<1>2. FieldsTypeOK /\ [FieldsNext]_fieldsVars => FieldsTypeOK'
  <2> SUFFICES ASSUME FieldsTypeOK, [FieldsNext]_fieldsVars
               PROVE  FieldsTypeOK'
    OBVIOUS
  <2>1. [Next]_vars /\ [FieldNext]_fieldVars
    BY DEF FieldsNext, InSchema, InDialogs, fieldsVars
  <2> QED
    BY <2>1, TypeStep, FieldTypeStep DEF FieldsTypeOK
<1> QED
  BY <1>1, <1>2, PTL DEF FieldsSpec

=============================================================================
