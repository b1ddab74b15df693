----------------------------- MODULE FieldEditor -----------------------------
(***************************************************************************)
(* Editing one computed field in the browser                               *)
(* (web/src/features/fields/FieldEditor.tsx, FieldForm.tsx,                *)
(* BindingPicker.tsx) against the field, its bindings and the numbers it   *)
(* gave to devices (internal/schema, internal/asset/recompute.go).         *)
(*                                                                         *)
(* Saving another rule is three requests: the rule is written, what it     *)
(* governs is computed again, and if two devices would then share a number *)
(* the old rule is put back.  The server looks at all categories before it *)
(* writes the first, one transaction each.  Ticking a box binds at once,   *)
(* and the box follows the answer.  Dialogs may be several, of several     *)
(* people or of one who closed his with a request under way; requests may  *)
(* be lost on the way there or back, and the server gives up with them.    *)
(*                                                                         *)
(* A rule is modelled by its identity, and devices by the rules that gave  *)
(* them their numbers, for each thing the field hangs on.  Whether numbers *)
(* collide is a choice; so is a refusal for what other fields need.  What  *)
(* a save reads and writes of one category is one step: AttributeStore     *)
(* takes it apart.  Labels, the required and the search switch, and the    *)
(* deletion of the field, which SchemaTree has, are left out.              *)
(***************************************************************************)
EXTENDS Naturals

CONSTANTS
    FieldDialog,    \* dialogs there may be at a time
    Rule,           \* the templates the field may have
    Shelves,        \* the categories it may hang on
    Makes,          \* the models and vendors it may hang on
    Relatives,      \* pairs: a category and one above it, a model and its vendor
    Call,           \* requests to bind and unbind that may be under way
    MaxEdits,       \* bound: saves, requests to bind and unbind, devices recorded
    Closed          \* no dialog, no save, no request, no question

Thing == Shelves \cup Makes

Phase == {"patch", "recompute", "write", "undo", "well", "conflicts"}

Dialog ==
    [ opened : Rule, draft : Rule, mode : {"category", "device"}, ticks : SUBSET Thing,
      asked : Thing \cup {Closed}, confirming : BOOLEAN, sole : BOOLEAN ]

Saving ==
    [ phase : Phase, draft : Rule, opened : Rule, todo : SUBSET Shelves, clash : BOOLEAN,
      moved : BOOLEAN, alone : BOOLEAN ]

Calling ==
    [ by : FieldDialog, op : {"bind", "unbind"}, target : Thing,
      state : {"sent", "done", "refused"} ]

ASSUME FieldAssumption ==
    /\ Shelves \cap Makes = {}
    /\ Relatives \subseteq (Shelves \X Shelves) \cup (Makes \X Makes)
    /\ Closed \notin Dialog \cup Saving \cup Calling \cup Thing
    /\ MaxEdits \in Nat

VARIABLES
    rule,           \* the template in field_definitions
    hung,           \* what the field is bound to
    numbered,       \* the rules that gave the devices under a target their numbers
    editors,        \* the dialogs
    saves,          \* the save of each dialog
    calls,          \* the requests to bind and unbind
    edits

fieldVars == <<rule, hung, numbered, editors, saves, calls, edits>>

Related(t, u) == <<t, u>> \in Relatives \/ <<u, t>> \in Relatives

SideOf(mode) == IF mode = "category" THEN Shelves ELSE Makes

Open(e) == editors[e] # Closed

Attending(e) == Open(e) /\ ~ editors[e].confirming /\ editors[e].asked = Closed

Sends(e) == { c \in Call : calls[c] # Closed /\ calls[c].by = e }

(* Every device has the number that the rule gives it.                     *)
AllNumbered == \A t \in hung : numbered[t] \subseteq {rule}

FieldInit ==
    /\ rule \in Rule
    /\ hung \in (SUBSET Shelves) \cup (SUBSET Makes)
    /\ \A t, u \in hung \cap Shelves : ~ Related(t, u)
    /\ numbered = [ t \in Thing |-> IF t \in hung THEN {rule} ELSE {} ]
    /\ editors = [ e \in FieldDialog |-> Closed ]
    /\ saves = [ e \in FieldDialog |-> Closed ]
    /\ calls = [ c \in Call |-> Closed ]
    /\ edits = 0

-----------------------------------------------------------------------------
(* History, which no guard reads: a save is alone until somebody else      *)
(* changes what it works on; a dialog is sole until somebody else binds,   *)
(* an answer to it is lost, or two of its requests meet.                   *)

NotAlone(others) ==
    saves' = [ e \in FieldDialog |-> IF e \in others /\ saves[e] # Closed
                                THEN [saves[e] EXCEPT !.moved = TRUE, !.alone = FALSE]
                                ELSE saves[e] ]

NotSole(others) ==
    editors' = [ e \in FieldDialog |-> IF e \in others /\ Open(e)
                                  THEN [editors[e] EXCEPT !.sole = FALSE] ELSE editors[e] ]

-----------------------------------------------------------------------------
(* The dialog.                                                             *)

(* The row comes from a list that may be out of date: a dialog on an old   *)
(* row is one that was opened before what it missed.                       *)
OpenField(e) ==
    /\ ~ Open(e) /\ saves[e] = Closed /\ Sends(e) = {}
    /\ editors' = [editors EXCEPT ![e] =
           [ opened |-> rule, draft |-> rule,
             mode |-> IF hung \cap Makes # {} THEN "device" ELSE "category",
             ticks |-> hung, asked |-> Closed, confirming |-> FALSE, sole |-> TRUE ]]
    /\ UNCHANGED <<rule, hung, numbered, saves, calls, edits>>

CloseField(e) ==
    /\ Attending(e)
    /\ editors' = [editors EXCEPT ![e] = Closed]
    /\ UNCHANGED <<rule, hung, numbered, saves, calls, edits>>

TypeRule(e) ==
    /\ Attending(e)
    /\ \E r \in Rule \ {editors[e].draft} : editors' = [editors EXCEPT ![e].draft = r]
    /\ UNCHANGED <<rule, hung, numbered, saves, calls, edits>>

(* save.mutate, with the draft as it is when the button is pressed.        *)
Begun(e) ==
    [ phase |-> "patch", draft |-> editors[e].draft, opened |-> editors[e].opened,
      todo |-> {}, clash |-> FALSE, moved |-> FALSE,
      alone |-> AllNumbered /\ rule = editors[e].opened ]

Mutate(e) ==
    /\ edits < MaxEdits
    /\ edits' = edits + 1
    /\ saves' = [saves EXCEPT ![e] = Begun(e)]

(* submit: another rule asks first.                                        *)
SubmitField(e) ==
    /\ Attending(e)
    /\ saves[e] = Closed
    /\ IF editors[e].draft # editors[e].opened
       THEN /\ editors' = [editors EXCEPT ![e].confirming = TRUE]
            /\ UNCHANGED <<saves, edits>>
       ELSE /\ Mutate(e)
            /\ UNCHANGED editors
    /\ UNCHANGED <<rule, hung, numbered, calls>>

(* Declining to compute again is declining to save.                        *)
ConfirmRule(e) ==
    /\ Open(e) /\ editors[e].confirming
    /\ editors' = [editors EXCEPT ![e].confirming = FALSE]
    /\ Mutate(e) \/ UNCHANGED <<saves, edits>>
    /\ UNCHANGED <<rule, hung, numbered, calls>>

-----------------------------------------------------------------------------
(* The save.                                                               *)

At(e, phase) == saves[e] # Closed /\ saves[e].phase = phase

(* What a step of e's save makes of it and of the other saves.             *)
Onward(e, next, changes) ==
    saves' = [ d \in FieldDialog |->
        IF d = e THEN next
        ELSE IF changes /\ saves[d] # Closed THEN [saves[d] EXCEPT !.moved = TRUE, !.alone = FALSE]
        ELSE saves[d] ]

(* PATCH /fields/:id, which always carries the rule.                       *)
PatchRule(e) ==
    /\ At(e, "patch")
    /\ rule' = saves[e].draft
    /\ LET on == IF saves[e].draft = saves[e].opened THEN "well" ELSE "recompute"
       IN  Onward(e, [saves[e] EXCEPT !.phase = on], rule' # rule)
    /\ UNCHANGED <<hung, numbered, editors, calls, edits>>

(* categoriesBinding: a field on models and vendors has none.              *)
Roots == hung \cap Shelves

Affected == \E t \in Roots : ~ (numbered[t] \subseteq {rule})

(* RecomputeField, first all over without writing.                         *)
LookAhead(e) ==
    /\ At(e, "recompute")
    /\ LET next(phase) == [saves[e] EXCEPT !.phase = phase, !.todo = Roots, !.moved = FALSE]
       IN  IF Affected
           THEN Onward(e, next("write"), FALSE) \/ Onward(e, next("undo"), FALSE)
           ELSE Onward(e, next("well"), FALSE)
    /\ UNCHANGED <<rule, hung, numbered, editors, calls, edits>>

Recomputed(t) == IF numbered[t] = {} THEN {} ELSE {rule}

(* Then one category after the other, past those that collide after all:   *)
(* the verdict on one is another only if others wrote in between.          *)
WriteCategory(e) ==
    /\ At(e, "write")
    /\ \E t \in saves[e].todo, clash \in {FALSE, saves[e].moved} :
        LET todo == saves[e].todo \ {t}
            any  == saves[e].clash \/ clash
            on   == IF todo # {} THEN "write" ELSE IF any THEN "undo" ELSE "well"
        IN  /\ numbered' = IF clash THEN numbered ELSE [numbered EXCEPT ![t] = Recomputed(t)]
            /\ Onward(e, [saves[e] EXCEPT !.phase = on, !.todo = todo, !.clash = any],
                      numbered' # numbered)
    /\ UNCHANGED <<rule, hung, editors, calls, edits>>

(* The rule is put back as it was when the dialog was opened; the variant  *)
(* sends the draft again.                                                  *)
RestoredDraft(save) == save.draft
Restored(save) == save.opened

UndoRule(e) ==
    /\ At(e, "undo")
    /\ rule' = Restored(saves[e])
    /\ Onward(e, [saves[e] EXCEPT !.phase = "conflicts"], rule' # rule)
    /\ UNCHANGED <<hung, numbered, editors, calls, edits>>

(* onSuccess: collisions are shown, and otherwise the dialog closes; where *)
(* it is closed already, onClose closes the one the person has open now.   *)
SaveEnds(e) ==
    /\ \/ At(e, "conflicts") /\ UNCHANGED editors
       \/ At(e, "well") /\ \E d \in IF Open(e) THEN {e} ELSE FieldDialog :
                             editors' = [editors EXCEPT ![d] = Closed]
    /\ saves' = [saves EXCEPT ![e] = Closed]
    /\ UNCHANGED <<rule, hung, numbered, calls, edits>>

(* onError: a request was refused, or it or its answer was lost.           *)
SaveFails(e) ==
    /\ saves[e] # Closed
    /\ saves' = [saves EXCEPT ![e] = Closed]
    /\ UNCHANGED <<rule, hung, numbered, editors, calls, edits>>

-----------------------------------------------------------------------------
(* The boxes.                                                              *)

(* chainOwner and provider: dead is the box of a category below or above a *)
(* ticked one, and of a model whose vendor is ticked.                      *)
Dead(e, t) ==
    \E u \in editors[e].ticks \ {t} :
        <<t, u>> \in Relatives \/ (t \in Shelves /\ Related(t, u))

Send(e, op, t) ==
    /\ edits < MaxEdits
    /\ edits' = edits + 1
    /\ \E c \in Call :
        /\ calls[c] = Closed
        /\ calls' = [calls EXCEPT ![c] =
               [ by |-> e, op |-> op, target |-> t, state |-> "sent" ]]

Meets(e, t) == \E c \in Sends(e) : calls[c].target = t

(* onFormChange, of an empty box: it is bound now.                         *)
TickBox(e) ==
    /\ Attending(e)
    /\ \E t \in SideOf(editors[e].mode) \ editors[e].ticks :
        /\ ~ Dead(e, t)
        /\ Send(e, "bind", t)
        /\ editors' = [editors EXCEPT ![e].sole = @ /\ ~ Meets(e, t)]
    /\ UNCHANGED <<rule, hung, numbered, saves>>

(* Of a ticked one: it asks first.                                         *)
UntickBox(e) ==
    /\ Attending(e)
    /\ \E t \in SideOf(editors[e].mode) \cap editors[e].ticks :
        /\ ~ Dead(e, t)
        /\ editors' = [editors EXCEPT ![e].asked = t]
    /\ UNCHANGED <<rule, hung, numbered, saves, calls, edits>>

ConfirmUntick(e) ==
    /\ Open(e) /\ editors[e].asked # Closed
    /\ LET t == editors[e].asked
       IN  \/ /\ Send(e, "unbind", t)
              /\ editors' = [editors EXCEPT ![e].asked = Closed,
                                            ![e].sole = @ /\ ~ Meets(e, t)]
           \/ /\ editors' = [editors EXCEPT ![e].asked = Closed]
              /\ UNCHANGED <<calls, edits>>
    /\ UNCHANGED <<rule, hung, numbered, saves>>

(* The switch of sides, frozen while anything is ticked.                   *)
SwitchMode(e) ==
    /\ Attending(e)
    /\ editors[e].ticks = {}
    /\ \E m \in {"category", "device"} \ {editors[e].mode} :
        editors' = [editors EXCEPT ![e].mode = m, ![e].sole = @ /\ Sends(e) = {}]
    /\ UNCHANGED <<rule, hung, numbered, saves, calls, edits>>

(* The other side is empty, and of the same side no category that is above *)
(* or below; what is bound already may be bound again.                     *)
MayHang(t) ==
    IF t \in Makes THEN hung \cap Shelves = {}
    ELSE hung \cap Makes = {} /\ \A u \in hung \ {t} : ~ Related(t, u)

Does(c, things) ==
    /\ calls' = [calls EXCEPT ![c].state = "done"]
    /\ hung' = things
    /\ IF things = hung THEN UNCHANGED <<editors, saves>>
       ELSE NotAlone(FieldDialog) /\ NotSole(FieldDialog \ {calls[c].by})
    /\ UNCHANGED <<rule, numbered, edits>>

Refuses(c) ==
    /\ calls' = [calls EXCEPT ![c].state = "refused"]
    /\ UNCHANGED <<rule, hung, numbered, editors, saves, edits>>

Arrived(c, op) == calls[c] # Closed /\ calls[c].state = "sent" /\ calls[c].op = op

(* What may hang there may be refused all the same, for what another field *)
(* is called or needs.                                                     *)
ServeBind(c) ==
    /\ Arrived(c, "bind")
    /\ \/ MayHang(calls[c].target) /\ Does(c, hung \cup {calls[c].target})
       \/ Refuses(c)

(* A category may be needed, and need not have it; a model must have it.   *)
ServeUnbind(c) ==
    /\ Arrived(c, "unbind")
    /\ LET t == calls[c].target
       IN  \/ t \in Shelves \cup hung /\ Does(c, hung \ {t})
           \/ (t \in Shelves \/ t \notin hung) /\ Refuses(c)

(* The box follows the answer; the variant ticks it whatever it says.      *)
FollowsAnyhow(ticks, call) ==
    IF call.op = "bind" THEN ticks \cup {call.target}
    ELSE IF call.state = "done" THEN ticks \ {call.target} ELSE ticks
Follows(ticks, call) ==
    IF call.state # "done" THEN ticks
    ELSE IF call.op = "bind" THEN ticks \cup {call.target} ELSE ticks \ {call.target}

CallAnswered(c) ==
    /\ calls[c] # Closed /\ calls[c].state # "sent"
    /\ LET e == calls[c].by
       IN  editors' = IF Open(e) THEN [editors EXCEPT ![e].ticks = Follows(@, calls[c])]
                      ELSE editors
    /\ calls' = [calls EXCEPT ![c] = Closed]
    /\ UNCHANGED <<rule, hung, numbered, saves, edits>>

(* Or answered with an error after all, when only the audit trail failed.  *)
CallLost(c) ==
    /\ calls[c] # Closed
    /\ calls' = [calls EXCEPT ![c] = Closed]
    /\ NotSole({calls[c].by})
    /\ UNCHANGED <<rule, hung, numbered, saves, edits>>

-----------------------------------------------------------------------------
(* A colleague saves a device, which gets its number by the rule there is. *)
RecordDevice ==
    /\ edits < MaxEdits
    /\ edits' = edits + 1
    /\ \E t \in hung : numbered' = [numbered EXCEPT ![t] = @ \cup {rule}]
    /\ NotAlone(FieldDialog)
    /\ UNCHANGED <<rule, hung, editors, calls>>

FieldNext ==
    \/ \E e \in FieldDialog :
        \/ OpenField(e) \/ CloseField(e) \/ TypeRule(e) \/ SubmitField(e) \/ ConfirmRule(e)
        \/ PatchRule(e) \/ LookAhead(e) \/ WriteCategory(e) \/ UndoRule(e)
        \/ SaveEnds(e) \/ SaveFails(e)
        \/ TickBox(e) \/ UntickBox(e) \/ ConfirmUntick(e) \/ SwitchMode(e)
    \/ \E c \in Call : ServeBind(c) \/ ServeUnbind(c) \/ CallAnswered(c) \/ CallLost(c)
    \/ RecordDevice

FieldSpec == FieldInit /\ [][FieldNext]_fieldVars

-----------------------------------------------------------------------------
FieldTypeOK ==
    /\ rule \in Rule
    /\ hung \subseteq Thing
    /\ numbered \in [Thing -> SUBSET Rule]
    /\ editors \in [FieldDialog -> Dialog \cup {Closed}]
    /\ saves \in [FieldDialog -> Saving \cup {Closed}]
    /\ calls \in [Call -> Calling \cup {Closed}]
    /\ edits \in 0..MaxEdits

(* A save that is answered leaves every device of the categories numbered  *)
(* by the rule there is: the new one, or after collisions the one from     *)
(* before; unless somebody changed the field or saved a device meanwhile   *)
(* (FieldEditor's save: "exactly the split this flow exists to prevent").  *)
SavesAreWhole ==
    \A e \in FieldDialog :
        saves[e] # Closed /\ saves[e].alone /\ hung \subseteq Shelves =>
            /\ saves[e].phase = "well" => AllNumbered /\ rule = saves[e].draft
            /\ saves[e].phase = "conflicts" => AllNumbered /\ rule = saves[e].opened

(* When all its requests are answered a dialog ticks what the field hangs  *)
(* on, on the side it hangs on; unless others bound it, an answer was      *)
(* lost, or two of its requests met (FieldEditor's tick and untick).       *)
TicksAreTrue ==
    \A e \in FieldDialog :
        Open(e) /\ editors[e].sole /\ Sends(e) = {} =>
            /\ editors[e].ticks = hung
            /\ hung \subseteq SideOf(editors[e].mode)

=============================================================================
