------------------------------ MODULE AssetForm ------------------------------
(***************************************************************************)
(* Editing one device in the browser (web/src/routes/AssetDetail.tsx,      *)
(* features/assets/ModelPicker.tsx and DynamicForm.tsx) against the row    *)
(* that the server keeps (internal/asset/pipeline.go).                     *)
(*                                                                         *)
(* The form is filled from the cached device, again whenever the device    *)
(* that was fetched is another than the cached one, open or not.  A save   *)
(* carries every value of the form, and the place, the version and the     *)
(* rest from the cache; the server takes it when the version is still that *)
(* of the row, and fills what is missing from the model's defaults.        *)
(* Meanwhile colleagues save, devices are moved, and any answer may be     *)
(* late.                                                                   *)
(*                                                                         *)
(* The keys are those of fields the device has under every model, so that  *)
(* the server keeps exactly them; what it makes of a value, and the values *)
(* it computes or refuses as taken, are in AttributeStore.  Here a refusal *)
(* is a choice.                                                            *)
(***************************************************************************)
EXTENDS Naturals

CONSTANTS
    Key, Value,
    FormModel,      \* product models
    Defaults,       \* attr_defaults of each
    Place,          \* status, holder and owner together
    Nothing,        \* no value, no model
    Blank,          \* a value that was emptied, which is sent as such
    MaxChanges      \* bound: changes of the row

ASSUME FormAssumption ==
    /\ Nothing \notin Value \cup FormModel \cup {Blank, "saved", "conflict", "fields"}
    /\ Blank \notin Value
    /\ Defaults \in [FormModel -> [Key -> Value \cup {Nothing}]]
    /\ MaxChanges \in Nat

VARIABLES
    row,            \* the device as the server has it
    form,           \* the page: the cached device, and what is in the form
    question,       \* the model whose defaults the person is asked about
    save            \* the PATCH under way

formVars == <<row, form, question, save>>

Attrs == [ Key -> Value \cup {Nothing} ]

(* touched and chose are history: what the person typed, or agreed to, and *)
(* whether the model was picked, since the form was last filled.           *)
Filled(asset) ==
    [ asset |-> asset, attrs |-> asset.attrs, model |-> asset.model,
      touched |-> {}, chose |-> FALSE ]

FormInit ==
    /\ row \in [ version : {1}, attrs : Attrs, model : FormModel \cup {Nothing}, place : Place ]
    /\ form = [ open |-> FALSE, page |-> Filled(row) ]
    /\ question = Nothing
    /\ save = Nothing

Page == form.page

-----------------------------------------------------------------------------
(* The page.                                                               *)

(* The effect of [asset]: the cache keeps the old object when what came is *)
(* equal to it.                                                            *)
Refetch ==
    /\ row # Page.asset
    /\ form' = [form EXCEPT !.page = Filled(row)]
    /\ UNCHANGED <<row, question, save>>

OpenForm ==
    /\ ~ form.open
    /\ form' = [form EXCEPT !.open = TRUE]
    /\ UNCHANGED <<row, question, save>>

(* What was typed stays.                                                   *)
CloseForm ==
    /\ form.open
    /\ question = Nothing
    /\ form' = [form EXCEPT !.open = FALSE]
    /\ UNCHANGED <<row, question, save>>

Editing == form.open /\ question = Nothing

(* DynamicForm.  Bound: a key is typed once until the form is filled again. *)
FillIn(k, v) ==
    /\ Editing
    /\ k \notin Page.touched
    /\ Page.attrs[k] # v
    /\ form' = [form EXCEPT !.page.attrs[k] = v, !.page.touched = @ \cup {k}]
    /\ UNCHANGED <<row, question, save>>

Carried(m) == { k \in Key : Defaults[m][k] # Nothing }

Overwrites(m) == { k \in Carried(m) : Page.attrs[k] # Defaults[m][k] }

(* select, with confirmOverwrite.                                          *)
PickModel(m) ==
    /\ Editing
    /\ IF m # Nothing /\ Overwrites(m) # {}
       THEN question' = m /\ UNCHANGED form
       ELSE /\ form' = [form EXCEPT !.page.model = m, !.page.chose = TRUE]
            /\ UNCHANGED question
    /\ UNCHANGED <<row, save>>

(* All the defaults are applied, by what they and the form are by now.     *)
ApplyDefaults ==
    /\ question # Nothing
    /\ form' = [form EXCEPT
            !.page.model = question,
            !.page.chose = TRUE,
            !.page.attrs = [ k \in Key |-> IF k \in Carried(question)
                                           THEN Defaults[question][k] ELSE Page.attrs[k] ],
            !.page.touched = @ \cup Carried(question)]
    /\ question' = Nothing
    /\ UNCHANGED <<row, save>>

ChangeModelOnly ==
    /\ question # Nothing
    /\ form' = [form EXCEPT !.page.model = question, !.page.chose = TRUE]
    /\ question' = Nothing
    /\ UNCHANGED <<row, save>>

Dismiss ==
    /\ question # Nothing
    /\ question' = Nothing
    /\ UNCHANGED <<row, form, save>>

(* The button is off while a save is under way.                            *)
Save ==
    /\ Editing
    /\ save = Nothing
    /\ save' = [ page |-> Page, answer |-> Nothing ]
    /\ UNCHANGED <<row, form, question>>

-----------------------------------------------------------------------------
(* The server.                                                             *)

(* Prepare: model defaults fill the keys the caller left out, and what is  *)
(* empty is not kept (ValidateAttrs).                                      *)
Prepared(attrs, m) ==
    [ k \in Key |-> CASE attrs[k] = Nothing /\ m # Nothing -> Defaults[m][k]
                      [] attrs[k] = Blank -> Nothing
                      [] OTHER -> attrs[k] ]

(* Persist: what is written.                                               *)
Accepted(page) ==
    [ version |-> page.asset.version + 1, attrs |-> Prepared(page.attrs, page.model),
      model |-> page.model, place |-> page.asset.place ]

(* UPDATE ... WHERE version = ?  The variant leaves the version out.       *)
CurrentAlways(page) == TRUE
Current(page) == page.asset.version = row.version

ServerSaves ==
    /\ save # Nothing
    /\ save.answer = Nothing
    /\ \/ /\ Current(save.page)
          /\ row.version <= MaxChanges
          /\ row' = Accepted(save.page)
          /\ save' = [save EXCEPT !.answer = "saved"]
       \/ /\ ~ Current(save.page)
          /\ save' = [save EXCEPT !.answer = "conflict"]
          /\ UNCHANGED row
       \/ /\ save' = [save EXCEPT !.answer = "fields"]
          /\ UNCHANGED row
    /\ UNCHANGED <<form, question>>

(* The dialog stays for errors of fields, which are shown in it; when it   *)
(* closes, a question that is asked over it goes with it.                  *)
AnswerSave ==
    /\ save # Nothing
    /\ save.answer # Nothing
    /\ IF save.answer = "fields"
       THEN UNCHANGED <<form, question>>
       ELSE form' = [form EXCEPT !.open = FALSE] /\ question' = Nothing
    /\ save' = Nothing
    /\ UNCHANGED row

(* Every writer of a row moves its version; the variant does not.          *)
BumpedNot(r) == r
Bumped(r) == [r EXCEPT !.version = @ + 1]

(* A transfer, or a correction of one (internal/transfer).                 *)
Relocate(p) ==
    /\ row.version <= MaxChanges
    /\ row' = [Bumped(row) EXCEPT !.place = p]
    /\ UNCHANGED <<form, question, save>>

(* Another page's save, or a recomputation.                                *)
ColleagueSaves(k, v) ==
    /\ row.version <= MaxChanges
    /\ row' = [Bumped(row) EXCEPT !.attrs[k] = v]
    /\ UNCHANGED <<form, question, save>>

FormNext ==
    \/ Refetch \/ OpenForm \/ CloseForm
    \/ \E k \in Key, v \in Value \cup {Blank} : FillIn(k, v)
    \/ \E m \in FormModel \cup {Nothing} : PickModel(m)
    \/ ApplyDefaults \/ ChangeModelOnly \/ Dismiss
    \/ Save \/ ServerSaves \/ AnswerSave
    \/ \E p \in Place : Relocate(p)
    \/ \E k \in Key, v \in Value \cup {Nothing} : ColleagueSaves(k, v)

FormSpec == FormInit /\ [][FormNext]_formVars

-----------------------------------------------------------------------------
Row == [ version : Nat \ {0}, attrs : Attrs, model : FormModel \cup {Nothing}, place : Place ]

Draft ==
    [ asset : Row, attrs : [ Key -> Value \cup {Nothing, Blank} ], model : FormModel \cup {Nothing},
      touched : SUBSET Key, chose : BOOLEAN ]

Answers == {Nothing, "saved", "conflict", "fields"}

(* The row, the page and what it sent are what they are declared as: a     *)
(* form is of one device as it once was.                                   *)
FormTypeOK ==
    /\ row \in Row
    /\ form \in [ open : BOOLEAN, page : Draft ]
    /\ question \in FormModel \cup {Nothing}
    /\ save = Nothing \/ save \in [ page : Draft, answer : Answers ]

Lands == save # Nothing /\ save' # Nothing /\ save.answer = Nothing /\ save'.answer = "saved"

(* A save writes over a value, or over the model, only if the person who   *)
(* saves had it in front of them and changed it: not what a colleague      *)
(* wrote after the form was filled, and not by what was typed before it    *)
(* was filled again (AssetDetail's effect of [asset] and the optimistic    *)
(* lock; a key that has no value may get the model's default).             *)
NothingUnseenIsOverwritten ==
    [][ Lands =>
            /\ \A k \in Key : row'.attrs[k] # row.attrs[k] =>
                                  k \in save.page.touched \/ row.attrs[k] = Nothing
            /\ row'.model # row.model => save.page.chose ]_formVars

(* An edit moves nothing: the place it sends from the cache is the place   *)
(* the device has, whoever moved it since the page was read.               *)
SavesMoveNothing ==
    [][ Lands => row'.place = row.place ]_formVars

(* "The defaults of a model are a one-time copy, made when the model is    *)
(* picked" (docs/rules/schema.md on attr_defaults): an edit that leaves    *)
(* the model alone gives no value to what has none and was not typed.      *)
DefaultsAreCopiedOnce ==
    [][ Lands /\ row'.model = row.model =>
            \A k \in Key : row.attrs[k] = Nothing /\ k \notin save.page.touched =>
                               row'.attrs[k] = Nothing ]_formVars

=============================================================================
