------------------------------- MODULE Fields -------------------------------
(***************************************************************************)
(* The fields, on the server and in the browser: the schema as a whole     *)
(* (internal/schema), and one computed field of it whose rule and bindings *)
(* people edit in dialogs (web/src/routes/Fields.tsx).  The first has all  *)
(* fields, categories, models and vendors and each request as one step,    *)
(* the second one field and every request that a dialog makes of it; what  *)
(* the schema refuses for the sake of other fields is a choice there.  It  *)
(* is enough to look at one of them at a time.                             *)
(***************************************************************************)
EXTENDS SchemaTree, FieldEditor

VARIABLE view       \* what is looked at

fieldsVars == <<view, vars, fieldVars>>

FieldsInit ==
    /\ view \in {"schema", "dialogs"}
    /\ Init /\ FieldInit

InSchema ==
    /\ view = "schema" /\ Next
    /\ UNCHANGED <<view, fieldVars>>

InDialogs ==
    /\ view = "dialogs" /\ FieldNext
    /\ UNCHANGED <<view, vars>>

FieldsNext == InSchema \/ InDialogs

FieldsSpec == FieldsInit /\ [][FieldsNext]_fieldsVars

(* The schema and the dialogs are what they are declared as                *)
(* (internal/schema, web/src/features/fields).                             *)
FieldsTypeOK == TypeOK /\ FieldTypeOK

=============================================================================
