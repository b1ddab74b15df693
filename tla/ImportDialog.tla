---------------------------- MODULE ImportDialog ----------------------------
(***************************************************************************)
(* Importing a file of devices                                             *)
(* (web/src/features/import/ImportDialog.tsx, with importPreview and       *)
(* importCommit of internal/httpapi and check and Commit of                *)
(* internal/importer).                                                     *)
(*                                                                         *)
(* A category and a file are chosen, looked at without writing, and then   *)
(* written whole or not at all.  Both requests send what is chosen when    *)
(* they are pressed; each answer is shown when it comes, whatever is       *)
(* chosen by then, and may be lost.  Choosing forgets the report.          *)
(*                                                                         *)
(* A report is good when every row is.  What a row must be is in           *)
(* AttributeStore: here the first verdict on a file is a choice, and one   *)
(* whose rows have unique values is bad once it is in.                     *)
(***************************************************************************)
EXTENDS Naturals, Sequences

CONSTANTS
    Shelf,          \* the categories that can be chosen
    File,
    Unrepeatable,   \* files whose rows have unique values
    Absent,         \* nothing chosen, no report, no request
    MaxChoices,     \* bound: what is chosen
    MaxUploads      \* bound: requests

(* What is sent, and what is answered.                                    *)
Pairs == (Shelf \cup {Absent}) \X (File \cup {Absent})

Report == [ good : BOOLEAN, of : Pairs, mixed : BOOLEAN ]

Asking ==
    [ of : Pairs, choosing : Nat, report : Report \cup {Absent}, unsure : BOOLEAN,
      mixed : BOOLEAN, answer : {Absent, "unreadable", "bad", "good", "created"} ]

ASSUME ImportAssumption ==
    /\ Unrepeatable \subseteq File
    /\ Absent \notin Shelf \cup File \cup {"unreadable", "bad", "good", "created"}
    /\ Absent \notin Asking
    /\ MaxChoices \in Nat /\ MaxUploads \in Nat

VARIABLES
    imported,       \* what was written, in order
    wizard,         \* the dialog, or Absent
    preview, commit,\* the requests under way
    choices, uploads

importVars == <<imported, wizard, preview, commit, choices, uploads>>

(* History: what a report is of, and whether something was chosen while it *)
(* was on its way; whether a commit of what is chosen got no answer.       *)
ImportInit ==
    /\ imported = <<>>
    /\ wizard = [ category |-> Absent, file |-> Absent, report |-> Absent, unsure |-> FALSE ]
    /\ preview = Absent /\ commit = Absent
    /\ choices = 0 /\ uploads = 0

-----------------------------------------------------------------------------
(* The dialog.                                                             *)

Importing == wizard # Absent

Mixed(request) == IF request = Absent THEN Absent ELSE [request EXCEPT !.mixed = TRUE]

(* The report goes when anything is chosen.                                *)
Unreported(w) == [w EXCEPT !.unsure = FALSE, !.report = Absent]

(* The native input tells of another file, or of none.                     *)
Choose ==
    /\ Importing
    /\ choices < MaxChoices
    /\ choices' = choices + 1
    /\ \/ \E c \in Shelf \ {wizard.category} :
            wizard' = Unreported([wizard EXCEPT !.category = c])
       \/ \E f \in (File \cup {Absent}) \ {wizard.file} :
            wizard' = Unreported([wizard EXCEPT !.file = f])
    /\ preview' = Mixed(preview)
    /\ commit' = Mixed(commit)
    /\ UNCHANGED <<imported, uploads>>

(* upload: what is chosen when the button is pressed.                      *)
Upload ==
    [ of |-> <<wizard.category, wizard.file>>, choosing |-> choices, report |-> wizard.report,
      unsure |-> wizard.unsure, mixed |-> FALSE, answer |-> Absent ]

PressPreview ==
    /\ Importing
    /\ wizard.category # Absent /\ wizard.file # Absent
    /\ preview = Absent
    /\ uploads < MaxUploads
    /\ uploads' = uploads + 1
    /\ preview' = Upload
    /\ UNCHANGED <<imported, wizard, commit, choices>>

CanCommit == wizard.report # Absent /\ wizard.report.good

(* A file that was taken back while its preview was under way is sent as   *)
(* none.                                                                   *)
PressCommit ==
    /\ Importing
    /\ CanCommit
    /\ commit = Absent
    /\ uploads < MaxUploads
    /\ uploads' = uploads + 1
    /\ commit' = Upload
    /\ UNCHANGED <<imported, wizard, preview, choices>>

CloseImport ==
    /\ Importing
    /\ wizard' = Absent
    /\ UNCHANGED <<imported, preview, commit, choices, uploads>>

-----------------------------------------------------------------------------
(* The server: check, whose transaction is rolled back for a preview and   *)
(* for a bad row.                                                          *)

Readable(request) == request.of[2] # Absent

Taken(of) == of[2] \in Unrepeatable /\ \E i \in DOMAIN imported : imported[i].of = of

Verdicts(request) ==
    IF ~ Readable(request) THEN {"unreadable"}
    ELSE IF Taken(request.of) THEN {"bad", "unreadable"}
    ELSE {"good", "bad", "unreadable"}

ServerPreviews ==
    /\ preview # Absent
    /\ preview.answer = Absent
    /\ \E verdict \in Verdicts(preview) : preview' = [preview EXCEPT !.answer = verdict]
    /\ UNCHANGED <<imported, wizard, commit, choices, uploads>>

(* All the rows, or none.  A transaction that fails at its end is refused  *)
(* with a report that is good.                                             *)
ServerCommits ==
    /\ commit # Absent
    /\ commit.answer = Absent
    /\ \E verdict \in Verdicts(commit) :
        \/ /\ verdict = "good"
           /\ imported' = Append(imported, [ of |-> commit.of, choosing |-> commit.choosing ])
           /\ commit' = [commit EXCEPT !.answer = "created"]
        \/ /\ commit' = [commit EXCEPT !.answer = verdict]
           /\ UNCHANGED imported
    /\ UNCHANGED <<wizard, preview, choices, uploads>>

-----------------------------------------------------------------------------
(* The answers.                                                            *)

(* What is shown, of what was sent, for what is chosen by now.             *)
Reported(request) ==
    [wizard EXCEPT !.report =
        [ good |-> request.answer = "good", of |-> request.of, mixed |-> request.mixed ]]

Hears(w) == wizard' = IF Importing THEN w ELSE wizard

(* preview's onSuccess and onError.                                        *)
PreviewAnswered ==
    /\ preview # Absent
    /\ \/ /\ preview.answer \in {"good", "bad"}
          /\ Hears(Reported(preview))
       \/ Hears([wizard EXCEPT !.report = Absent])
    /\ preview' = Absent
    /\ UNCHANGED <<imported, commit, choices, uploads>>

(* commit's onSuccess.  The variant leaves the file and its report.        *)
StillThere(w) == w
Emptied(w) == [w EXCEPT !.report = Absent, !.file = Absent]

CommitAnswered ==
    /\ commit # Absent
    /\ CASE commit.answer = "created" -> Hears(Emptied(wizard))
         [] commit.answer \in {"good", "bad"} -> Hears(Reported(commit))
         [] OTHER -> commit.answer = "unreadable" /\ UNCHANGED wizard
    /\ commit' = Absent
    /\ UNCHANGED <<imported, preview, choices, uploads>>

(* No answer came: an error without a report.                              *)
CommitUnanswered ==
    /\ commit # Absent
    /\ commit.answer # Absent
    /\ Hears([wizard EXCEPT !.unsure = ~ commit.mixed \/ @])
    /\ commit' = Absent
    /\ UNCHANGED <<imported, preview, choices, uploads>>

ImportNext ==
    \/ Choose \/ PressPreview \/ PressCommit \/ CloseImport
    \/ ServerPreviews \/ ServerCommits
    \/ PreviewAnswered \/ CommitAnswered \/ CommitUnanswered

ImportSpec == ImportInit /\ [][ImportNext]_importVars

-----------------------------------------------------------------------------
Choosing ==
    [ category : Shelf \cup {Absent}, file : File \cup {Absent},
      report : Report \cup {Absent}, unsure : BOOLEAN ]

(* Requests and reports are of what can be chosen, and what was written    *)
(* was chosen.                                                             *)
ImportTypeOK ==
    /\ imported \in Seq([ of : Pairs, choosing : Nat ])
    /\ Importing => wizard \in Choosing
    /\ preview # Absent => preview \in Asking
    /\ commit # Absent => commit \in Asking
    /\ choices \in 0..MaxChoices /\ uploads \in 0..MaxUploads

(* What is imported is the file and the category whose report was shown    *)
(* when the button was pressed, unless something was chosen while that     *)
(* report was on its way; and what was chosen once is imported twice only  *)
(* when a commit of it got no answer (ImportDialog's setReport and         *)
(* setFile, which take the button away).                                   *)
ImportsAreExplained ==
    [][ imported' # imported =>
            /\ commit.report.of = commit.of \/ commit.report.mixed
            /\ \A i \in DOMAIN imported :
                imported[i].choosing = commit.choosing => commit.unsure ]_importVars

=============================================================================
