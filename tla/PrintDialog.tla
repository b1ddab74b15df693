----------------------------- MODULE PrintDialog -----------------------------
(***************************************************************************)
(* Printing labels (web/src/features/print/PrintDialog.tsx, with           *)
(* printAssets and printOne of internal/httpapi/handlers_print.go and the  *)
(* client of internal/printing) by a print service whose queue is          *)
(* somebody else's.                                                        *)
(*                                                                         *)
(* Opening the dialog asks what would be printed; pressing its button asks *)
(* for it.  The server sends one job for each category of the devices, in  *)
(* order, reading the labels of each when its turn comes.  A job may be    *)
(* made though the call for it timed out, one failing query ends the whole *)
(* request in the middle, and the answer may be lost on its way.           *)
(*                                                                         *)
(* The devices do not change while the dialog is open.  A poll that fails  *)
(* changes nothing that is decided here, and only the jobs that a dialog   *)
(* shows are followed: nothing reads the others.                           *)
(***************************************************************************)
EXTENDS Naturals, Sequences, SequencesExt

CONSTANTS
    Order,          \* the categories of the devices, as they first appear
    Label,          \* the presets of the print service
    LabelLists,     \* what a category may be given
    NoLabel,        \* no label, no dialog, no request
    MaxOpenings,    \* bound: dialogs
    MaxPresses,     \* bound: requests that print
    MaxSettings     \* bound: changes of what the categories print

Printed == ToSet(Order)

Finished == {"completed", "failed", "cancelled"}

Choice == [ Printed -> Label \cup {NoLabel} ]

Batches ==
    [ category : Printed, presets : LabelLists, preset : Label \cup {NoLabel},
      error : BOOLEAN, job : Nat ]

Requests ==
    [ dry : BOOLEAN, chosen : Choice, batches : Seq(Batches), failed : BOOLEAN,
      opening : Nat, unsure : BOOLEAN, heard : BOOLEAN ]

Dialogs ==
    [ batches : Seq(Batches), chosen : Choice, confirmed : BOOLEAN,
      seen : [ Printed -> {"nothing", "queued"} \cup Finished ], unsure : BOOLEAN ]

ASSUME PrintAssumption ==
    /\ Order \in Seq(Printed) /\ IsInjective(Order)
    /\ \A given \in LabelLists : given \in Seq(Label)
    /\ NoLabel \notin Label \cup Requests \cup Dialogs
    /\ MaxOpenings \in Nat /\ MaxPresses \in Nat /\ MaxSettings \in Nat

VARIABLES
    labels,         \* PrintPresetIDs of each category
    jobs,           \* what the service was given, in order
    dialog,         \* the dialog, or NoLabel
    press,          \* the request under way, or NoLabel
    openings, presses, settings

printVars == <<labels, jobs, dialog, press, openings, presses, settings>>

NoChoice == [ c \in Printed |-> NoLabel ]

(* A batch: job is its place among the jobs, 0 when it has none.           *)
Batch(c, label, error, job) ==
    [ category |-> c, presets |-> labels[c], preset |-> label, error |-> error, job |-> job ]

(* unsure is history: a press of this dialog was not answered in full.     *)
Request(dry, chosen, opening, unsure) ==
    [ dry |-> dry, chosen |-> chosen, batches |-> <<>>, failed |-> FALSE,
      opening |-> opening, unsure |-> unsure, heard |-> TRUE ]

PrintInit ==
    /\ labels \in [ Printed -> LabelLists ]
    /\ jobs = <<>>
    /\ dialog = NoLabel
    /\ press = NoLabel
    /\ openings = 0 /\ presses = 0 /\ settings = 0

-----------------------------------------------------------------------------
(* The dialog.                                                             *)

Printing == dialog # NoLabel

(* The effect of []: the plan.                                             *)
OpenPrint ==
    /\ ~ Printing
    /\ press = NoLabel
    /\ openings < MaxOpenings
    /\ openings' = openings + 1
    /\ dialog' = [ batches |-> <<>>, chosen |-> NoChoice, confirmed |-> FALSE,
                   seen |-> [ c \in Printed |-> "nothing" ], unsure |-> FALSE ]
    /\ press' = Request(TRUE, NoChoice, openings', FALSE)
    /\ UNCHANGED <<labels, jobs, presses, settings>>

(* What was asked for goes on.                                             *)
ClosePrint ==
    /\ Printing
    /\ dialog' = NoLabel
    /\ press' = IF press = NoLabel THEN NoLabel ELSE [press EXCEPT !.heard = FALSE]
    /\ UNCHANGED <<labels, jobs, openings, presses, settings>>

(* A list of labels, where there is more than one; a press under way has   *)
(* taken its choice with it.                                               *)
ChooseLabel ==
    /\ Printing
    /\ ~ dialog.confirmed
    /\ \E i \in DOMAIN dialog.batches :
        LET batch == dialog.batches[i] IN
        /\ Len(batch.presets) > 1
        /\ \E label \in ToSet(batch.presets) \ {dialog.chosen[batch.category]} :
            dialog' = [dialog EXCEPT !.chosen[batch.category] = label]
    /\ UNCHANGED <<labels, jobs, press, openings, presses, settings>>

Printable == \E i \in DOMAIN dialog.batches : ~ dialog.batches[i].error

(* The press that spends paper.                                            *)
Submit ==
    /\ Printing
    /\ ~ dialog.confirmed
    /\ press = NoLabel
    /\ Printable
    /\ presses < MaxPresses
    /\ presses' = presses + 1
    /\ press' = Request(FALSE, dialog.chosen, openings, dialog.unsure)
    /\ UNCHANGED <<labels, jobs, dialog, openings, settings>>

-----------------------------------------------------------------------------
(* The server.                                                             *)

(* choosePreset: a single label is no choice.  NoLabel when the caller has *)
(* to say.                                                                 *)
ChoosePreset(available, chosen) ==
    IF chosen = NoLabel /\ Len(available) = 1 THEN available[1]
    ELSE IF chosen \in ToSet(available) THEN chosen
    ELSE NoLabel

Working == press # NoLabel /\ ~ press.failed /\ Len(press.batches) < Len(Order)

NextCategory == Order[Len(press.batches) + 1]

Answered(batch) == press' = [press EXCEPT !.batches = Append(@, batch)]

(* printOne where nothing is sent: no label, a choice that is not one of   *)
(* the labels, or the plan, which proposes the first.                      *)
PlanOne ==
    LET c == NextCategory
        label == ChoosePreset(labels[c], press.chosen[c])
    IN
    /\ Working
    /\ \/ labels[c] = <<>> /\ Answered(Batch(c, NoLabel, TRUE, 0))
       \/ label # NoLabel /\ press.dry /\ Answered(Batch(c, label, FALSE, 0))
       \/ /\ labels[c] # <<>> /\ label = NoLabel
          /\ Answered(IF press.dry THEN Batch(c, labels[c][1], FALSE, 0)
                                   ELSE Batch(c, NoLabel, TRUE, 0))
    /\ UNCHANGED <<labels, jobs, dialog, openings, presses, settings>>

(* printOne, and Print of the client: the service makes the job, and is    *)
(* heard or not, or does not make it.                                      *)
PrintOne ==
    LET c == NextCategory
        label == ChoosePreset(labels[c], press.chosen[c])
        made == Append(jobs, [ category |-> c, preset |-> label, status |-> "queued",
                               opening |-> press.opening ])
    IN
    /\ Working
    /\ ~ press.dry
    /\ label # NoLabel
    /\ \/ jobs' = made /\ Answered(Batch(c, label, FALSE, Len(made)))
       \/ jobs' \in {jobs, made} /\ Answered(Batch(c, label, TRUE, 0))
    /\ UNCHANGED <<labels, dialog, openings, presses, settings>>

(* The ledger itself failed: what was sent stays sent.                     *)
PrintFails ==
    /\ Working
    /\ press' = [press EXCEPT !.failed = TRUE]
    /\ UNCHANGED <<labels, jobs, dialog, openings, presses, settings>>

-----------------------------------------------------------------------------
(* The answer, and what follows.                                           *)

Whole == press # NoLabel /\ ~ press.failed /\ Len(press.batches) = Len(Order)

(* Each category starts from the label the plan gave it.                   *)
FirstChoice(batches) ==
    [ c \in Printed |-> batches[CHOOSE i \in DOMAIN batches : batches[i].category = c].preset ]

(* onSuccess of plan and of submit.  The variant does not take the button  *)
(* away.                                                                   *)
HeardNotConfirmed ==
    [ dialog EXCEPT !.batches = press.batches,
                    !.chosen = IF press.dry THEN FirstChoice(press.batches) ELSE @ ]
Heard ==
    [ dialog EXCEPT !.batches = press.batches,
                    !.chosen = IF press.dry THEN FirstChoice(press.batches) ELSE @,
                    !.confirmed = ~ press.dry ]

AnswerPress ==
    /\ Whole
    /\ dialog' = IF press.heard THEN Heard ELSE dialog
    /\ press' = NoLabel
    /\ UNCHANGED <<labels, jobs, openings, presses, settings>>

(* onError: an answer that is an error, or none.                           *)
LosePress ==
    /\ press # NoLabel
    /\ press.failed \/ Whole
    /\ dialog' = IF press.heard THEN [dialog EXCEPT !.unsure = @ \/ ~ press.dry] ELSE dialog
    /\ press' = NoLabel
    /\ UNCHANGED <<labels, jobs, openings, presses, settings>>

Shown == IF Printing /\ dialog.confirmed
         THEN { i \in DOMAIN dialog.batches : dialog.batches[i].job # 0 } ELSE {}

(* Until a job is finished it is asked after again.                        *)
Poll ==
    /\ \E i \in Shown :
        LET batch == dialog.batches[i] IN
        /\ dialog.seen[batch.category] \notin Finished
        /\ dialog' = [dialog EXCEPT !.seen[batch.category] = jobs[batch.job].status]
    /\ UNCHANGED <<labels, jobs, press, openings, presses, settings>>

(* The printer, or somebody at the queue.                                  *)
JobEnds ==
    /\ \E i \in Shown, status \in Finished :
        LET job == dialog.batches[i].job IN
        /\ jobs[job].status \notin Finished
        /\ jobs' = [jobs EXCEPT ![job].status = status]
    /\ UNCHANGED <<labels, dialog, press, openings, presses, settings>>

(* Somebody gives a category other labels.                                 *)
Relabel ==
    /\ settings < MaxSettings
    /\ settings' = settings + 1
    /\ \E c \in Printed : \E new \in LabelLists \ {labels[c]} :
        labels' = [labels EXCEPT ![c] = new]
    /\ UNCHANGED <<jobs, dialog, press, openings, presses>>

PrintNext ==
    \/ OpenPrint \/ ClosePrint \/ ChooseLabel \/ Submit
    \/ PlanOne \/ PrintOne \/ PrintFails
    \/ AnswerPress \/ LosePress \/ Poll \/ JobEnds \/ Relabel

PrintSpec == PrintInit /\ [][PrintNext]_printVars

-----------------------------------------------------------------------------
(* The banner.  The variant leaves out that paper was asked for.           *)
SettledFromTheStart ==
    /\ dialog.batches # <<>>
    /\ \A i \in DOMAIN dialog.batches :
        dialog.batches[i].job # 0 => dialog.seen[dialog.batches[i].category] \in Finished
AllSettled ==
    /\ dialog.confirmed
    /\ dialog.batches # <<>>
    /\ \A i \in DOMAIN dialog.batches :
        dialog.batches[i].job # 0 => dialog.seen[dialog.batches[i].category] \in Finished

AnyFailed ==
    \E i \in DOMAIN dialog.batches :
        dialog.batches[i].error \/ dialog.seen[dialog.batches[i].category] = "failed"

AllDone == Printing /\ AllSettled /\ ~ AnyFailed

Jobs ==
    [ category : Printed, preset : Label, status : {"queued"} \cup Finished, opening : Nat ]

(* What is asked, answered, shown and queued is of the categories there    *)
(* are, under labels they were given.                                      *)
PrintTypeOK ==
    /\ labels \in [ Printed -> LabelLists ]
    /\ jobs \in Seq(Jobs)
    /\ Printing => dialog \in Dialogs
    /\ press # NoLabel => press \in Requests
    /\ openings \in 0..MaxOpenings /\ presses \in 0..MaxPresses /\ settings \in 0..MaxSettings

(* "All labels printed" is said when it is so: each category of the        *)
(* devices has a job of this dialog that the service has ended, and not as *)
(* failed (settled and anyFailed, over what the polls read and what the    *)
(* answer of the press said).                                              *)
AllDoneIsTrue ==
    AllDone =>
        \A c \in Printed : \E i \in DOMAIN jobs :
            /\ jobs[i].category = c
            /\ jobs[i].opening = openings
            /\ jobs[i].status \in Finished \ {"failed"}

(* What is printed is what the dialog showed when its button was pressed:  *)
(* a category under the label chosen for it, if it was shown with any.     *)
(* And the button prints a category twice only when an earlier press of    *)
(* that dialog was not answered in full ("Gone once it has been made, so   *)
(* the same dialog cannot print the same labels twice": but an answer that *)
(* is lost leaves the button, and no Idempotency-Key goes with a press).   *)
PrintsAreExplained ==
    [][ \A i \in DOMAIN jobs' \ DOMAIN jobs :
            LET job == jobs'[i] IN
            /\ press.chosen[job.category] \in {job.preset, NoLabel}
            /\ \A j \in DOMAIN jobs :
                jobs[j].category = job.category /\ jobs[j].opening = job.opening => press.unsure
      ]_printVars

=============================================================================
