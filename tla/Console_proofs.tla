--------------------------- MODULE Console_proofs ---------------------------
(***************************************************************************)
(* Theorems about the two dialogs that are opened over pages: printing,    *)
(* for any categories, labels and lists of labels and any number of        *)
(* dialogs, presses and changes, and importing, for any categories, files  *)
(* and verdicts and any number of choices and uploads; and about the       *)
(* console as a whole, which keeps what its pages and dialogs keep.        *)
(***************************************************************************)
EXTENDS Console, Pages_proofs

-----------------------------------------------------------------------------
(* Sequences                                                               *)

LEMMA ElementIn ==
    ASSUME NEW S, NEW seq \in Seq(S), NEW i \in DOMAIN seq
    PROVE  seq[i] \in S
OBVIOUS

LEMMA Longer ==
    ASSUME NEW S, NEW seq \in Seq(S), NEW x \in S
    PROVE  /\ Append(seq, x) \in Seq(S)
           /\ Len(Append(seq, x)) = Len(seq) + 1
           /\ Append(seq, x)[Len(seq) + 1] = x
           /\ \A i \in DOMAIN seq : i \in DOMAIN Append(seq, x) /\ Append(seq, x)[i] = seq[i]
           /\ \A i \in DOMAIN Append(seq, x) : i \in DOMAIN seq \/ i = Len(seq) + 1
OBVIOUS

-----------------------------------------------------------------------------
(* Type correctness                                                        *)

LEMMA LabelsTyped ==
    ASSUME PrintTypeOK, NEW c \in Printed
    PROVE  /\ labels[c] \in LabelLists /\ labels[c] \in Seq(Label)
           /\ labels[c] # <<>> => labels[c][1] \in Label
<1>1. labels[c] \in LabelLists
  BY DEF PrintTypeOK
<1>2. labels[c] \in Seq(Label)
  BY <1>1, PrintAssumption
<1>3. labels[c] # <<>> => 1 \in DOMAIN labels[c]
  BY <1>2
<1> QED
  BY <1>1, <1>2, <1>3, ElementIn

LEMMA PresetTyped ==
    ASSUME NEW available \in Seq(Label), NEW chosen \in Label \cup {NoLabel}
    PROVE  /\ ChoosePreset(available, chosen) \in Label \cup {NoLabel}
           /\ ChoosePreset(available, chosen) # NoLabel =>
                  chosen \in {ChoosePreset(available, chosen), NoLabel}
<1>1. Len(available) = 1 => available[1] \in Label
  BY ElementIn
<1> QED
  BY <1>1 DEF ChoosePreset

LEMMA TurnTyped ==
    ASSUME PrintTypeOK, Working
    PROVE  /\ press \in Requests /\ Len(press.batches) \in Nat
           /\ Len(press.batches) + 1 \in DOMAIN Order
           /\ NextCategory \in Printed
           /\ press.chosen[NextCategory] \in Label \cup {NoLabel}
<1>1. press \in Requests
  BY DEF PrintTypeOK, Working
<1>2. Len(press.batches) \in Nat /\ Len(press.batches) < Len(Order)
  BY <1>1 DEF Requests, Working
<1>3. Len(press.batches) + 1 \in DOMAIN Order
  BY <1>2, PrintAssumption
<1>4. NextCategory \in Printed
  BY <1>3, PrintAssumption, ElementIn DEF NextCategory
<1> QED
  BY <1>1, <1>2, <1>3, <1>4 DEF Requests, Choice

LEMMA BatchTyped ==
    ASSUME PrintTypeOK, NEW c \in Printed, NEW label \in Label \cup {NoLabel},
           NEW error \in BOOLEAN, NEW job \in Nat
    PROVE  Batch(c, label, error, job) \in Batches
BY LabelsTyped DEF Batch, Batches

LEMMA AnsweredTyped ==
    ASSUME press \in Requests, NEW batch \in Batches, Answered(batch)
    PROVE  press' \in Requests
<1>1. press.batches \in Seq(Batches)
  BY DEF Requests
<1>2. Append(press.batches, batch) \in Seq(Batches)
  BY <1>1, Longer
<1> QED
  BY <1>2 DEF Answered, Requests

LEMMA RequestTyped ==
    ASSUME NEW dry \in BOOLEAN, NEW chosen \in Choice, NEW opening \in Nat, NEW unsure \in BOOLEAN
    PROVE  Request(dry, chosen, opening, unsure) \in Requests
BY DEF Request, Requests

(* The next category is answered with a batch of its own.                  *)
LEMMA PlanAnswers ==
    ASSUME PrintTypeOK, PlanOne
    PROVE  \E batch \in Batches :
               /\ Answered(batch)
               /\ batch.category = NextCategory /\ batch.job = 0 /\ (press.dry \/ batch.error)
<1> DEFINE c == NextCategory
           label == ChoosePreset(labels[c], press.chosen[c])
<1>1. /\ Working /\ c \in Printed /\ press.chosen[c] \in Label \cup {NoLabel}
  BY TurnTyped DEF PlanOne
<1>2. label \in Label \cup {NoLabel}
  BY <1>1, LabelsTyped, PresetTyped
<1>3. labels[c] # <<>> => labels[c][1] \in Label
  BY <1>1, LabelsTyped
<1>4. ASSUME NEW preset \in Label \cup {NoLabel}, NEW error \in BOOLEAN, press.dry \/ error,
             Answered(Batch(c, preset, error, 0))
      PROVE  \E batch \in Batches :
                 /\ Answered(batch)
                 /\ batch.category = c /\ batch.job = 0 /\ (press.dry \/ batch.error)
  <2>1. Batch(c, preset, error, 0) \in Batches
    BY <1>1, BatchTyped
  <2>2. /\ Batch(c, preset, error, 0).category = c /\ Batch(c, preset, error, 0).job = 0
        /\ Batch(c, preset, error, 0).error = error
    BY DEF Batch
  <2> QED
    BY <1>4, <2>1, <2>2
<1>5. \/ Answered(Batch(c, NoLabel, TRUE, 0))
      \/ press.dry /\ Answered(Batch(c, label, FALSE, 0))
      \/ labels[c] # <<>> /\ press.dry /\ Answered(Batch(c, labels[c][1], FALSE, 0))
  BY DEF PlanOne
<1> QED
  BY <1>2, <1>3, <1>4, <1>5

(* So is one that is sent, with the job that was made, or without.         *)
LEMMA PrintAnswers ==
    ASSUME PrintTypeOK, PrintOne
    PROVE  \E batch \in Batches, job \in Jobs :
               /\ Answered(batch)
               /\ batch.category = NextCategory
               /\ job.category = NextCategory /\ job.opening = press.opening
               /\ press.chosen[NextCategory] \in {job.preset, NoLabel}
               /\ \/ jobs' = Append(jobs, job) /\ batch.job = Len(jobs) + 1
                  \/ jobs' \in {jobs, Append(jobs, job)} /\ batch.error /\ batch.job = 0
<1> DEFINE c == NextCategory
           label == ChoosePreset(labels[c], press.chosen[c])
           job == [ category |-> c, preset |-> label, status |-> "queued", opening |-> press.opening ]
           made == Append(jobs, job)
<1>1. /\ Working /\ press \in Requests
      /\ c \in Printed /\ press.chosen[c] \in Label \cup {NoLabel}
  BY TurnTyped DEF PrintOne
<1>2. label # NoLabel
  BY DEF PrintOne
<1>3. label \in Label /\ press.chosen[c] \in {label, NoLabel}
  BY <1>1, <1>2, LabelsTyped, PresetTyped
<1>4. job \in Jobs
  BY <1>1, <1>3 DEF Jobs, Requests
<1>5. Len(made) = Len(jobs) + 1 /\ Len(made) \in Nat
  BY <1>4, Longer DEF PrintTypeOK
<1>6. \/ jobs' = made /\ Answered(Batch(c, label, FALSE, Len(made)))
      \/ jobs' \in {jobs, made} /\ Answered(Batch(c, label, TRUE, 0))
  BY DEF PrintOne
<1>7. CASE jobs' = made /\ Answered(Batch(c, label, FALSE, Len(made)))
  <2>1. Batch(c, label, FALSE, Len(made)) \in Batches
    BY <1>1, <1>3, <1>5, BatchTyped
  <2> QED
    BY <1>3, <1>4, <1>5, <1>7, <2>1 DEF Batch
<1>8. CASE jobs' \in {jobs, made} /\ Answered(Batch(c, label, TRUE, 0))
  <2>1. Batch(c, label, TRUE, 0) \in Batches
    BY <1>1, <1>3, BatchTyped
  <2> QED
    BY <1>3, <1>4, <1>8, <2>1 DEF Batch
<1> QED
  BY <1>6, <1>7, <1>8

LEMMA FirstChoiceTyped ==
    ASSUME NEW batches \in Seq(Batches),
           \A c \in Printed : \E i \in DOMAIN batches : batches[i].category = c
    PROVE  FirstChoice(batches) \in Choice
<1>1. ASSUME NEW c \in Printed
      PROVE  batches[CHOOSE i \in DOMAIN batches : batches[i].category = c].preset
                 \in Label \cup {NoLabel}
  <2>1. (CHOOSE i \in DOMAIN batches : batches[i].category = c) \in DOMAIN batches
    BY <1>1
  <2>2. batches[CHOOSE i \in DOMAIN batches : batches[i].category = c] \in Batches
    BY <2>1, ElementIn
  <2> QED
    BY <2>2 DEF Batches
<1> QED
  BY <1>1 DEF FirstChoice, Choice

-----------------------------------------------------------------------------
(* Why what is printed was shown, and shown again only after silence.      *)

(* The batches of an answer follow the categories of the devices.          *)
InTurn(batches) ==
    \A i \in DOMAIN batches : i \in DOMAIN Order /\ batches[i].category = Order[i]

(* A batch without an error has a job, made for it by that dialog.         *)
Sent(batches, opening) ==
    \A i \in DOMAIN batches :
        \/ batches[i].error /\ batches[i].job = 0
        \/ /\ batches[i].job \in DOMAIN jobs
           /\ jobs[batches[i].job].category = batches[i].category
           /\ jobs[batches[i].job].opening = opening

(* A press that is heard is that of the dialog, which has its button.      *)
PressOfTheDialog ==
    press # NoLabel =>
        /\ InTurn(press.batches)
        /\ press.opening <= openings
        /\ ~ press.dry => Sent(press.batches, press.opening)
        /\ press.heard <=> Printing
        /\ press.heard => press.opening = openings /\ ~ dialog.confirmed

(* A job of the dialog is of the press under way, which went past its      *)
(* category, or an earlier press got no answer.                            *)
JobsOfThePress ==
    /\ \A j \in DOMAIN jobs : jobs[j].opening <= openings
    /\ press # NoLabel /\ ~ press.dry =>
           \A j \in DOMAIN jobs : jobs[j].opening = press.opening =>
               \/ press.unsure
               \/ \E i \in DOMAIN press.batches : press.batches[i].category = jobs[j].category

(* While there is a button, and nobody waits for what it did, no job is    *)
(* the dialog's, or an earlier press got no answer.                        *)
ButtonIsHonest ==
    Printing /\ ~ dialog.confirmed /\ (press = NoLabel \/ press.dry) =>
        \A j \in DOMAIN jobs : jobs[j].opening = openings => dialog.unsure

(* What is shown of a job that ended is how it ended.                      *)
ShownIsTrue ==
    Printing =>
        /\ InTurn(dialog.batches)
        /\ dialog.confirmed => Len(dialog.batches) = Len(Order) /\ Sent(dialog.batches, openings)
        /\ ~ dialog.confirmed => \A c \in Printed : dialog.seen[c] = "nothing"
        /\ \A i \in DOMAIN dialog.batches :
            dialog.batches[i].job # 0 /\ dialog.seen[dialog.batches[i].category] \in Finished =>
                jobs[dialog.batches[i].job].status = dialog.seen[dialog.batches[i].category]

PrintInv ==
    PrintTypeOK /\ PressOfTheDialog /\ JobsOfThePress /\ ButtonIsHonest /\ ShownIsTrue

(* What the invariant says of types, where it is needed.                   *)
LEMMA PrintTypes ==
    ASSUME PrintTypeOK
    PROVE  /\ openings \in Nat /\ jobs \in Seq(Jobs) /\ Order \in Seq(Printed)
           /\ press # NoLabel => press \in Requests /\ press.batches \in Seq(Batches)
           /\ Printing => dialog \in Dialogs /\ dialog.batches \in Seq(Batches)
           /\ \A j \in DOMAIN jobs : jobs[j].opening \in Nat /\ jobs[j].category \in Printed
<1>1. openings \in Nat /\ jobs \in Seq(Jobs) /\ Order \in Seq(Printed)
  BY PrintAssumption DEF PrintTypeOK
<1>2. \A j \in DOMAIN jobs : jobs[j] \in Jobs
  BY <1>1, ElementIn
<1> QED
  BY <1>1, <1>2 DEF PrintTypeOK, Requests, Dialogs, Jobs

(* An index of Order stands for one category, and each category has one.   *)
LEMMA OneTurn ==
    ASSUME NEW batches \in Seq(Batches), InTurn(batches)
    PROVE  /\ \A i, j \in DOMAIN batches : batches[i].category = batches[j].category => i = j
           /\ Len(batches) = Len(Order) =>
                  \A c \in Printed : \E i \in DOMAIN batches : batches[i].category = c
<1>1. \A i, j \in DOMAIN Order : Order[i] = Order[j] => i = j
  BY PrintAssumption DEF IsInjective
<1>2. \A c \in Printed : \E i \in DOMAIN Order : Order[i] = c
  BY DEF Printed, ToSet
<1>3. Len(batches) = Len(Order) => DOMAIN batches = DOMAIN Order
  BY PrintAssumption
<1> QED
  BY <1>1, <1>2, <1>3 DEF InTurn

LEMMA PrintInvInit == PrintInit => PrintInv
<1> SUFFICES ASSUME PrintInit
             PROVE  PrintInv
  OBVIOUS
<1>1. PrintTypeOK
  BY PrintAssumption DEF PrintInit, PrintTypeOK, Printing
<1>2. DOMAIN jobs = {}
  BY DEF PrintInit
<1> QED
  BY <1>1, <1>2
  DEF PrintInit, PrintInv, PressOfTheDialog, JobsOfThePress, ButtonIsHonest, ShownIsTrue, Printing

(* A dialog starts with a plan, and without batches.                       *)
LEMMA OpenKeeps == PrintInv /\ OpenPrint => PrintInv'
<1> SUFFICES ASSUME PrintInv, OpenPrint
             PROVE  PrintInv'
  OBVIOUS
<1> DEFINE fresh == [ batches |-> <<>>, chosen |-> NoChoice, confirmed |-> FALSE,
                      seen |-> [ c \in Printed |-> "nothing" ], unsure |-> FALSE ]
<1>1. /\ dialog' = fresh /\ press' = Request(TRUE, NoChoice, openings', FALSE)
      /\ openings' = openings + 1 /\ jobs' = jobs /\ labels' = labels
  BY DEF OpenPrint
<1>2. openings \in Nat /\ openings' \in Nat /\ openings' \in 0..MaxOpenings
  BY <1>1, PrintAssumption DEF OpenPrint, PrintInv, PrintTypeOK
<1>3. fresh \in Dialogs /\ NoChoice \in Choice
  BY DEF Dialogs, NoChoice, Choice
<1>4. press' \in Requests /\ press' # NoLabel
  <2>1. Request(TRUE, NoChoice, openings', FALSE) \in Requests
    BY <1>2, <1>3, RequestTyped
  <2> QED
    BY <1>1, <2>1, PrintAssumption
<1>5. PrintTypeOK'
  BY <1>1, <1>2, <1>3, <1>4 DEF OpenPrint, PrintInv, PrintTypeOK, Printing
<1>6. /\ press'.batches = <<>> /\ press'.dry /\ press'.heard /\ press'.opening = openings'
      /\ dialog'.batches = <<>> /\ ~ dialog'.confirmed
      /\ \A c \in Printed : dialog'.seen[c] = "nothing"
  BY <1>1 DEF Request
<1>7. InTurn(<<>>)
  BY DEF InTurn
<1>8. \A j \in DOMAIN jobs : /\ jobs[j].opening \in Nat /\ jobs[j].opening <= openings'
                             /\ jobs[j].opening # openings'
  BY <1>1, <1>2, PrintTypes DEF PrintInv, JobsOfThePress
<1>9. Printing'
  <2>1. dialog' # NoLabel
    BY <1>1, <1>3, PrintAssumption
  <2> QED
    BY <2>1 DEF Printing
<1>10. PressOfTheDialog'
  BY <1>2, <1>6, <1>7, <1>9 DEF PressOfTheDialog
<1>11. ButtonIsHonest'
  BY <1>1, <1>8 DEF ButtonIsHonest
<1>12. JobsOfThePress'
  BY <1>1, <1>6, <1>8 DEF JobsOfThePress
<1>13. ShownIsTrue'
  BY <1>6, <1>7, <1>9 DEF ShownIsTrue
<1> QED
  BY <1>5, <1>10, <1>11, <1>12, <1>13 DEF PrintInv

(* Closing leaves what was asked for, unheard.                             *)
LEMMA CloseKeeps == PrintInv /\ ClosePrint => PrintInv'
<1> SUFFICES ASSUME PrintInv, ClosePrint
             PROVE  PrintInv'
  OBVIOUS
<1>1. dialog' = NoLabel /\ ~ Printing' /\ jobs' = jobs /\ openings' = openings /\ labels' = labels
  BY DEF ClosePrint, Printing
<1>2. press = NoLabel => press' = NoLabel
  BY DEF ClosePrint
<1>3. press # NoLabel =>
          /\ press' \in Requests /\ press'.batches = press.batches
          /\ press'.dry = press.dry /\ press'.opening = press.opening
          /\ press'.unsure = press.unsure /\ ~ press'.heard
  BY DEF ClosePrint, PrintInv, PrintTypeOK, Requests
<1>4. PrintTypeOK'
  BY <1>1, <1>2, <1>3 DEF ClosePrint, PrintInv, PrintTypeOK
<1>5. PressOfTheDialog'
  BY <1>1, <1>2, <1>3 DEF PrintInv, PressOfTheDialog, Sent
<1>6. JobsOfThePress'
  BY <1>1, <1>2, <1>3 DEF PrintInv, JobsOfThePress
<1> QED
  BY <1>1, <1>4, <1>5, <1>6 DEF PrintInv, ButtonIsHonest, ShownIsTrue

LEMMA ChooseLabelKeeps == PrintInv /\ ChooseLabel => PrintInv'
<1> SUFFICES ASSUME PrintInv, ChooseLabel
             PROVE  PrintInv'
  OBVIOUS
<1>1. PICK i \in DOMAIN dialog.batches :
          \E label \in ToSet(dialog.batches[i].presets) :
              dialog' = [dialog EXCEPT !.chosen[dialog.batches[i].category] = label]
  BY DEF ChooseLabel
<1>2. PICK label \in ToSet(dialog.batches[i].presets) :
          dialog' = [dialog EXCEPT !.chosen[dialog.batches[i].category] = label]
  BY <1>1
<1>3. Printing /\ dialog \in Dialogs /\ dialog.batches[i] \in Batches
  BY PrintTypes, ElementIn DEF ChooseLabel, PrintInv
<1>4. label \in Label
  <2>1. dialog.batches[i].presets \in Seq(Label)
    BY <1>3, PrintAssumption DEF Batches
  <2> QED
    BY <2>1, ElementIn DEF ToSet
<1>5. /\ dialog' \in Dialogs /\ dialog'.batches = dialog.batches
      /\ dialog'.confirmed = dialog.confirmed /\ dialog'.seen = dialog.seen
      /\ dialog'.unsure = dialog.unsure
  BY <1>2, <1>3, <1>4 DEF Dialogs, Choice
<1>6. Printing'
  BY <1>5, PrintAssumption DEF Printing
<1>7. /\ jobs' = jobs /\ openings' = openings /\ press' = press /\ labels' = labels
      /\ presses' = presses /\ settings' = settings
  BY DEF ChooseLabel
<1>8. PrintTypeOK'
  BY <1>5, <1>7 DEF PrintInv, PrintTypeOK
<1>9. PressOfTheDialog'
  BY <1>3, <1>5, <1>6, <1>7 DEF PrintInv, PressOfTheDialog, Sent
<1>10. JobsOfThePress'
  BY <1>7 DEF PrintInv, JobsOfThePress
<1>11. ButtonIsHonest'
  BY <1>3, <1>5, <1>6, <1>7 DEF PrintInv, ButtonIsHonest
<1>12. ShownIsTrue'
  BY <1>3, <1>5, <1>6, <1>7 DEF PrintInv, ShownIsTrue, Sent
<1> QED
  BY <1>8, <1>9, <1>10, <1>11, <1>12 DEF PrintInv

(* A press starts with what the dialog knows of the earlier ones.          *)
LEMMA SubmitKeeps == PrintInv /\ Submit => PrintInv'
<1> SUFFICES ASSUME PrintInv, Submit
             PROVE  PrintInv'
  OBVIOUS
<1>1. /\ Printing /\ ~ dialog.confirmed /\ press = NoLabel
      /\ press' = Request(FALSE, dialog.chosen, openings, dialog.unsure)
      /\ jobs' = jobs /\ dialog' = dialog /\ openings' = openings /\ labels' = labels
  BY DEF Submit
<1>2. openings \in Nat /\ dialog \in Dialogs
  BY <1>1, PrintTypes DEF PrintInv
<1>3. press' \in Requests /\ press' # NoLabel
  <2>1. dialog.chosen \in Choice /\ dialog.unsure \in BOOLEAN
    BY <1>2 DEF Dialogs
  <2>2. Request(FALSE, dialog.chosen, openings, dialog.unsure) \in Requests
    BY <1>2, <2>1, RequestTyped
  <2> QED
    BY <1>1, <2>2, PrintAssumption
<1>4. /\ press'.batches = <<>> /\ ~ press'.dry /\ press'.heard /\ press'.opening = openings
      /\ press'.unsure = dialog.unsure
  BY <1>1 DEF Request
<1>5. PrintTypeOK'
  <2>1. presses' \in 0..MaxPresses
    BY PrintAssumption DEF Submit, PrintInv, PrintTypeOK
  <2> QED
    BY <1>1, <1>2, <1>3, <2>1 DEF Submit, PrintInv, PrintTypeOK, Printing
<1>6. PressOfTheDialog'
  <2>1. InTurn(<<>>)
    BY DEF InTurn
  <2>2. Sent(press.batches, press.opening)'
    BY <1>4 DEF Sent
  <2>3. press'.opening <= openings'
    <3>1. press'.opening = openings
      BY <1>4
    <3>2. openings' = openings
      BY <1>1
    <3>3. openings \in Nat
      BY <1>2
    <3>4. openings <= openings
      BY <3>3
    <3> QED
      BY <3>1, <3>2, <3>4, Zenon
  <2> QED
    BY <1>1, <1>4, <2>1, <2>2, <2>3 DEF PressOfTheDialog, Printing
<1>7. JobsOfThePress'
  BY <1>1, <1>4 DEF PrintInv, JobsOfThePress, ButtonIsHonest
<1>8. ButtonIsHonest'
  BY <1>3, <1>4 DEF ButtonIsHonest
<1>9. ShownIsTrue'
  BY <1>1 DEF PrintInv, ShownIsTrue, Printing, Sent
<1> QED
  BY <1>5, <1>6, <1>7, <1>8, <1>9 DEF PrintInv

(* A batch that follows the others, of the next category.                  *)
LEMMA NextInTurn ==
    ASSUME PrintInv, Working, NEW batch \in Batches, Answered(batch), batch.category = NextCategory
    PROVE  /\ press' \in Requests /\ press' # NoLabel
           /\ InTurn(press'.batches)
           /\ press'.dry = press.dry /\ press'.opening = press.opening
           /\ press'.unsure = press.unsure /\ press'.heard = press.heard
           /\ press'.batches = Append(press.batches, batch)
           /\ \A i \in DOMAIN press'.batches :
                  \/ i \in DOMAIN press.batches /\ press'.batches[i] = press.batches[i]
                  \/ press'.batches[i] = batch
           /\ \A i \in DOMAIN press.batches :
                  i \in DOMAIN press'.batches /\ press'.batches[i] = press.batches[i]
           /\ \E i \in DOMAIN press'.batches : press'.batches[i] = batch
<1>1. /\ press \in Requests /\ press # NoLabel /\ press.batches \in Seq(Batches)
      /\ Len(press.batches) + 1 \in DOMAIN Order
  BY TurnTyped, PrintTypes DEF PrintInv, Working
<1>2. press' \in Requests /\ press' # NoLabel
  BY <1>1, AnsweredTyped, PrintAssumption
<1>3. /\ press'.dry = press.dry /\ press'.opening = press.opening
      /\ press'.unsure = press.unsure /\ press'.heard = press.heard
      /\ press'.batches = Append(press.batches, batch)
  BY <1>1 DEF Answered, Requests
<1> DEFINE longer == Append(press.batches, batch)
<1>4. /\ longer[Len(press.batches) + 1] = batch /\ Len(press.batches) + 1 \in DOMAIN longer
      /\ \A i \in DOMAIN press.batches : i \in DOMAIN longer /\ longer[i] = press.batches[i]
      /\ \A i \in DOMAIN longer : i \in DOMAIN press.batches \/ i = Len(press.batches) + 1
  BY <1>1, Longer
<1>5. InTurn(longer)
  BY <1>1, <1>4 DEF InTurn, PrintInv, PressOfTheDialog, NextCategory
<1> QED
  BY <1>2, <1>3, <1>4, <1>5

LEMMA PlanKeeps == PrintInv /\ PlanOne => PrintInv'
<1> SUFFICES ASSUME PrintInv, PlanOne
             PROVE  PrintInv'
  OBVIOUS
<1>1. PICK batch \in Batches :
          /\ Answered(batch)
          /\ batch.category = NextCategory /\ batch.job = 0 /\ (press.dry \/ batch.error)
  BY PlanAnswers DEF PrintInv
<1>2. /\ Working /\ press # NoLabel /\ jobs' = jobs /\ dialog' = dialog /\ openings' = openings
      /\ labels' = labels /\ presses' = presses /\ settings' = settings
  BY DEF PlanOne, Working
<1>3. /\ press' \in Requests /\ press' # NoLabel /\ InTurn(press'.batches)
      /\ press'.dry = press.dry /\ press'.opening = press.opening
      /\ press'.unsure = press.unsure /\ press'.heard = press.heard
      /\ \A i \in DOMAIN press'.batches :
             \/ i \in DOMAIN press.batches /\ press'.batches[i] = press.batches[i]
             \/ press'.batches[i] = batch
      /\ \A i \in DOMAIN press.batches :
             i \in DOMAIN press'.batches /\ press'.batches[i] = press.batches[i]
  BY <1>1, <1>2, NextInTurn
<1>4. PrintTypeOK'
  BY <1>2, <1>3 DEF PrintInv, PrintTypeOK, Printing
<1>5. PressOfTheDialog'
  BY <1>1, <1>2, <1>3 DEF PrintInv, PressOfTheDialog, Sent, Printing
<1>6. JobsOfThePress'
  BY <1>2, <1>3 DEF PrintInv, JobsOfThePress
<1>7. ButtonIsHonest'
  BY <1>2, <1>3 DEF PrintInv, ButtonIsHonest, Printing
<1>8. ShownIsTrue'
  BY <1>2 DEF PrintInv, ShownIsTrue, Sent, Printing
<1> QED
  BY <1>4, <1>5, <1>6, <1>7, <1>8 DEF PrintInv

(* The job that is made is of the category that is answered.               *)
LEMMA PrintKeeps == PrintInv /\ PrintOne => PrintInv'
<1> SUFFICES ASSUME PrintInv, PrintOne
             PROVE  PrintInv'
  OBVIOUS
<1>1. PICK batch \in Batches, job \in Jobs :
          /\ Answered(batch)
          /\ batch.category = NextCategory
          /\ job.category = NextCategory /\ job.opening = press.opening
          /\ press.chosen[NextCategory] \in {job.preset, NoLabel}
          /\ \/ jobs' = Append(jobs, job) /\ batch.job = Len(jobs) + 1
             \/ jobs' \in {jobs, Append(jobs, job)} /\ batch.error /\ batch.job = 0
  BY PrintAnswers DEF PrintInv
<1>2. /\ Working /\ press # NoLabel /\ ~ press.dry /\ dialog' = dialog /\ openings' = openings
      /\ labels' = labels /\ presses' = presses /\ settings' = settings
  BY DEF PrintOne, Working
<1>3. /\ press' \in Requests /\ press' # NoLabel /\ InTurn(press'.batches)
      /\ press'.dry = press.dry /\ press'.opening = press.opening
      /\ press'.unsure = press.unsure /\ press'.heard = press.heard
      /\ \A i \in DOMAIN press'.batches :
             \/ i \in DOMAIN press.batches /\ press'.batches[i] = press.batches[i]
             \/ press'.batches[i] = batch
      /\ \A i \in DOMAIN press.batches :
             i \in DOMAIN press'.batches /\ press'.batches[i] = press.batches[i]
      /\ \E i \in DOMAIN press'.batches : press'.batches[i] = batch
  BY <1>1, <1>2, NextInTurn
<1>4. /\ jobs \in Seq(Jobs) /\ jobs' \in Seq(Jobs)
      /\ \A j \in DOMAIN jobs : j \in DOMAIN jobs' /\ jobs'[j] = jobs[j]
      /\ \A j \in DOMAIN jobs' : j \in DOMAIN jobs \/ jobs'[j] = job
      /\ ~ (batch.error /\ batch.job = 0) => batch.job \in DOMAIN jobs' /\ jobs'[batch.job] = job
  <2>1. jobs \in Seq(Jobs)
    BY PrintTypes DEF PrintInv
  <2>2. /\ Append(jobs, job) \in Seq(Jobs)
        /\ Append(jobs, job)[Len(jobs) + 1] = job /\ Len(jobs) + 1 \in DOMAIN Append(jobs, job)
        /\ \A j \in DOMAIN jobs : j \in DOMAIN Append(jobs, job) /\ Append(jobs, job)[j] = jobs[j]
        /\ \A j \in DOMAIN Append(jobs, job) : j \in DOMAIN jobs \/ j = Len(jobs) + 1
    BY <2>1, Longer
  <2> QED
    BY <1>1, <2>1, <2>2
<1>5. PrintTypeOK'
  BY <1>2, <1>3, <1>4 DEF PrintInv, PrintTypeOK, Printing
<1>6. (press.opening <= openings /\ Sent(press.batches, press.opening))'
  <2>1. press.opening <= openings
    BY <1>2 DEF PrintInv, PressOfTheDialog
  <2>2. Sent(press.batches, press.opening)
    BY <1>2 DEF PrintInv, PressOfTheDialog
  <2> QED
    BY <1>1, <1>2, <1>3, <1>4, <2>1, <2>2 DEF Sent
<1>7. PressOfTheDialog'
  BY <1>2, <1>3, <1>6 DEF PrintInv, PressOfTheDialog, Printing
<1>8. JobsOfThePress'
  <2>1. \A j \in DOMAIN jobs' : jobs'[j].opening <= openings'
    BY <1>1, <1>2, <1>3, <1>4, <1>6 DEF PrintInv, JobsOfThePress
  <2>2. ASSUME NEW j \in DOMAIN jobs', jobs'[j].opening = press'.opening, ~ press'.unsure
        PROVE  \E i \in DOMAIN press'.batches : press'.batches[i].category = jobs'[j].category
    BY <1>1, <1>2, <1>3, <1>4, <2>2 DEF PrintInv, JobsOfThePress
  <2> QED
    BY <2>1, <2>2 DEF JobsOfThePress
<1>9. ButtonIsHonest'
  BY <1>2, <1>3 DEF ButtonIsHonest
<1>10. Printing => ~ dialog.confirmed
  BY <1>2 DEF PrintInv, PressOfTheDialog
<1>11. ShownIsTrue'
  <2>1. Printing =>
            /\ InTurn(dialog.batches)
            /\ \A i \in DOMAIN dialog.batches : dialog.batches[i].category \in Printed
            /\ \A c \in Printed : dialog.seen[c] = "nothing"
    <3>1. Printing => /\ InTurn(dialog.batches)
                      /\ \A c \in Printed : dialog.seen[c] = "nothing"
      BY <1>10 DEF PrintInv, ShownIsTrue
    <3>2. Printing => \A i \in DOMAIN dialog.batches : dialog.batches[i] \in Batches
      BY PrintTypes, ElementIn DEF PrintInv
    <3> QED
      BY <3>1, <3>2 DEF Batches
  <2> QED
    BY <1>2, <1>10, <2>1 DEF ShownIsTrue, Printing, Finished
<1> QED
  BY <1>5, <1>7, <1>8, <1>9, <1>11 DEF PrintInv

LEMMA FailsKeeps == PrintInv /\ PrintFails => PrintInv'
<1> SUFFICES ASSUME PrintInv, PrintFails
             PROVE  PrintInv'
  OBVIOUS
<1>1. /\ press # NoLabel /\ jobs' = jobs /\ dialog' = dialog /\ openings' = openings
      /\ labels' = labels /\ presses' = presses /\ settings' = settings
  BY DEF PrintFails, Working
<1>2. /\ press' \in Requests /\ press' # NoLabel
      /\ press'.batches = press.batches /\ press'.dry = press.dry
      /\ press'.opening = press.opening /\ press'.unsure = press.unsure
      /\ press'.heard = press.heard
  BY <1>1, PrintAssumption DEF PrintFails, PrintInv, PrintTypeOK, Requests
<1>3. PrintTypeOK'
  BY <1>1, <1>2 DEF PrintInv, PrintTypeOK, Printing
<1>4. PressOfTheDialog'
  BY <1>1, <1>2 DEF PrintInv, PressOfTheDialog, Sent, Printing
<1>5. JobsOfThePress' /\ ButtonIsHonest' /\ ShownIsTrue'
  BY <1>1, <1>2
  DEF PrintInv, JobsOfThePress, ButtonIsHonest, ShownIsTrue, Sent, Printing
<1> QED
  BY <1>3, <1>4, <1>5 DEF PrintInv

(* A whole answer takes the button away, if it was of a press.             *)
LEMMA AnswerKeeps == PrintInv /\ AnswerPress => PrintInv'
<1> SUFFICES ASSUME PrintInv, AnswerPress
             PROVE  PrintInv'
  OBVIOUS
<1>1. /\ press # NoLabel /\ press' = NoLabel /\ jobs' = jobs /\ openings' = openings
      /\ labels' = labels /\ presses' = presses /\ settings' = settings
  BY DEF AnswerPress, Whole
<1>2. press \in Requests /\ press.batches \in Seq(Batches) /\ InTurn(press.batches)
  BY <1>1, PrintTypes DEF PrintInv, PressOfTheDialog
<1>3. PressOfTheDialog' /\ JobsOfThePress'
  BY <1>1 DEF PrintInv, PressOfTheDialog, JobsOfThePress
<1>4. CASE ~ press.heard
  <2>1. ~ Printing /\ dialog' = dialog
    BY <1>1, <1>4 DEF PrintInv, PressOfTheDialog, AnswerPress
  <2> QED
    BY <1>1, <1>3, <2>1 DEF PrintInv, PrintTypeOK, ButtonIsHonest, ShownIsTrue, Printing
<1>5. CASE press.heard
  <2>1. Printing /\ ~ dialog.confirmed /\ press.opening = openings /\ dialog \in Dialogs
    BY <1>1, <1>5, PrintTypes DEF PrintInv, PressOfTheDialog
  <2>2. FirstChoice(press.batches) \in Choice
    <3>1. Len(press.batches) = Len(Order)
      BY DEF AnswerPress, Whole
    <3> QED
      BY <1>2, <3>1, OneTurn, FirstChoiceTyped
  <2>3. /\ dialog' \in Dialogs /\ dialog'.batches = press.batches
        /\ dialog'.confirmed = (~ press.dry) /\ dialog'.seen = dialog.seen
        /\ dialog'.unsure = dialog.unsure
    <3>1. dialog' = Heard
      BY <1>5 DEF AnswerPress
    <3>2. press.dry \in BOOLEAN /\ dialog.chosen \in Choice
      BY <1>2, <2>1 DEF Requests, Dialogs
    <3> QED
      BY <1>2, <2>1, <2>2, <3>1, <3>2 DEF Heard, Dialogs
  <2>4. Printing'
    BY <2>3, PrintAssumption DEF Printing
  <2>5. PrintTypeOK'
    BY <1>1, <2>3 DEF PrintInv, PrintTypeOK
  <2>6. ButtonIsHonest'
    BY <1>1, <2>1, <2>3 DEF PrintInv, ButtonIsHonest
  <2>7. ShownIsTrue'
    <3>1. \A c \in Printed : dialog'.seen[c] = "nothing"
      BY <2>1, <2>3 DEF PrintInv, ShownIsTrue
    <3>2. \A i \in DOMAIN press.batches : press.batches[i].category \in Printed
      <4>1. \A i \in DOMAIN press.batches : press.batches[i] \in Batches
        BY <1>2, ElementIn
      <4> QED
        BY <4>1 DEF Batches
    <3>3. ~ press.dry => Sent(press.batches, openings)
      BY <1>1, <2>1 DEF PrintInv, PressOfTheDialog
    <3>4. Len(press.batches) = Len(Order)
      BY DEF AnswerPress, Whole
    <3>5. ~ press.dry => Sent(dialog.batches, openings)'
      BY <1>1, <2>3, <3>3 DEF Sent
    <3> QED
      BY <1>2, <2>3, <3>1, <3>2, <3>4, <3>5 DEF ShownIsTrue, Finished
  <2> QED
    BY <1>3, <2>5, <2>6, <2>7 DEF PrintInv
<1> QED
  BY <1>4, <1>5

(* An answer that is lost is what the next press knows.                    *)
LEMMA LoseKeeps == PrintInv /\ LosePress => PrintInv'
<1> SUFFICES ASSUME PrintInv, LosePress
             PROVE  PrintInv'
  OBVIOUS
<1>1. /\ press # NoLabel /\ press' = NoLabel /\ jobs' = jobs /\ openings' = openings
      /\ labels' = labels /\ presses' = presses /\ settings' = settings
  BY DEF LosePress
<1>2. PressOfTheDialog' /\ JobsOfThePress'
  BY <1>1 DEF PrintInv, PressOfTheDialog, JobsOfThePress
<1>3. CASE ~ press.heard
  <2>1. ~ Printing /\ dialog' = dialog
    BY <1>1, <1>3 DEF PrintInv, PressOfTheDialog, LosePress
  <2> QED
    BY <1>1, <1>2, <2>1 DEF PrintInv, PrintTypeOK, ButtonIsHonest, ShownIsTrue, Printing
<1>4. CASE press.heard
  <2>1. /\ Printing /\ dialog \in Dialogs /\ press \in Requests
    BY <1>1, <1>4, PrintTypes DEF PrintInv, PressOfTheDialog
  <2>2. /\ dialog' \in Dialogs /\ dialog'.batches = dialog.batches
        /\ dialog'.confirmed = dialog.confirmed /\ dialog'.seen = dialog.seen
        /\ dialog'.unsure = (dialog.unsure \/ ~ press.dry)
    BY <1>4, <2>1 DEF LosePress, Dialogs, Requests
  <2>3. Printing'
    BY <2>2, PrintAssumption DEF Printing
  <2>4. PrintTypeOK'
    BY <1>1, <2>2 DEF PrintInv, PrintTypeOK
  <2>5. ButtonIsHonest'
    BY <1>1, <2>1, <2>2 DEF PrintInv, ButtonIsHonest
  <2>6. ShownIsTrue'
    BY <1>1, <2>1, <2>2 DEF PrintInv, ShownIsTrue, Sent
  <2> QED
    BY <1>2, <2>4, <2>5, <2>6 DEF PrintInv
<1> QED
  BY <1>3, <1>4

(* A poll shows what the job is by then.                                   *)
LEMMA PollKeeps == PrintInv /\ Poll => PrintInv'
<1> SUFFICES ASSUME PrintInv, Poll
             PROVE  PrintInv'
  OBVIOUS
<1>1. /\ jobs' = jobs /\ press' = press /\ openings' = openings
      /\ labels' = labels /\ presses' = presses /\ settings' = settings
  BY DEF Poll
<1>2. PICK i \in Shown :
          dialog' = [dialog EXCEPT !.seen[dialog.batches[i].category] =
                        jobs[dialog.batches[i].job].status]
  BY DEF Poll
<1>3. Printing /\ dialog.confirmed /\ i \in DOMAIN dialog.batches /\ dialog.batches[i].job # 0
  BY DEF Shown
<1>4. dialog \in Dialogs /\ dialog.batches \in Seq(Batches) /\ dialog.batches[i] \in Batches
  BY <1>3, PrintTypes, ElementIn DEF PrintInv
<1> DEFINE status == jobs[dialog.batches[i].job].status
           category == dialog.batches[i].category
<1>5. category \in Printed
  BY <1>4 DEF Batches
<1>6. /\ dialog'.batches = dialog.batches /\ dialog'.confirmed = dialog.confirmed
      /\ dialog'.unsure = dialog.unsure /\ dialog'.chosen = dialog.chosen
      /\ dialog'.seen = [dialog.seen EXCEPT ![category] = status]
  BY <1>2, <1>4 DEF Dialogs
<1>7. dialog.batches[i].job \in DOMAIN jobs /\ status \in {"nothing", "queued"} \cup Finished
  <2>1. dialog.batches[i].job \in DOMAIN jobs
    BY <1>3 DEF PrintInv, ShownIsTrue, Sent
  <2>2. jobs[dialog.batches[i].job] \in Jobs
    BY <2>1, PrintTypes, ElementIn DEF PrintInv
  <2> QED
    BY <2>1, <2>2 DEF Jobs
<1>8. dialog' \in Dialogs
  BY <1>2, <1>4, <1>5, <1>7 DEF Dialogs
<1>9. Printing'
  BY <1>8, PrintAssumption DEF Printing
<1>10. PrintTypeOK'
  BY <1>1, <1>8 DEF PrintInv, PrintTypeOK
<1>11. PressOfTheDialog' /\ JobsOfThePress' /\ ButtonIsHonest'
  BY <1>1, <1>3, <1>6, <1>9
  DEF PrintInv, PressOfTheDialog, JobsOfThePress, ButtonIsHonest, Sent
<1>12. ShownIsTrue'
  <2>1. InTurn(dialog.batches) /\ Len(dialog.batches) = Len(Order) /\ Sent(dialog.batches, openings)
    BY <1>3 DEF PrintInv, ShownIsTrue
  <2>2. ASSUME NEW j \in DOMAIN dialog.batches,
               dialog.batches[j].job # 0, dialog'.seen[dialog.batches[j].category] \in Finished
        PROVE  jobs[dialog.batches[j].job].status = dialog'.seen[dialog.batches[j].category]
    <3>1. dialog.seen \in [ Printed -> {"nothing", "queued"} \cup Finished ]
      BY <1>4 DEF Dialogs
    <3>2. CASE j = i
      BY <1>5, <1>6, <3>1, <3>2
    <3>3. CASE j # i
      <4>1. dialog.batches[j].category # category
        BY <1>3, <1>4, <2>1, <3>3, OneTurn
      <4>2. dialog'.seen[dialog.batches[j].category] = dialog.seen[dialog.batches[j].category]
        BY <1>6, <3>1, <4>1
      <4> QED
        BY <1>3, <2>2, <4>2 DEF PrintInv, ShownIsTrue
    <3> QED
      BY <3>2, <3>3
  <2>3. Sent(dialog.batches, openings)'
    BY <1>1, <1>6, <2>1 DEF Sent
  <2> QED
    BY <1>1, <1>3, <1>6, <2>1, <2>2, <2>3 DEF ShownIsTrue
<1> QED
  BY <1>10, <1>11, <1>12 DEF PrintInv

(* A job that has ended stays as it ended.                                 *)
LEMMA EndsKeeps == PrintInv /\ JobEnds => PrintInv'
<1> SUFFICES ASSUME PrintInv, JobEnds
             PROVE  PrintInv'
  OBVIOUS
<1>1. /\ dialog' = dialog /\ press' = press /\ openings' = openings
      /\ labels' = labels /\ presses' = presses /\ settings' = settings
  BY DEF JobEnds
<1>2. PICK job \in Nat, status \in Finished :
          /\ Printing /\ dialog.confirmed
          /\ jobs[job].status \notin Finished
          /\ jobs' = [jobs EXCEPT ![job].status = status]
  <2>1. PICK i \in Shown, status \in Finished :
            /\ jobs[dialog.batches[i].job].status \notin Finished
            /\ jobs' = [jobs EXCEPT ![dialog.batches[i].job].status = status]
    BY DEF JobEnds
  <2>2. Printing /\ dialog.confirmed /\ dialog.batches[i] \in Batches
    BY PrintTypes, ElementIn DEF PrintInv, Shown
  <2> QED
    BY <2>1, <2>2 DEF Batches
<1>3. jobs \in Seq(Jobs) /\ \A j \in DOMAIN jobs : jobs[j] \in Jobs
  BY PrintTypes, ElementIn DEF PrintInv
<1>4. /\ jobs' \in Seq(Jobs) /\ DOMAIN jobs' = DOMAIN jobs
      /\ \A j \in DOMAIN jobs :
             jobs'[j].category = jobs[j].category /\ jobs'[j].opening = jobs[j].opening
      /\ \A j \in DOMAIN jobs : j # job => jobs'[j] = jobs[j]
  <2>1. DOMAIN jobs' = DOMAIN jobs /\ \A j \in DOMAIN jobs : j # job => jobs'[j] = jobs[j]
    BY <1>2, <1>3
  <2>2. \A j \in DOMAIN jobs : jobs'[j] \in Jobs
    BY <1>2, <1>3 DEF Jobs
  <2>3. \A j \in DOMAIN jobs :
            jobs'[j].category = jobs[j].category /\ jobs'[j].opening = jobs[j].opening
    BY <1>2, <1>3 DEF Jobs
  <2>4. jobs' \in Seq(Jobs)
    <3>1. DOMAIN jobs = 1..Len(jobs) /\ Len(jobs) \in Nat
      BY <1>3
    <3>2. jobs' = [ j \in DOMAIN jobs |-> jobs'[j] ]
      BY <1>2, <2>1, Zenon
    <3>3. jobs' \in [ 1..Len(jobs) -> Jobs ]
      BY <2>2, <3>1, <3>2, Zenon
    <3> QED
      BY <3>1, <3>3
  <2> QED
    BY <2>1, <2>3, <2>4
<1>5. PrintTypeOK'
  BY <1>1, <1>4 DEF PrintInv, PrintTypeOK, Printing
<1>6. PressOfTheDialog' /\ JobsOfThePress' /\ ButtonIsHonest'
  BY <1>1, <1>4
  DEF PrintInv, PressOfTheDialog, JobsOfThePress, ButtonIsHonest, Sent, Printing
<1>7. ShownIsTrue'
  <2>1. /\ Sent(dialog.batches, openings)
        /\ \A i \in DOMAIN dialog.batches : dialog.batches[i].job # 0 =>
               dialog.batches[i].job \in DOMAIN jobs
    BY <1>2 DEF PrintInv, ShownIsTrue, Sent
  <2> QED
    BY <1>1, <1>2, <1>4, <2>1 DEF PrintInv, ShownIsTrue, Sent, Printing
<1> QED
  BY <1>5, <1>6, <1>7 DEF PrintInv

LEMMA RelabelKeeps == PrintInv /\ Relabel => PrintInv'
<1> SUFFICES ASSUME PrintInv, Relabel
             PROVE  PrintInv'
  OBVIOUS
<1>1. /\ dialog' = dialog /\ press' = press /\ openings' = openings /\ jobs' = jobs
      /\ presses' = presses
  BY DEF Relabel
<1>2. labels' \in [ Printed -> LabelLists ] /\ settings' \in 0..MaxSettings
  BY PrintAssumption DEF Relabel, PrintInv, PrintTypeOK
<1> QED
  BY <1>1, <1>2
  DEF PrintInv, PrintTypeOK, PressOfTheDialog, JobsOfThePress, ButtonIsHonest, ShownIsTrue, Sent,
      Printing

LEMMA PrintInvStep == PrintInv /\ [PrintNext]_printVars => PrintInv'
<1> SUFFICES ASSUME PrintInv, UNCHANGED printVars
             PROVE  PrintInv'
  BY OpenKeeps, CloseKeeps, ChooseLabelKeeps, SubmitKeeps, PlanKeeps, PrintKeeps, FailsKeeps,
     AnswerKeeps, LoseKeeps, PollKeeps, EndsKeeps, RelabelKeeps DEF PrintNext
<1> QED
  BY DEF printVars, PrintInv, PrintTypeOK, PressOfTheDialog, JobsOfThePress, ButtonIsHonest,
         ShownIsTrue, Sent, Printing

-----------------------------------------------------------------------------
(* What follows.                                                           *)

LEMMA PrintAlways == PrintSpec => []PrintInv
<1>1. PrintInv /\ [PrintNext]_printVars => PrintInv'
  BY PrintInvStep
<1> QED
  BY PrintInvInit, <1>1, PTL DEF PrintSpec

(* What is asked, answered, shown and queued is what it is declared as.    *)
THEOREM PrintStaysTyped == PrintSpec => []PrintTypeOK
<1>1. PrintInv => PrintTypeOK
  BY DEF PrintInv
<1> QED
  BY PrintAlways, <1>1, PTL

LEMMA DoneIsTrue == PrintInv => AllDoneIsTrue
<1> SUFFICES ASSUME PrintInv, AllDone, NEW c \in Printed
             PROVE  \E j \in DOMAIN jobs :
                        /\ jobs[j].category = c /\ jobs[j].opening = openings
                        /\ jobs[j].status \in Finished \ {"failed"}
  BY DEF AllDoneIsTrue
<1>1. Printing /\ dialog.confirmed /\ dialog.batches \in Seq(Batches)
  BY PrintTypes DEF PrintInv, AllDone, AllSettled
<1>2. PICK i \in DOMAIN dialog.batches : dialog.batches[i].category = c
  BY <1>1, OneTurn DEF PrintInv, ShownIsTrue
<1>3. /\ ~ dialog.batches[i].error /\ dialog.seen[c] # "failed"
      /\ dialog.batches[i].job # 0 => dialog.seen[c] \in Finished
  BY <1>2 DEF AllDone, AllSettled, AnyFailed
<1>4. /\ dialog.batches[i].job \in DOMAIN jobs
      /\ jobs[dialog.batches[i].job].category = c
      /\ jobs[dialog.batches[i].job].opening = openings
  BY <1>1, <1>2, <1>3 DEF PrintInv, ShownIsTrue, Sent
<1>5. dialog.batches[i].job # 0
  BY <1>4, PrintTypes DEF PrintInv
<1> QED
  BY <1>1, <1>2, <1>3, <1>4, <1>5 DEF PrintInv, ShownIsTrue

(* "All labels printed" is said when every category of the devices has a   *)
(* job of that dialog, ended and not failed, for any number of categories. *)
THEOREM AllDoneIsAlwaysTrue == PrintSpec => []AllDoneIsTrue
BY PrintAlways, DoneIsTrue, PTL

LEMMA PrintsExplained ==
    ASSUME PrintInv, [PrintNext]_printVars, NEW i \in DOMAIN jobs' \ DOMAIN jobs
    PROVE  /\ press.chosen[jobs'[i].category] \in {jobs'[i].preset, NoLabel}
           /\ \A j \in DOMAIN jobs :
                  jobs[j].category = jobs'[i].category /\ jobs[j].opening = jobs'[i].opening =>
                      press.unsure
<1>1. jobs \in Seq(Jobs)
  BY PrintTypes DEF PrintInv
<1>2. CASE PrintOne
  <2>1. PICK batch \in Batches, job \in Jobs :
            /\ job.category = NextCategory /\ job.opening = press.opening
            /\ press.chosen[NextCategory] \in {job.preset, NoLabel}
            /\ jobs' \in {jobs, Append(jobs, job)}
    BY <1>2, PrintAnswers DEF PrintInv
  <2>2. jobs'[i] = job
    BY <1>1, <2>1, Longer
  <2>3. /\ Working /\ press # NoLabel /\ ~ press.dry
        /\ Len(press.batches) \in Nat /\ Len(press.batches) + 1 \in DOMAIN Order
        /\ press.batches \in Seq(Batches)
    BY <1>2, TurnTyped, PrintTypes DEF PrintOne, Working, PrintInv
  <2>4. \A k \in DOMAIN press.batches : press.batches[k].category # NextCategory
    <3>1. \A a, b \in DOMAIN Order : Order[a] = Order[b] => a = b
      BY PrintAssumption DEF IsInjective
    <3>2. \A k \in DOMAIN press.batches : k \in Nat /\ k # Len(press.batches) + 1
      BY <2>3
    <3>3. InTurn(press.batches)
      BY <2>3 DEF PrintInv, PressOfTheDialog
    <3> QED
      BY <2>3, <3>1, <3>2, <3>3 DEF InTurn, NextCategory
  <2> QED
    BY <2>1, <2>2, <2>3, <2>4 DEF PrintInv, JobsOfThePress
<1>3. CASE JobEnds
  <2>1. DOMAIN jobs' = DOMAIN jobs
    BY <1>3 DEF JobEnds
  <2> QED
    BY <2>1
<1>4. CASE jobs' = jobs
  BY <1>4
<1> QED
  BY <1>2, <1>3, <1>4
  DEF PrintNext, printVars, OpenPrint, ClosePrint, ChooseLabel, Submit, PlanOne, PrintFails,
      AnswerPress, LosePress, Poll, Relabel

(* What is printed was shown when the button was pressed, and one dialog   *)
(* prints a category twice only after a press without a whole answer, for  *)
(* any labels and however often they change.                               *)
THEOREM PrintsAlwaysExplained == PrintSpec => PrintsAreExplained
<1>1. PrintInv /\ [PrintNext]_printVars =>
          [ \A i \in DOMAIN jobs' \ DOMAIN jobs :
                LET job == jobs'[i] IN
                /\ press.chosen[job.category] \in {job.preset, NoLabel}
                /\ \A j \in DOMAIN jobs :
                    jobs[j].category = job.category /\ jobs[j].opening = job.opening => press.unsure
          ]_printVars
  BY PrintsExplained
<1> QED
  BY PrintAlways, <1>1, PTL DEF PrintSpec, PrintsAreExplained

-----------------------------------------------------------------------------
(* Type correctness                                                        *)

LEMMA UploadTyped ==
    ASSUME ImportTypeOK, Importing
    PROVE  Upload \in Asking
BY DEF ImportTypeOK, Importing, Upload, Asking, Choosing, Pairs

LEMMA ReportedTyped ==
    ASSUME ImportTypeOK, Importing, NEW request \in Asking
    PROVE  Reported(request) \in Choosing
BY DEF ImportTypeOK, Importing, Reported, Choosing, Asking, Report

LEMMA ImportTypeInit == ImportInit => ImportTypeOK
BY ImportAssumption DEF ImportInit, ImportTypeOK, Importing, Choosing

LEMMA ImportTypeStep == ImportTypeOK /\ [ImportNext]_importVars => ImportTypeOK'
<1> SUFFICES ASSUME ImportTypeOK, [ImportNext]_importVars
             PROVE  ImportTypeOK'
  OBVIOUS
<1> USE ImportAssumption DEF ImportTypeOK, Importing
<1>1. CASE Choose
  <2>1. wizard' \in Choosing
    BY <1>1 DEF Choose, Unreported, Choosing
  <2>2. (preview' # Absent => preview' \in Asking) /\ (commit' # Absent => commit' \in Asking)
    BY <1>1 DEF Choose, Mixed, Asking
  <2> QED
    BY <1>1, <2>1, <2>2 DEF Choose
<1>2. CASE PressPreview
  BY <1>2, UploadTyped DEF PressPreview
<1>3. CASE PressCommit
  BY <1>3, UploadTyped DEF PressCommit
<1>4. CASE CloseImport
  BY <1>4 DEF CloseImport
<1>5. CASE ServerPreviews
  <2>1. preview' \in Asking
    BY <1>5 DEF ServerPreviews, Verdicts, Asking
  <2> QED
    BY <1>5, <2>1 DEF ServerPreviews
<1>6. CASE ServerCommits
  <2>1. commit' \in Asking
    BY <1>6 DEF ServerCommits, Verdicts, Asking
  <2>2. [ of |-> commit.of, choosing |-> commit.choosing ] \in [ of : Pairs, choosing : Nat ]
    BY <1>6 DEF ServerCommits, Asking
  <2>3. imported' \in Seq([ of : Pairs, choosing : Nat ])
    <3> DEFINE written == [ of |-> commit.of, choosing |-> commit.choosing ]
    <3>1. Append(imported, written) \in Seq([ of : Pairs, choosing : Nat ])
      BY <2>2
    <3> QED
      BY <1>6, <3>1 DEF ServerCommits
  <2> QED
    BY <1>6, <2>1, <2>3 DEF ServerCommits
<1>7. CASE PreviewAnswered
  <2>1. wizard' # Absent => wizard' \in Choosing
    BY <1>7, ReportedTyped DEF PreviewAnswered, Hears, Choosing
  <2> QED
    BY <1>7, <2>1 DEF PreviewAnswered
<1>8. CASE CommitAnswered
  <2>1. wizard' # Absent => wizard' \in Choosing
    BY <1>8, ReportedTyped DEF CommitAnswered, Hears, Emptied, Choosing
  <2> QED
    BY <1>8, <2>1 DEF CommitAnswered
<1>9. CASE CommitUnanswered
  <2>1. wizard' # Absent => wizard' \in Choosing
    BY <1>9 DEF CommitUnanswered, Hears, Choosing, Asking
  <2> QED
    BY <1>9, <2>1 DEF CommitUnanswered
<1>10. CASE UNCHANGED importVars
  BY <1>10 DEF importVars
<1> QED
  BY <1>1, <1>2, <1>3, <1>4, <1>5, <1>6, <1>7, <1>8, <1>9, <1>10 DEF ImportNext

(* What is chosen, asked, reported and written is what it is declared as.  *)
THEOREM ImportStaysTyped == ImportSpec => []ImportTypeOK
<1>1. ImportTypeOK /\ [ImportNext]_importVars => ImportTypeOK'
  BY ImportTypeStep
<1> QED
  BY ImportTypeInit, <1>1, PTL DEF ImportSpec

-----------------------------------------------------------------------------
(* Why a file is written as its report said, and once.                     *)

NoFile == wizard.file = Absent

(* A request is of what is chosen, until something else is: a commit that  *)
(* is heard takes the file, and nothing else that was chosen.              *)
OfTheChosen(request) ==
    request # Absent =>
        /\ request.choosing \in 0..choices
        /\ request.mixed => request.choosing < choices
        /\ Importing /\ ~ request.mixed =>
               request.of = <<wizard.category, wizard.file>> \/ NoFile

(* So is the report that is shown, and the one a commit was pressed on.    *)
Matches(report, of) == report.of = of \/ report.mixed \/ of[2] = Absent

ReportsMatch ==
    /\ Importing /\ wizard.report # Absent =>
           Matches(wizard.report, <<wizard.category, wizard.file>>)
    /\ commit # Absent => Matches(commit.report, commit.of)

Was(choosing) == \E i \in DOMAIN imported : imported[i].choosing = choosing

(* What was written as it is chosen now cannot be pressed again, unless a  *)
(* commit of it got no answer: its file is gone, or goes with the answer   *)
(* that is on its way.                                                     *)
WrittenOnce ==
    /\ \A i \in DOMAIN imported : imported[i].choosing <= choices
    /\ Importing /\ Was(choices) =>
           \/ wizard.unsure \/ NoFile
           \/ commit # Absent /\ commit.answer = "created" /\ ~ commit.mixed
    /\ commit # Absent /\ commit.answer = Absent /\ Was(commit.choosing) =>
           commit.unsure \/ commit.of[2] = Absent

ImportInv ==
    ImportTypeOK /\ OfTheChosen(preview) /\ OfTheChosen(commit) /\ ReportsMatch /\ WrittenOnce

LEMMA ImportInvInit == ImportInit => ImportInv
BY ImportTypeInit
DEF ImportInit, ImportInv, OfTheChosen, ReportsMatch, WrittenOnce, Was, Importing

LEMMA ChosenTyped ==
    ASSUME ImportTypeOK
    PROVE  /\ choices \in Nat
           /\ preview # Absent => preview.choosing \in Nat /\ preview.mixed \in BOOLEAN
           /\ commit # Absent => commit.choosing \in Nat /\ commit.mixed \in BOOLEAN
BY ImportAssumption DEF ImportTypeOK, Asking

LEMMA ElementTyped ==
    ASSUME NEW S, NEW seq \in Seq(S), NEW i \in DOMAIN seq
    PROVE  seq[i] \in S
OBVIOUS

(* Choosing forgets the report, and what is under way is of another        *)
(* choice.                                                                 *)
LEMMA ChooseKeeps == ImportInv /\ Choose => ImportInv'
<1> SUFFICES ASSUME ImportInv, Choose
             PROVE  OfTheChosen(preview)' /\ OfTheChosen(commit)' /\ ReportsMatch' /\ WrittenOnce'
  BY ImportTypeStep DEF ImportInv, ImportNext
<1>1. /\ choices' = choices + 1 /\ imported' = imported
      /\ wizard'.report = Absent
      /\ preview' = Mixed(preview) /\ commit' = Mixed(commit)
  BY DEF Choose, Unreported, ImportInv, ImportTypeOK, Importing, Choosing
<1>2. /\ preview' # Absent => /\ preview # Absent
                              /\ preview'.mixed /\ preview'.choosing = preview.choosing
      /\ commit' # Absent => /\ commit # Absent
                             /\ commit'.mixed /\ commit'.choosing = commit.choosing
                             /\ commit'.of = commit.of /\ commit'.report = commit.report
                             /\ commit'.answer = commit.answer /\ commit'.unsure = commit.unsure
  BY <1>1 DEF Mixed, ImportInv, ImportTypeOK, Asking
<1>3. OfTheChosen(preview)' /\ OfTheChosen(commit)'
  BY <1>1, <1>2, ChosenTyped DEF OfTheChosen, ImportInv
<1>4. ReportsMatch'
  BY <1>1, <1>2 DEF ReportsMatch, Matches, ImportInv
<1>5. \A i \in DOMAIN imported : imported[i].choosing \in Nat /\ imported[i].choosing <= choices
  <2>1. ASSUME NEW i \in DOMAIN imported
        PROVE  imported[i] \in [ of : Pairs, choosing : Nat ]
    <3>1. imported \in Seq([ of : Pairs, choosing : Nat ])
      BY DEF ImportInv, ImportTypeOK
    <3> QED
      BY <3>1, ElementTyped
  <2> QED
    BY <2>1 DEF ImportInv, WrittenOnce
<1>6. ~ Was(choices)'
  BY <1>1, <1>5, ChosenTyped DEF Was, ImportInv
<1>7. WrittenOnce'
  BY <1>1, <1>2, <1>5, <1>6, ChosenTyped DEF WrittenOnce, Was, ImportInv
<1> QED
  BY <1>3, <1>4, <1>7

(* A request is of what is chosen when its button is pressed.              *)
LEMMA PressKeeps == ImportInv /\ (PressPreview \/ PressCommit) => ImportInv'
<1> SUFFICES ASSUME ImportInv, PressPreview \/ PressCommit
             PROVE  OfTheChosen(preview)' /\ OfTheChosen(commit)' /\ ReportsMatch' /\ WrittenOnce'
  BY ImportTypeStep DEF ImportInv, ImportNext
<1>1. Importing /\ Importing' /\ wizard' = wizard /\ choices' = choices /\ imported' = imported
  BY DEF PressPreview, PressCommit, Importing
<1>2. /\ Upload.of = <<wizard.category, wizard.file>> /\ Upload.choosing = choices
      /\ Upload.report = wizard.report /\ Upload.unsure = wizard.unsure
      /\ Upload.mixed = FALSE /\ Upload.answer = Absent
  BY DEF Upload
<1>3. CASE PressPreview
  <2>1. preview' = Upload /\ commit' = commit
    BY <1>3 DEF PressPreview
  <2> QED
    BY <1>1, <1>2, <2>1, ChosenTyped
    DEF ImportInv, OfTheChosen, ReportsMatch, Matches, WrittenOnce, Was, Importing, NoFile
<1>4. CASE PressCommit
  <2>1. commit' = Upload /\ preview' = preview /\ commit = Absent /\ wizard.report # Absent
    BY <1>4 DEF PressCommit, CanCommit
  <2>2. Was(choices) => wizard.unsure \/ NoFile
    BY <1>1, <2>1 DEF ImportInv, WrittenOnce
  <2>3. OfTheChosen(preview)' /\ OfTheChosen(commit)'
    BY <1>1, <1>2, <2>1, ChosenTyped DEF ImportInv, OfTheChosen, Importing, NoFile
  <2>4. ReportsMatch'
    BY <1>1, <1>2, <2>1 DEF ImportInv, ReportsMatch, Matches, Importing
  <2>5. WrittenOnce'
    BY <1>1, <1>2, <2>1, <2>2 DEF ImportInv, WrittenOnce, Was, Importing, NoFile
  <2> QED
    BY <2>3, <2>4, <2>5
<1> QED
  BY <1>3, <1>4

(* What is written is of the choice its commit was pressed on.             *)
LEMMA ServerKeeps == ImportInv /\ (ServerPreviews \/ ServerCommits) => ImportInv'
<1> SUFFICES ASSUME ImportInv, ServerPreviews \/ ServerCommits
             PROVE  OfTheChosen(preview)' /\ OfTheChosen(commit)' /\ ReportsMatch' /\ WrittenOnce'
  BY ImportTypeStep DEF ImportInv, ImportNext
<1>1. wizard' = wizard /\ choices' = choices
  BY DEF ServerPreviews, ServerCommits
<1>2. CASE ServerPreviews
  <2>1. /\ preview # Absent /\ commit' = commit /\ imported' = imported
        /\ preview'.of = preview.of /\ preview'.choosing = preview.choosing
        /\ preview'.mixed = preview.mixed
    BY <1>2 DEF ServerPreviews, ImportInv, ImportTypeOK, Asking
  <2> QED
    BY <1>1, <2>1 DEF ImportInv, OfTheChosen, ReportsMatch, Matches, WrittenOnce, Was, Importing, NoFile
<1>3. CASE ServerCommits
  <2>1. /\ commit # Absent /\ commit.answer = Absent /\ preview' = preview
        /\ commit'.of = commit.of /\ commit'.choosing = commit.choosing
        /\ commit'.mixed = commit.mixed /\ commit'.report = commit.report
        /\ commit'.answer # Absent
    BY <1>3, ImportAssumption
    DEF ServerCommits, Verdicts, ImportInv, ImportTypeOK, Asking
  <2>2. OfTheChosen(preview)' /\ OfTheChosen(commit)' /\ ReportsMatch'
    BY <1>1, <2>1 DEF ImportInv, OfTheChosen, ReportsMatch, Matches, Importing, NoFile
  <2>3. Importing /\ Was(choices) => wizard.unsure \/ NoFile
    BY <2>1, ImportAssumption DEF ImportInv, WrittenOnce
  <2>4. CASE imported' = imported
    BY <1>1, <2>1, <2>2, <2>4, <2>3 DEF ImportInv, WrittenOnce, Was, Importing, NoFile
  <2>5. CASE /\ imported' = Append(imported, [ of |-> commit.of, choosing |-> commit.choosing ])
             /\ commit'.answer = "created"
    <3>1. \A i \in DOMAIN imported' :
              \/ i \in DOMAIN imported /\ imported'[i] = imported[i]
              \/ imported'[i].choosing = commit.choosing
      BY <2>5 DEF ImportInv, ImportTypeOK
    <3>2. commit.choosing \in Nat /\ commit.choosing <= choices
      BY <2>1, ChosenTyped DEF ImportInv, OfTheChosen
    <3>3. commit.choosing = choices => ~ commit.mixed
      BY <2>1, <3>2, ChosenTyped DEF ImportInv, OfTheChosen
    <3>4. Was(choices)' => Was(choices) \/ commit.choosing = choices
      BY <1>1, <3>1 DEF Was
    <3>5. (\A i \in DOMAIN imported : imported[i].choosing <= choices)'
      BY <1>1, <3>1, <3>2 DEF ImportInv, WrittenOnce
    <3>6. commit' # Absent /\ commit'.answer = "created" /\ commit'.mixed = commit.mixed
      <4>1. commit' \in Asking
        BY <1>3, <2>1, ImportTypeStep
        DEF ServerCommits, ImportInv, ImportTypeOK, Asking, Verdicts
      <4> QED
        BY <2>1, <2>5, <4>1, ImportAssumption
    <3> QED
      BY <1>1, <2>1, <2>2, <2>3, <3>3, <3>4, <3>5, <3>6 DEF WrittenOnce, Importing, NoFile
  <2>6. \/ imported' = imported
        \/ /\ imported' = Append(imported, [ of |-> commit.of, choosing |-> commit.choosing ])
           /\ commit'.answer = "created"
    BY <1>3 DEF ServerCommits, ImportInv, ImportTypeOK, Asking
  <2> QED
    BY <2>2, <2>4, <2>5, <2>6
<1> QED
  BY <1>2, <1>3

(* An answer shows a report of what was sent, or empties the dialog.       *)
LEMMA AnswersKeep ==
    ImportInv /\ (PreviewAnswered \/ CommitAnswered \/ CommitUnanswered) => ImportInv'
<1> SUFFICES ASSUME ImportInv, PreviewAnswered \/ CommitAnswered \/ CommitUnanswered
             PROVE  OfTheChosen(preview)' /\ OfTheChosen(commit)' /\ ReportsMatch' /\ WrittenOnce'
  BY ImportTypeStep DEF ImportInv, ImportNext
<1>1. choices' = choices /\ imported' = imported
  BY DEF PreviewAnswered, CommitAnswered, CommitUnanswered
<1>2. ~ Importing => wizard' = wizard
  BY DEF PreviewAnswered, CommitAnswered, CommitUnanswered, Hears
<1>3. ASSUME NEW request, request # Absent, request \in Asking, OfTheChosen(request), Importing,
             wizard' = Reported(request)
      PROVE  /\ wizard'.category = wizard.category /\ wizard'.file = wizard.file
             /\ wizard'.unsure = wizard.unsure
             /\ Matches(wizard'.report, <<wizard'.category, wizard'.file>>)
  BY <1>3 DEF Reported, OfTheChosen, Matches, NoFile, ImportInv, ImportTypeOK, Importing, Choosing
<1>4. CASE PreviewAnswered
  <2>1. preview # Absent /\ preview \in Asking /\ preview' = Absent /\ commit' = commit
    BY <1>4 DEF PreviewAnswered, ImportInv, ImportTypeOK
  <2>2. Importing =>
            /\ wizard'.category = wizard.category /\ wizard'.file = wizard.file
            /\ wizard'.unsure = wizard.unsure
            /\ wizard'.report # Absent =>
                   Matches(wizard'.report, <<wizard'.category, wizard'.file>>)
    BY <1>3, <1>4, <2>1
    DEF PreviewAnswered, Hears, ImportInv, ImportTypeOK, Importing, Choosing
  <2> QED
    BY <1>1, <1>2, <2>1, <2>2
    DEF ImportInv, OfTheChosen, ReportsMatch, WrittenOnce, Was, Importing, NoFile
<1>5. CASE CommitAnswered
  <2>1. commit # Absent /\ commit \in Asking /\ commit' = Absent /\ preview' = preview
    BY <1>5 DEF CommitAnswered, ImportInv, ImportTypeOK
  <2>2. CASE commit.answer = "created"
    <3>1. Importing => /\ wizard'.report = Absent /\ wizard'.file = Absent
                       /\ wizard'.category = wizard.category
      BY <1>5, <2>2 DEF CommitAnswered, Hears, Emptied, ImportInv, ImportTypeOK, Importing, Choosing
    <3> QED
      BY <1>1, <1>2, <2>1, <3>1
      DEF ImportInv, OfTheChosen, ReportsMatch, WrittenOnce, Was, Importing, NoFile
  <2>3. CASE commit.answer # "created"
    <3>1. Importing =>
              /\ wizard'.category = wizard.category /\ wizard'.file = wizard.file
              /\ wizard'.unsure = wizard.unsure
              /\ wizard'.report # Absent =>
                     Matches(wizard'.report, <<wizard'.category, wizard'.file>>)
      <4>1. wizard' = wizard \/ (Importing /\ wizard' = Reported(commit))
        BY <1>5, <2>3 DEF CommitAnswered, Hears
      <4> QED
        BY <1>3, <2>1, <4>1 DEF ImportInv, ReportsMatch
    <3>2. ~ Importing => wizard' = wizard
      BY <1>2
    <3> QED
      BY <1>1, <2>1, <2>3, <3>1, <3>2
      DEF ImportInv, OfTheChosen, ReportsMatch, WrittenOnce, Was, Importing, NoFile
  <2> QED
    BY <2>2, <2>3
<1>6. CASE CommitUnanswered
  <2>1. commit # Absent /\ commit \in Asking /\ commit' = Absent /\ preview' = preview
    BY <1>6 DEF CommitUnanswered, ImportInv, ImportTypeOK
  <2>2. Importing =>
            /\ wizard'.category = wizard.category /\ wizard'.file = wizard.file
            /\ wizard'.report = wizard.report
            /\ wizard'.unsure = (~ commit.mixed \/ wizard.unsure)
    BY <1>6 DEF CommitUnanswered, Hears, ImportInv, ImportTypeOK, Importing, Choosing
  <2> QED
    BY <1>1, <1>2, <2>1, <2>2
    DEF ImportInv, OfTheChosen, ReportsMatch, Matches, WrittenOnce, Was, Importing, NoFile
<1> QED
  BY <1>4, <1>5, <1>6

LEMMA ImportInvStep == ImportInv /\ [ImportNext]_importVars => ImportInv'
<1> SUFFICES ASSUME ImportInv, [ImportNext]_importVars
             PROVE  ImportInv'
  OBVIOUS
<1>1. CASE CloseImport
  <2>1. ~ Importing'
    BY <1>1 DEF CloseImport, Importing
  <2>2. ImportTypeOK'
    BY ImportTypeStep DEF ImportInv
  <2> QED
    BY <1>1, <2>1, <2>2
    DEF CloseImport, ImportInv, OfTheChosen, ReportsMatch, WrittenOnce, Was
<1>2. CASE UNCHANGED importVars
  BY <1>2 DEF importVars, ImportInv, ImportTypeOK, OfTheChosen, ReportsMatch, WrittenOnce, Was,
              Importing, NoFile
<1> QED
  BY <1>1, <1>2, ChooseKeeps, PressKeeps, ServerKeeps, AnswersKeep DEF ImportNext

LEMMA ImportsExplained ==
    ImportInv /\ [ImportNext]_importVars =>
        (imported' # imported =>
            /\ commit.report.of = commit.of \/ commit.report.mixed
            /\ \A i \in DOMAIN imported :
                imported[i].choosing = commit.choosing => commit.unsure)
<1> SUFFICES ASSUME ImportInv, ServerCommits, imported' # imported
             PROVE  /\ commit.report.of = commit.of \/ commit.report.mixed
                    /\ \A i \in DOMAIN imported :
                        imported[i].choosing = commit.choosing => commit.unsure
  BY DEF ImportNext, importVars, Choose, PressPreview, PressCommit, CloseImport, ServerPreviews,
         PreviewAnswered, CommitAnswered, CommitUnanswered
<1>1. commit # Absent /\ commit.answer = Absent
  BY DEF ServerCommits
<1>2. commit.of[2] # Absent
  BY DEF ServerCommits, Verdicts, Readable
<1> QED
  BY <1>1, <1>2 DEF ImportInv, ReportsMatch, Matches, WrittenOnce, Was

(* For any number of choices, uploads and lost answers: what is imported   *)
(* is what its report was of, unless something was chosen while that       *)
(* report was on its way, and twice only after a commit without answer.    *)
THEOREM ImportsAlwaysExplained == ImportSpec => ImportsAreExplained
<1>1. ImportInv /\ [ImportNext]_importVars => ImportInv'
  BY ImportInvStep
<1>2. ImportSpec => []ImportInv
  BY ImportInvInit, <1>1, PTL DEF ImportSpec
<1>3. ImportInv /\ [ImportNext]_importVars =>
          [ imported' # imported =>
                /\ commit.report.of = commit.of \/ commit.report.mixed
                /\ \A i \in DOMAIN imported :
                    imported[i].choosing = commit.choosing => commit.unsure ]_importVars
  BY ImportsExplained
<1> QED
  BY <1>2, <1>3, PTL DEF ImportSpec, ImportsAreExplained

-----------------------------------------------------------------------------
(* The console                                                             *)

(* A step of the console is a step of the page that is open and of no      *)
(* other, so whatever holds of a page by itself holds of it in the console *)
(* (web/src/routes/router.tsx).                                            *)
THEOREM ConsoleIsItsPages ==
    ConsoleSpec => ListSpec /\ FormSpec /\ AccountsSpec /\ PrintSpec /\ ImportSpec
<1>1. ConsoleInit => ListInit /\ FormInit /\ AccountsInit /\ PrintInit /\ ImportInit
  BY DEF ConsoleInit
<1>2. ASSUME [ConsoleNext]_consoleVars
      PROVE  /\ [ListNext]_listVars /\ [FormNext]_formVars /\ [AccountsNext]_accountsVars
             /\ [PrintNext]_printVars /\ [ImportNext]_importVars
  BY <1>2 DEF ConsoleNext, consoleVars, OnList, OnDevice, OnRoles, OnPrint, OnImport
<1> QED
  BY <1>1, <1>2, PTL DEF ConsoleSpec, ListSpec, FormSpec, AccountsSpec, PrintSpec, ImportSpec

(* What each page and dialog holds is what it is declared as, whichever is *)
(* open (web/src/routes).                                                  *)
THEOREM ConsoleStaysTyped == ConsoleSpec => []ConsoleTypeOK
BY ConsoleIsItsPages, ListStaysTyped, FormStaysTyped, AccountsStayTyped, PrintStaysTyped,
   ImportStaysTyped, PTL DEF ConsoleTypeOK

(* Of the console as it is checked: there is always an administrator, the  *)
(* role of every account is there, all labels are printed when the banner  *)
(* says so, the list deletes what was counted, selects all that matches    *)
(* and comes back as it was left, no edit overwrites what was not seen,    *)
(* and every switch, print and import is explained (web/src/routes,        *)
(* web/src/features, internal/auth).                                       *)
THEOREM ConsoleKeepsItsPromises ==
    ConsoleSpec => /\ [](AdminRemains /\ RolesStayWhileUsed /\ AllDoneIsTrue)
                   /\ CountIsHonest
                   /\ QuietWalksTakeAll
                   /\ FiltersComeBack
                   /\ NothingUnseenIsOverwritten
                   /\ SwitchesAreExplained
                   /\ PrintsAreExplained
                   /\ ImportsAreExplained
BY ConsoleIsItsPages, AdminAlwaysRemains, RolesAlwaysStay, AllDoneIsAlwaysTrue,
   CountIsAlwaysHonest, QuietWalksAlwaysTakeAll, FiltersAlwaysComeBack,
   NothingUnseenIsEverOverwritten, SwitchesAlwaysExplained, PrintsAlwaysExplained,
   ImportsAlwaysExplained, PTL
=============================================================================
