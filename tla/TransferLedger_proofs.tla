----------------------- MODULE TransferLedger_proofs -----------------------
(***************************************************************************)
(* Theorems about the transfer ledger, for any number of assets, handlers, *)
(* forms, statuses and holders, and any bounds.                            *)
(***************************************************************************)
EXTENDS TransferLedger, TLAPS

-----------------------------------------------------------------------------
(* What the helpers return.                                                *)

(* A change is always labelled with one of the kinds of the schema.        *)
LEMMA DerivedKind ==
    ASSUME NEW from, NEW to
    PROVE  DeriveTransferKind(from, to) \in Kinds
BY DEF DeriveTransferKind, Kinds

(* An event is built from the states it joins and nothing else.            *)
LEMMA NewEventTyped ==
    ASSUME NEW batch \in Batches \cup {NoBatch}, NEW from \in State \cup {NoState},
           NEW to \in State, NEW now \in Nat
    PROVE  /\ NewEvent(batch, from, to, now) \in Event
           /\ NewEvent(batch, from, to, now).from = from
           /\ NewEvent(batch, from, to, now).to = to
           /\ NewEvent(batch, from, to, now).at = now
BY DerivedKind DEF NewEvent, Event

(* Wherever a transfer sends an asset is a state an asset can be in: a     *)
(* check-in with neither a home nor a default stock point has no           *)
(* destination at all.                                                     *)
LEMMA DestinationTyped ==
    ASSUME NEW req \in Request, NEW row \in Row, NEW fallback \in Holders \cup {NoHolder},
           HasDestination(req, row, fallback)
    PROVE  Destination(req, row, fallback) \in State
<1>1. /\ req.status \in StatusKeys \cup {Keep} /\ req.holder \in Holders \cup {Keep}
      /\ req.owner \in Users \cup {Keep}
  BY DEF Request
<1>2. row.st.status \in StatusKeys /\ row.st.holder \in Holders /\ row.st.owner \in Users
  BY DEF Row, State
<1>3. row.home \in Holders \cup {NoHolder} /\ row.homeOwner \in Users \cup {NoUser}
  BY DEF Row
<1>4. GoesHome(req) => ReturnPoint(row, fallback) \in Holders
  BY <1>3 DEF HasDestination, ReturnPoint
<1> QED
  BY <1>1, <1>2, <1>3, <1>4 DEF Destination, State, Pick

(* A correction of a state is a state.                                     *)
LEMMA CorrectedTyped ==
    ASSUME NEW to \in State, NEW fix \in Correction
    PROVE  Corrected(to, fix) \in State
BY DEF Corrected, Correction, State, Pick

(* A corrected event keeps its type and where it started.                  *)
LEMMA CorrectedEventTyped ==
    ASSUME NEW e \in Event, NEW to \in State
    PROVE  /\ CorrectedEvent(e, to) \in Event
           /\ CorrectedEvent(e, to).from = e.from
           /\ CorrectedEvent(e, to).to = to
           /\ CorrectedEvent(e, to).at = e.at
BY DEF CorrectedEvent, Event

(* Restating a row moves it to the new state and to the next version.      *)
LEMMA RestatedTyped ==
    ASSUME NEW row \in Row, NEW to \in State
    PROVE  /\ Restated(row, to) \in Row
           /\ Restated(row, to).st = to
           /\ Restated(row, to).version = row.version + 1
<1>1. row.version \in Nat /\ row.version + 1 \in Nat \ {0}
  BY DEF Row
<1> DEFINE new == [row EXCEPT !.st = to, !.version = row.version + 1]
<1>2. new \in Row
  BY <1>1 DEF Row
<1>3. new.st = to /\ new.version = row.version + 1
  BY DEF Row
<1> QED
  BY <1>2, <1>3 DEF Restated

(* A live asset has a row, and a row is not a state of being nobody's.     *)
LEMMA LiveRow ==
    ASSUME LedgerTypeOK, NEW a \in Live
    PROVE  a \in Assets /\ assets[a] \in Row /\ assets[a].st \in State /\ assets[a].st # NoState
BY NoStateAssumption DEF LedgerTypeOK, Live, Row

(* A new row is a row where the asset was brought in.                      *)
LEMMA NewRowTyped ==
    ASSUME NEW to \in State, NEW home \in Holders \cup {Keep}, NEW homeOwner \in Users \cup {Keep}
    PROVE  /\ NewRow(to, home, homeOwner) \in Row
           /\ NewRow(to, home, homeOwner).st = to
BY DEF NewRow, Row, State, Pick

-----------------------------------------------------------------------------
(* What the steps do to the ledger.  Every step that moves assets does so  *)
(* in one of three ways.                                                   *)

(* Some live assets each get one more event, from where they are to where  *)
(* their row now says, along a transition the status table admits.         *)
Appending(M, row, event) ==
    /\ M \subseteq Live
    /\ row \in [M -> Row] /\ event \in [M -> Event]
    /\ \A a \in M :
          /\ event[a].from = assets[a].st /\ event[a].to = row[a].st
          /\ row[a].st # assets[a].st
          /\ row[a].version = assets[a].version + 1
          /\ ValidTransition(statuses, event[a].from.status, event[a].to.status)
    /\ assets' = [a \in Assets |-> IF a \in M THEN row[a] ELSE assets[a]]
    /\ timeline' = [a \in Assets |->
          IF a \in M THEN Append(timeline[a], event[a]) ELSE timeline[a]]
    /\ clock' \in Nat

(* Some asset ids that were never used get a row and a create event.       *)
Entering(S, row, event) ==
    /\ S \subseteq Assets
    /\ row \in [S -> Row] /\ event \in [S -> Event]
    /\ \A a \in S : /\ assets[a] = Unborn
                    /\ event[a].from = NoState /\ event[a].to = row[a].st
    /\ assets' = [a \in Assets |-> IF a \in S THEN row[a] ELSE assets[a]]
    /\ timeline' = [a \in Assets |-> IF a \in S THEN <<event[a]>> ELSE timeline[a]]
    /\ clock' \in Nat

(* A save that moves nothing rewrites the row of one asset.                *)
Rewriting(a, row) ==
    /\ a \in Live
    /\ row \in Row /\ row.st = assets[a].st /\ row.version = assets[a].version + 1
    /\ assets' = [assets EXCEPT ![a] = row]
    /\ timeline' = timeline
    /\ clock' \in Nat

(* A transfer appends to the assets it moves, from where the transaction   *)
(* finds them - not from where they were when the request was composed.    *)
LEMMA ApplyCommitAppends ==
    ASSUME TypeOK, NEW w \in Workers, ApplyCommit(w)
    PROVE  \E row, event : Appending(Moved(applying[w]), row, event)
<1> DEFINE p == applying[w]
           M == Moved(p)
           dest(a) == Destination(p.req, assets[a], p.fallback)
<1>1. /\ p \in Prepared /\ p.req \in Request /\ p.fallback \in Holders \cup {NoHolder}
      /\ p.batch \in Batches \cup {NoBatch} /\ p.at \in Nat
  BY DEF ApplyCommit, TypeOK, RequestTypeOK, Prepared
<1>2. \A a \in M : /\ a \in Live /\ dest(a) \in State /\ dest(a) # assets[a].st
                   /\ assets[a] \in Row /\ assets[a].st \in State
                   /\ ValidTransition(statuses, assets[a].st.status, dest(a).status)
  <2> TAKE a \in M
  <2>1. Movable(p, a)
    BY DEF ApplyCommit, Moved
  <2>2. a \in Live /\ assets[a] \in Row /\ HasDestination(p.req, assets[a], p.fallback)
    BY <2>1, LiveRow DEF Movable, TypeOK
  <2>3. dest(a) \in State
    BY <2>2, <1>1, DestinationTyped
  <2>4. dest(a) # assets[a].st
    BY DEF Moved, EmitsEvent
  <2> QED
    BY <2>1, <2>2, <2>3, <2>4, LiveRow DEF Movable, TypeOK
<1> DEFINE row == [a \in M |-> Restated(assets[a], dest(a))]
           event == [a \in M |-> NewEvent(p.batch, assets[a].st, dest(a), p.at)]
<1>3. /\ row \in [M -> Row]
      /\ \A a \in M : row[a].st = dest(a) /\ row[a].version = assets[a].version + 1
  <2> HIDE DEF dest, M
  <2> QED
    BY <1>2, RestatedTyped
<1>4. /\ event \in [M -> Event]
      /\ \A a \in M : event[a].from = assets[a].st /\ event[a].to = dest(a)
  <2>1. ASSUME NEW a \in M
        PROVE  /\ NewEvent(p.batch, assets[a].st, dest(a), p.at) \in Event
               /\ NewEvent(p.batch, assets[a].st, dest(a), p.at).from = assets[a].st
               /\ NewEvent(p.batch, assets[a].st, dest(a), p.at).to = dest(a)
    <3> HIDE DEF dest, M, p
    <3> QED
      BY <1>1, <1>2, DerivedKind DEF NewEvent, Event
  <2> HIDE DEF dest, M, p
  <2> QED
    BY <2>1
<1>5. /\ assets' = [a \in Assets |-> IF a \in M THEN row[a] ELSE assets[a]]
      /\ timeline' = [a \in Assets |->
            IF a \in M THEN Append(timeline[a], event[a]) ELSE timeline[a]]
      /\ clock' \in Nat
  BY DEF ApplyCommit, TypeOK, LedgerTypeOK
<1> HIDE DEF row, event, dest, M
<1>6. Appending(M, row, event)
  BY <1>2, <1>3, <1>4, <1>5 DEF Appending
<1> QED
  BY <1>6 DEF M

LEMMA CreateEnters ==
    ASSUME TypeOK, NEW a \in Assets, Create(a)
    PROVE  \E row, event : Entering({a}, row, event)
<1>1. PICK to \in EntryStates, home \in HomeInputs \ {Clear}, homeOwner \in HomeOwnerInputs,
          now \in 0 .. MaxClock :
             /\ assets[a] = Unborn
             /\ ReadClock(now)
             /\ assets' = [assets EXCEPT ![a] = NewRow(to, home, homeOwner)]
             /\ timeline' = [timeline EXCEPT ![a] = <<NewEvent(NoBatch, NoState, to, now)>>]
  BY DEF Create
<1> DEFINE r == NewRow(to, home, homeOwner)
           e == NewEvent(NoBatch, NoState, to, now)
<1>2. to \in State /\ home \in Holders \cup {Keep} /\ homeOwner \in Users \cup {Keep}
      /\ now \in Nat
  BY InputsAssumption, MarkersAssumption
<1>3. r \in Row /\ r.st = to
  BY <1>2, NewRowTyped
<1>4. e \in Event /\ e.from = NoState /\ e.to = to
  BY <1>2, DerivedKind DEF NewEvent, Event
<1>5. /\ assets' = [assets EXCEPT ![a] = r] /\ timeline' = [timeline EXCEPT ![a] = <<e>>]
      /\ clock' \in Nat /\ assets[a] = Unborn
  BY <1>1, <1>2 DEF ReadClock
<1> HIDE DEF r, e
<1> DEFINE row == [b \in {a} |-> r]
           event == [b \in {a} |-> e]
<1>6. row \in [{a} -> Row] /\ event \in [{a} -> Event]
  BY <1>3, <1>4
<1>7. \A b \in {a} : assets[b] = Unborn /\ event[b].from = NoState /\ event[b].to = row[b].st
  BY <1>3, <1>4, <1>5
<1>8. /\ assets' = [b \in Assets |-> IF b \in {a} THEN row[b] ELSE assets[b]]
      /\ timeline' = [b \in Assets |-> IF b \in {a} THEN <<event[b]>> ELSE timeline[b]]
  BY <1>5 DEF TypeOK, LedgerTypeOK
<1> HIDE DEF row, event
<1>9. Entering({a}, row, event)
  BY <1>5, <1>6, <1>7, <1>8 DEF Entering
<1> QED
  BY <1>9

LEMMA ImportEnters ==
    ASSUME TypeOK, NEW S \in SUBSET Assets, Import(S)
    PROVE  \E row, event : Entering(S, row, event)
<1> DEFINE entered(actor, place, a) ==
                [status |-> "in_stock", holder |-> place[a], owner |-> actor]
<1>1. PICK actor \in Users, batch \in Batches, now \in 0 .. MaxClock, place \in [S -> Holders] :
             /\ \A a \in S : assets[a] = Unborn
             /\ ReadClock(now)
             /\ assets' = [a \in Assets |->
                   IF a \in S THEN NewRow(entered(actor, place, a), Keep, Keep) ELSE assets[a]]
             /\ timeline' = [a \in Assets |->
                   IF a \in S THEN <<NewEvent(batch, NoState, entered(actor, place, a), now)>>
                   ELSE timeline[a]]
  BY DEF Import
<1> DEFINE at(a) == entered(actor, place, a)
           row == [a \in S |-> NewRow(at(a), Keep, Keep)]
           event == [a \in S |-> NewEvent(batch, NoState, at(a), now)]
<1>2. now \in Nat /\ \A a \in S : at(a) \in State
  BY MarkersAssumption DEF State, StatusKeys, Builtin
<1>3. row \in [S -> Row] /\ \A a \in S : row[a].st = at(a)
  <2> HIDE DEF at
  <2> QED
    BY <1>2, NewRowTyped
<1>4. event \in [S -> Event] /\ \A a \in S : event[a].from = NoState /\ event[a].to = at(a)
  <2> HIDE DEF at
  <2> QED
    BY <1>2, DerivedKind DEF NewEvent, Event
<1>5. /\ assets' = [a \in Assets |-> IF a \in S THEN row[a] ELSE assets[a]]
      /\ timeline' = [a \in Assets |-> IF a \in S THEN <<event[a]>> ELSE timeline[a]]
      /\ clock' \in Nat
  BY <1>1, <1>2 DEF ReadClock
<1> HIDE DEF row, event, at
<1>6. Entering(S, row, event)
  BY <1>1, <1>3, <1>4, <1>5 DEF Entering
<1> QED
  BY <1>6

(* A save over the version the form was opened on appends when the triple  *)
(* moved, and otherwise rewrites the row.                                  *)
LEMMA SaveFormMoves ==
    ASSUME TypeOK, NEW c \in Clients, SaveForm(c)
    PROVE  \/ \E row, event : Appending({form[c].asset}, row, event)
           \/ \E row : Rewriting(form[c].asset, row)
<1> DEFINE a == form[c].asset
           old == assets[a]
           saved(to, home, homeOwner) ==
              [ st |-> to, home |-> ResolvedHome(old, home),
                homeOwner |-> ResolvedHomeOwner(old, home, homeOwner),
                version |-> form[c].seen.version + 1 ]
<1>1. PICK to \in EntryStates, home \in HomeInputs, homeOwner \in HomeOwnerInputs,
           now \in 0 .. MaxClock :
             /\ form[c] # Idle
             /\ a \in Live
             /\ old.version = form[c].seen.version
             /\ ValidTransition(statuses, old.st.status, to.status)
             /\ old.version < MaxVersion
             /\ Len(timeline[a]) < MaxEvents
             /\ ReadClock(now)
             /\ assets' = [assets EXCEPT ![a] = saved(to, home, homeOwner)]
             /\ timeline' = [timeline EXCEPT ![a] =
                   IF EmitsEvent(old.st, to) THEN Append(@, NewEvent(NoBatch, old.st, to, now))
                   ELSE @]
             /\ form' = [form EXCEPT ![c] = Idle]
             /\ UNCHANGED <<statuses, condemned, defaultStock, applying>>
  BY DEF SaveForm
<1> DEFINE r == saved(to, home, homeOwner)
           e == NewEvent(NoBatch, old.st, to, now)
<1>2. old \in Row /\ old.st \in State /\ a \in Assets /\ to \in State /\ now \in Nat
  BY <1>1, LiveRow, InputsAssumption, MarkersAssumption DEF TypeOK
<1>3. r \in Row /\ r.st = to /\ r.version = old.version + 1
  <2>1. ResolvedHome(old, home) \in Holders \cup {NoHolder}
    BY <1>2, InputsAssumption DEF ResolvedHome, Pick, Row
  <2>2. ResolvedHomeOwner(old, home, homeOwner) \in Users \cup {NoUser}
    BY <1>2, InputsAssumption DEF ResolvedHomeOwner, Pick, Row
  <2>3. old.version + 1 \in Nat \ {0} /\ form[c].seen.version = old.version
    BY <1>1, <1>2 DEF Row
  <2> QED
    BY <1>2, <2>1, <2>2, <2>3 DEF Row
<1>4. e \in Event /\ e.from = old.st /\ e.to = to
  <2> HIDE DEF old
  <2> QED
    BY <1>2, DerivedKind DEF NewEvent, Event
<1>5. clock' \in Nat
  BY <1>1, <1>2 DEF ReadClock
<1>6. assets' = [assets EXCEPT ![a] = r]
  BY <1>1
<1>7. CASE ~ EmitsEvent(old.st, to)
  <2>1. timeline' = timeline /\ old.st = to
    BY <1>1, <1>7 DEF TypeOK, LedgerTypeOK, EmitsEvent
  <2> HIDE DEF r
  <2>2. Rewriting(a, r)
    BY <1>1, <1>3, <1>5, <1>6, <2>1 DEF Rewriting
  <2> QED
    BY <2>2
<1>8. CASE EmitsEvent(old.st, to)
  <2>1. timeline' = [timeline EXCEPT ![a] = Append(@, e)]
    BY <1>1, <1>8
  <2> HIDE DEF r, e
  <2> DEFINE row == [b \in {a} |-> r]
             event == [b \in {a} |-> e]
  <2>2. row \in [{a} -> Row] /\ event \in [{a} -> Event] /\ {a} \subseteq Live
    BY <1>1, <1>3, <1>4
  <2>3. ASSUME NEW b \in {a}
        PROVE  /\ event[b].from = assets[b].st /\ event[b].to = row[b].st
               /\ row[b].st # assets[b].st
               /\ row[b].version = assets[b].version + 1
               /\ ValidTransition(statuses, event[b].from.status, event[b].to.status)
    BY <1>1, <1>3, <1>4, <1>8 DEF EmitsEvent
  <2>4. /\ assets' = [b \in Assets |-> IF b \in {a} THEN row[b] ELSE assets[b]]
        /\ timeline' = [b \in Assets |->
              IF b \in {a} THEN Append(timeline[b], event[b]) ELSE timeline[b]]
    BY <1>6, <2>1 DEF TypeOK, LedgerTypeOK
  <2> HIDE DEF row, event, a
  <2>5. Appending({a}, row, event)
    BY <1>5, <2>2, <2>3, <2>4 DEF Appending
  <2> QED
    BY <2>5 DEF a
<1> QED
  BY <1>7, <1>8

(* No other step touches assets or their histories.                        *)
LEMMA LedgerSteps ==
    ASSUME [Next]_vars
    PROVE  \/ \E w \in Workers : ApplyCommit(w)
           \/ \E a \in Assets, i \in 1 .. MaxEvents, fix \in Corrections : Edit(a, i, fix)
           \/ \E a \in Assets : Create(a)
           \/ \E S \in SUBSET Assets : Import(S) \/ DeleteAssets(S)
           \/ \E c \in Clients : SaveForm(c)
           \/ UNCHANGED <<assets, timeline>>
BY DEF Next, vars, ApplyPrepare, ApplyRefuse, OpenForm, CloseForm, CreateStatus, UpdateStatus,
       DeleteStatusCheck, DeleteStatusCommit, SetDefaultStock

-----------------------------------------------------------------------------
(* Type correctness                                                        *)
LEMMA AppendKeepsLedger ==
    ASSUME LedgerTypeOK, HistoriesBegin, NEW M, NEW row, NEW event, Appending(M, row, event)
    PROVE  LedgerTypeOK' /\ HistoriesBegin'
<1>0. /\ M \subseteq Live /\ row \in [M -> Row] /\ event \in [M -> Event]
      /\ \A a \in M : event[a].from = assets[a].st
      /\ assets' = [a \in Assets |-> IF a \in M THEN row[a] ELSE assets[a]]
      /\ timeline' = [a \in Assets |->
            IF a \in M THEN Append(timeline[a], event[a]) ELSE timeline[a]]
      /\ clock' \in Nat
  BY DEF Appending
<1>1. \A a \in M : a \in Assets /\ assets[a].st # NoState /\ row[a] \in Row /\ event[a] \in Event
  BY <1>0, LiveRow
<1>2. LedgerTypeOK'
  BY <1>0, <1>1 DEF LedgerTypeOK
<1>3. \A a \in Assets : a \in Live' <=> a \in Live
  BY <1>0, <1>1, MarkersAssumption DEF Live
<1>4. ASSUME NEW a \in Assets
      PROVE  /\ timeline'[a] # <<>> <=> a \in Live'
             /\ \A i \in DOMAIN timeline'[a] : timeline'[a][i].from = NoState <=> i = 1
  <2>1. CASE a \notin M
    BY <1>0, <2>1, <1>3 DEF HistoriesBegin
  <2>2. CASE a \in M
    <3>1. /\ timeline[a] \in Seq(Event) /\ timeline[a] # <<>> /\ event[a] \in Event
          /\ event[a].from # NoState /\ timeline'[a] = Append(timeline[a], event[a])
      BY <1>0, <2>2, <1>1 DEF LedgerTypeOK, HistoriesBegin
    <3>2. \A i \in DOMAIN timeline[a] : timeline[a][i].from = NoState <=> i = 1
      BY DEF HistoriesBegin
    <3> QED
      BY <3>1, <3>2, <2>2, <1>0, <1>3
  <2> QED
    BY <2>1, <2>2
<1> QED
  BY <1>2, <1>4 DEF HistoriesBegin

LEMMA EnterKeepsLedger ==
    ASSUME LedgerTypeOK, HistoriesBegin, NEW S, NEW row, NEW event, Entering(S, row, event)
    PROVE  LedgerTypeOK' /\ HistoriesBegin'
<1>0. /\ S \subseteq Assets /\ row \in [S -> Row] /\ event \in [S -> Event]
      /\ \A a \in S : event[a].from = NoState
      /\ assets' = [a \in Assets |-> IF a \in S THEN row[a] ELSE assets[a]]
      /\ timeline' = [a \in Assets |-> IF a \in S THEN <<event[a]>> ELSE timeline[a]]
      /\ clock' \in Nat
  BY DEF Entering
<1>1. LedgerTypeOK'
  BY <1>0 DEF LedgerTypeOK
<1>2. \A a \in S : a \in Live'
  BY <1>0, MarkersAssumption DEF Live
<1>3. \A a \in Assets \ S : a \in Live' <=> a \in Live
  BY <1>0 DEF Live
<1>4. ASSUME NEW a \in Assets
      PROVE  /\ timeline'[a] # <<>> <=> a \in Live'
             /\ \A i \in DOMAIN timeline'[a] : timeline'[a][i].from = NoState <=> i = 1
  <2>1. CASE a \notin S
    BY <1>0, <2>1, <1>3 DEF HistoriesBegin
  <2>2. CASE a \in S
    <3>1. timeline'[a] = <<event[a]>> /\ event[a].from = NoState
      BY <1>0, <2>2
    <3> QED
      BY <3>1, <2>2, <1>2
  <2> QED
    BY <2>1, <2>2
<1> QED
  BY <1>1, <1>4 DEF HistoriesBegin

LEMMA RewriteKeepsLedger ==
    ASSUME LedgerTypeOK, HistoriesBegin, NEW a, NEW row, Rewriting(a, row)
    PROVE  LedgerTypeOK' /\ HistoriesBegin'
<1>1. \A b \in Assets : /\ assets'[b] \in Row \cup {Unborn, Deleted}
                        /\ b \in Live' <=> b \in Live
  BY MarkersAssumption DEF Rewriting, Live, LedgerTypeOK
<1>2. assets' = [b \in Assets |-> assets'[b]] /\ timeline' = timeline /\ clock' \in Nat
  BY DEF Rewriting, LedgerTypeOK
<1> QED
  BY <1>1, <1>2 DEF LedgerTypeOK, HistoriesBegin

LEMMA EditType ==
    ASSUME TypeOK, NEW a \in Assets, NEW i \in 1 .. MaxEvents, NEW fix \in Corrections,
           Edit(a, i, fix)
    PROVE  TypeOK'
<1> DEFINE members == EditedTogether(a, i)
           Fixed(b) == { j \in DOMAIN timeline[b] : <<b, j>> \in members }
           to(b, j) == Corrected(timeline[b][j].to, fix)
           one(b) == CHOOSE j \in Fixed(b) : TRUE
<1>1. \A b \in Assets : \A j \in DOMAIN timeline[b] :
         timeline[b] \in Seq(Event) /\ timeline[b][j] \in Event /\ to(b, j) \in State
  <2> TAKE b \in Assets
  <2>1. timeline[b] \in Seq(Event)
    BY DEF TypeOK, LedgerTypeOK
  <2> TAKE j \in DOMAIN timeline[b]
  <2>2. timeline[b][j] \in Event
    BY <2>1
  <2>3. timeline[b][j].to \in State
    BY <2>2 DEF Event
  <2> QED
    BY <2>1, <2>2, <2>3, CorrectedTyped, InputsAssumption
<1>2. \A b \in Assets :
        /\ timeline'[b] \in Seq(Event)
        /\ DOMAIN timeline'[b] = DOMAIN timeline[b]
        /\ \A j \in DOMAIN timeline[b] : timeline'[b][j].from = timeline[b][j].from
  <2> TAKE b \in Assets
  <2> DEFINE f(j) == IF j \in Fixed(b) THEN CorrectedEvent(timeline[b][j], to(b, j))
                     ELSE timeline[b][j]
  <2>1. timeline'[b] = [j \in DOMAIN timeline[b] |-> f(j)]
    BY DEF Edit
  <2>2. \A j \in DOMAIN timeline[b] : f(j) \in Event /\ f(j).from = timeline[b][j].from
    BY <1>1, CorrectedEventTyped
  <2>3. timeline[b] \in Seq(Event) /\ DOMAIN timeline[b] = 1 .. Len(timeline[b])
        /\ Len(timeline[b]) \in Nat
    BY <1>1 DEF TypeOK, LedgerTypeOK
  <2> HIDE DEF f
  <2> QED
    BY <2>1, <2>2, <2>3
<1>3. \A b \in Assets : assets'[b] = IF Fixed(b) = {} THEN assets[b]
                                     ELSE Restated(assets[b], to(b, one(b)))
  BY DEF Edit
<1>4. \A b \in Assets : Fixed(b) # {} => b \in Live /\ one(b) \in DOMAIN timeline[b]
  <2> TAKE b \in Assets
  <2> HAVE Fixed(b) # {}
  <2>1. one(b) \in Fixed(b)
    OBVIOUS
  <2>2. one(b) \in DOMAIN timeline[b] /\ timeline[b] \in Seq(Event)
    BY <2>1 DEF TypeOK, LedgerTypeOK
  <2>3. timeline[b] # <<>>
    BY <2>2
  <2> QED
    BY <2>2, <2>3 DEF TypeOK, HistoriesBegin
<1>5. \A b \in Assets : /\ assets'[b] \in Row \cup {Unborn, Deleted}
                        /\ b \in Live' <=> b \in Live
  <2> TAKE b \in Assets
  <2>1. CASE Fixed(b) = {}
    BY <2>1, <1>3 DEF Live, TypeOK, LedgerTypeOK
  <2>2. CASE Fixed(b) # {}
    <3>1. assets'[b] \in Row /\ b \in Live
      <4> HIDE DEF Fixed, to, one
      <4> QED
        BY <2>2, <1>1, <1>3, <1>4, LiveRow, RestatedTyped DEF TypeOK
    <3> QED
      BY <3>1, MarkersAssumption DEF Live
  <2> QED
    BY <2>1, <2>2
<1>6. LedgerTypeOK'
  <2>1. DOMAIN assets' = Assets /\ assets' = [b \in Assets |-> assets'[b]]
    BY DEF Edit
  <2>2. timeline' = [b \in Assets |-> timeline'[b]]
    BY DEF Edit
  <2>3. clock' \in Nat
    BY DEF Edit, TypeOK, LedgerTypeOK
  <2> QED
    BY <2>1, <2>2, <2>3, <1>2, <1>5 DEF LedgerTypeOK
<1>7. HistoriesBegin'
  <2>1. ASSUME NEW b \in Assets
        PROVE  /\ timeline'[b] # <<>> <=> b \in Live'
               /\ \A k \in DOMAIN timeline'[b] : timeline'[b][k].from = NoState <=> k = 1
    <3>1. timeline'[b] = <<>> <=> timeline[b] = <<>>
      BY <1>2, <2>1 DEF TypeOK, LedgerTypeOK
    <3> QED
      BY <3>1, <1>2, <1>5 DEF TypeOK, HistoriesBegin
  <2> QED
    BY <2>1 DEF HistoriesBegin
<1>8. StatusTypeOK' /\ RequestTypeOK'
  BY DEF Edit, TypeOK, StatusTypeOK, RequestTypeOK
<1> QED
  BY <1>6, <1>7, <1>8 DEF TypeOK

LEMMA DeleteAssetsType ==
    ASSUME TypeOK, NEW S \in SUBSET Assets, DeleteAssets(S)
    PROVE  TypeOK'
<1>1. LedgerTypeOK'
  BY DEF DeleteAssets, TypeOK, LedgerTypeOK
<1>2. \A a \in S : a \notin Live' /\ timeline'[a] = <<>>
  BY DEF DeleteAssets, Live
<1>3. \A a \in Assets \ S : (a \in Live' <=> a \in Live) /\ timeline'[a] = timeline[a]
  BY DEF DeleteAssets, Live
<1>4. HistoriesBegin'
  BY <1>2, <1>3 DEF TypeOK, HistoriesBegin
<1>5. StatusTypeOK' /\ RequestTypeOK'
  BY DEF DeleteAssets, TypeOK, StatusTypeOK, RequestTypeOK
<1> QED
  BY <1>1, <1>4, <1>5 DEF TypeOK

(* The steps that leave assets and histories alone.                        *)
LEMMA OtherStepType ==
    ASSUME TypeOK,
           \/ \E w \in Workers : ApplyPrepare(w) \/ ApplyRefuse(w)
           \/ \E c \in Clients : CloseForm(c) \/ \E a \in Assets : OpenForm(c, a)
           \/ \E k \in CustomKeys, t \in BOOLEAN : CreateStatus(k, t) \/ UpdateStatus(k, t)
           \/ \E k \in CustomKeys : DeleteStatusCheck(k) \/ DeleteStatusCommit(k)
           \/ \E h \in Locations : SetDefaultStock(h)
    PROVE  TypeOK'
<1>1. ASSUME NEW w \in Workers, ApplyPrepare(w)
      PROVE  TypeOK'
  <2>1. PICK req \in Requests, batch \in Batches \cup {NoBatch}, now \in 0 .. MaxClock :
          /\ ReadClock(now)
          /\ applying' = [applying EXCEPT ![w] =
                [ req |-> req, batch |-> batch, at |-> now,
                  fallback |-> IF GoesHome(req) THEN defaultStock ELSE NoHolder ]]
    BY <1>1 DEF ApplyPrepare
  <2>2. RequestTypeOK'
    BY <1>1, <2>1, InputsAssumption, MarkersAssumption
    DEF ApplyPrepare, TypeOK, RequestTypeOK, StatusTypeOK, Prepared
  <2>3. LedgerTypeOK' /\ StatusTypeOK' /\ HistoriesBegin'
    BY <1>1, <2>1, MarkersAssumption
    DEF ApplyPrepare, ReadClock, TypeOK, LedgerTypeOK, StatusTypeOK, HistoriesBegin, Live
  <2> QED
    BY <2>2, <2>3 DEF TypeOK
<1>2. ASSUME NEW w \in Workers, ApplyRefuse(w)
      PROVE  TypeOK'
  BY <1>2 DEF ApplyRefuse, TypeOK, LedgerTypeOK, StatusTypeOK, RequestTypeOK, HistoriesBegin, Live
<1>3. ASSUME NEW c \in Clients, CloseForm(c)
      PROVE  TypeOK'
  BY <1>3 DEF CloseForm, TypeOK, LedgerTypeOK, StatusTypeOK, RequestTypeOK, HistoriesBegin, Live
<1>4. ASSUME NEW c \in Clients, NEW a \in Assets, OpenForm(c, a)
      PROVE  TypeOK'
  <2>1. [asset |-> a, seen |-> assets[a]] \in Form
    BY <1>4, LiveRow DEF OpenForm, Form, TypeOK
  <2>2. RequestTypeOK'
    BY <1>4, <2>1 DEF OpenForm, TypeOK, RequestTypeOK
  <2> QED
    BY <1>4, <2>2 DEF OpenForm, TypeOK, LedgerTypeOK, StatusTypeOK, HistoriesBegin, Live
<1>5. ASSUME NEW k \in CustomKeys, NEW t \in BOOLEAN, CreateStatus(k, t) \/ UpdateStatus(k, t)
      PROVE  TypeOK'
  <2>1. StatusTypeOK'
    BY <1>5 DEF CreateStatus, UpdateStatus, TypeOK, StatusTypeOK, StatusKeys
  <2> QED
    BY <1>5, <2>1
    DEF CreateStatus, UpdateStatus, TypeOK, LedgerTypeOK, RequestTypeOK, HistoriesBegin, Live
<1>6. ASSUME NEW k \in CustomKeys, DeleteStatusCheck(k) \/ DeleteStatusCommit(k)
      PROVE  TypeOK'
  <2>1. StatusTypeOK'
    BY <1>6, CustomKeysAssumption
    DEF DeleteStatusCheck, DeleteStatusCommit, TypeOK, StatusTypeOK, StatusKeys
  <2> QED
    BY <1>6, <2>1
    DEF DeleteStatusCheck, DeleteStatusCommit, TypeOK, LedgerTypeOK, RequestTypeOK,
        HistoriesBegin, Live
<1>7. ASSUME NEW h \in Locations, SetDefaultStock(h)
      PROVE  TypeOK'
  BY <1>7
  DEF SetDefaultStock, TypeOK, LedgerTypeOK, StatusTypeOK, RequestTypeOK, HistoriesBegin, Live
<1> QED
  BY <1>1, <1>2, <1>3, <1>4, <1>5, <1>6, <1>7

LEMMA TypeInit == Init => TypeOK
BY MarkersAssumption
DEF Init, TypeOK, StatusTypeOK, LedgerTypeOK, RequestTypeOK, HistoriesBegin, Live,
    SeededStatuses, StatusKeys

LEMMA TypeStep == TypeOK /\ [Next]_vars => TypeOK'
<1> SUFFICES ASSUME TypeOK, [Next]_vars
             PROVE  TypeOK'
  OBVIOUS
<1>1. ASSUME NEW w \in Workers, ApplyCommit(w)
      PROVE  TypeOK'
  <2>1. LedgerTypeOK' /\ HistoriesBegin'
    BY <1>1, ApplyCommitAppends, AppendKeepsLedger DEF TypeOK
  <2> QED
    BY <1>1, <2>1 DEF ApplyCommit, TypeOK, StatusTypeOK, RequestTypeOK
<1>2. ASSUME NEW a \in Assets, NEW i \in 1 .. MaxEvents, NEW fix \in Corrections, Edit(a, i, fix)
      PROVE  TypeOK'
  BY <1>2, EditType
<1>3. ASSUME NEW a \in Assets, Create(a)
      PROVE  TypeOK'
  <2>1. LedgerTypeOK' /\ HistoriesBegin'
    BY <1>3, CreateEnters, EnterKeepsLedger DEF TypeOK
  <2> QED
    BY <1>3, <2>1 DEF Create, TypeOK, StatusTypeOK, RequestTypeOK
<1>4. ASSUME NEW S \in SUBSET Assets, Import(S)
      PROVE  TypeOK'
  <2>1. LedgerTypeOK' /\ HistoriesBegin'
    BY <1>4, ImportEnters, EnterKeepsLedger DEF TypeOK
  <2> QED
    BY <1>4, <2>1 DEF Import, TypeOK, StatusTypeOK, RequestTypeOK
<1>5. ASSUME NEW S \in SUBSET Assets, DeleteAssets(S)
      PROVE  TypeOK'
  BY <1>5, DeleteAssetsType
<1>6. ASSUME NEW c \in Clients, SaveForm(c)
      PROVE  TypeOK'
  <2>1. LedgerTypeOK' /\ HistoriesBegin'
    BY <1>6, SaveFormMoves, AppendKeepsLedger, RewriteKeepsLedger DEF TypeOK
  <2> QED
    BY <1>6, <2>1 DEF SaveForm, TypeOK, StatusTypeOK, RequestTypeOK
<1>7. CASE UNCHANGED vars
  BY <1>7 DEF vars, TypeOK, LedgerTypeOK, StatusTypeOK, RequestTypeOK, HistoriesBegin, Live
<1> QED
  BY <1>1, <1>2, <1>3, <1>4, <1>5, <1>6, <1>7, OtherStepType DEF Next

(* The state of the ledger keeps its types: statuses configured include    *)
(* the built-ins, rows and events are well formed, and an asset has a      *)
(* history, started by its one create event, exactly when it has a row.    *)
THEOREM LedgerTypeCorrect == Spec => []TypeOK
BY TypeInit, TypeStep, PTL DEF Spec

-----------------------------------------------------------------------------
(* Histories replay                                                        *)

(* In a history in order, the newest event is the last one written.        *)
LEMMA TailIsLast ==
    ASSUME LedgerTypeOK, NEW a \in Assets, NEW i, InOrder(a), IsTail(a, i)
    PROVE  i = Len(timeline[a]) /\ i \in Nat
<1>1. /\ timeline[a] \in Seq(Event) /\ Len(timeline[a]) \in Nat
      /\ DOMAIN timeline[a] = 1 .. Len(timeline[a]) /\ i \in DOMAIN timeline[a]
  BY DEF LedgerTypeOK, IsTail
<1> DEFINE n == Len(timeline[a])
<1>2. n \in DOMAIN timeline[a] /\ i <= n
  BY <1>1
<1>3. timeline[a][i] \in Event /\ timeline[a][n] \in Event
  BY <1>1, <1>2
<1>4. timeline[a][i].at \in Nat /\ timeline[a][n].at \in Nat
  BY <1>3 DEF Event
<1>5. i < n => timeline[a][i].at <= timeline[a][n].at
  BY <1>1, <1>2 DEF InOrder
<1>6. timeline[a][n].at < timeline[a][i].at \/ n <= i
  BY <1>2 DEF IsTail
<1> QED
  BY <1>1, <1>2, <1>4, <1>5, <1>6

(* Events that start where the assets are keep histories replaying: were   *)
(* an append to put a history out of order, nothing is claimed of it; were *)
(* the history in order after it, it was in order before it.               *)
LEMMA AppendKeepsReplay ==
    ASSUME LedgerTypeOK, HistoriesBegin, HistoryReplays,
           NEW M, NEW row, NEW event, Appending(M, row, event)
    PROVE  HistoryReplays'
<1>0. /\ M \subseteq Live /\ row \in [M -> Row] /\ event \in [M -> Event]
      /\ \A a \in M : event[a].from = assets[a].st /\ event[a].to = row[a].st
      /\ assets' = [a \in Assets |-> IF a \in M THEN row[a] ELSE assets[a]]
      /\ timeline' = [a \in Assets |->
            IF a \in M THEN Append(timeline[a], event[a]) ELSE timeline[a]]
  BY DEF Appending
<1> SUFFICES ASSUME NEW a \in Live', InOrder(a)'
             PROVE  Replays(a)'
  BY DEF HistoryReplays
<1>1. a \in Assets
  BY DEF Live
<1>2. CASE a \notin M
  <2>1. a \in Live /\ InOrder(a)
    BY <1>0, <1>1, <1>2 DEF Live, InOrder
  <2> QED
    BY <1>0, <1>1, <1>2, <2>1 DEF HistoryReplays, Replays
<1>3. CASE a \in M
  <2> DEFINE n == Len(timeline[a])
  <2>1. /\ timeline[a] \in Seq(Event) /\ timeline[a] # <<>> /\ n \in Nat \ {0}
        /\ DOMAIN timeline[a] = 1 .. n /\ event[a] \in Event
    BY <1>0, <1>1, <1>3 DEF LedgerTypeOK, HistoriesBegin
  <2>2. timeline'[a] = Append(timeline[a], event[a]) /\ assets'[a] = row[a]
    BY <1>0, <1>1, <1>3
  <2>3. /\ Len(timeline'[a]) = n + 1 /\ DOMAIN timeline'[a] = 1 .. (n + 1)
        /\ timeline'[a][n + 1] = event[a]
        /\ \A i \in 1 .. n : timeline'[a][i] = timeline[a][i]
    BY <2>1, <2>2
  <2>4. InOrder(a)
    <3>1. \A i, j \in 1 .. n + 1 : i < j => timeline'[a][i].at <= timeline'[a][j].at
      BY <2>3 DEF InOrder
    <3>2. \A i, j \in 1 .. n : i < j => timeline[a][i].at <= timeline[a][j].at
      <4> TAKE i, j \in 1 .. n
      <4>1. i \in 1 .. n + 1 /\ j \in 1 .. n + 1
        BY <2>1
      <4> QED
        BY <2>3, <3>1, <4>1
    <3> QED
      BY <2>1, <3>2 DEF InOrder
  <2>5. Replays(a)
    BY <1>0, <1>3, <2>4 DEF HistoryReplays
  <2>6. ASSUME NEW i \in DOMAIN timeline'[a], i > 1
        PROVE  timeline'[a][i].from = timeline'[a][i-1].to
    <3>1. CASE i \in 1 .. n
      <4>1. i - 1 \in 1 .. n
        BY <2>1, <2>6, <3>1
      <4>2. timeline'[a][i] = timeline[a][i] /\ timeline'[a][i-1] = timeline[a][i-1]
        BY <2>3, <3>1, <4>1
      <4>3. timeline[a][i].from = timeline[a][i-1].to
        BY <2>1, <2>5, <2>6, <3>1 DEF Replays
      <4> QED
        BY <4>2, <4>3
    <3>2. CASE i = n + 1
      <4>1. timeline'[a][i].from = assets[a].st
        BY <1>0, <1>3, <2>3, <3>2
      <4>2. timeline'[a][i-1] = timeline[a][n] /\ timeline[a][n].to = assets[a].st
        BY <2>1, <2>3, <2>5, <3>2 DEF Replays
      <4> QED
        BY <4>1, <4>2
    <3>3. i \in 1 .. n \/ i = n + 1
      <4>1. i \in 1 .. (n + 1) /\ n \in Nat
        BY <2>1, <2>3
      <4> HIDE DEF n
      <4> QED
        BY <4>1
    <3> QED
      BY <3>1, <3>2, <3>3
  <2>7. assets'[a].st = timeline'[a][Len(timeline'[a])].to
    BY <1>0, <1>3, <2>2, <2>3
  <2> QED
    BY <2>6, <2>7 DEF Replays
<1> QED
  BY <1>2, <1>3

LEMMA EnterKeepsReplay ==
    ASSUME LedgerTypeOK, HistoryReplays, NEW S, NEW row, NEW event, Entering(S, row, event)
    PROVE  HistoryReplays'
<1>0. /\ S \subseteq Assets /\ row \in [S -> Row] /\ event \in [S -> Event]
      /\ \A a \in S : event[a].to = row[a].st
      /\ assets' = [a \in Assets |-> IF a \in S THEN row[a] ELSE assets[a]]
      /\ timeline' = [a \in Assets |-> IF a \in S THEN <<event[a]>> ELSE timeline[a]]
  BY DEF Entering
<1> SUFFICES ASSUME NEW a \in Live', InOrder(a)'
             PROVE  Replays(a)'
  BY DEF HistoryReplays
<1>1. a \in Assets
  BY DEF Live
<1>2. CASE a \notin S
  BY <1>0, <1>1, <1>2 DEF HistoryReplays, Live, InOrder, Replays
<1>3. CASE a \in S
  <2>1. timeline'[a] = <<event[a]>> /\ assets'[a] = row[a] /\ event[a].to = row[a].st
    BY <1>0, <1>1, <1>3
  <2> QED
    BY <2>1 DEF Replays
<1> QED
  BY <1>2, <1>3

(* A save that moves nothing leaves the asset where its history ends.      *)
LEMMA RewriteKeepsReplay ==
    ASSUME LedgerTypeOK, HistoryReplays, NEW a, NEW row, Rewriting(a, row)
    PROVE  HistoryReplays'
<1>1. timeline' = timeline /\ \A b \in Assets : /\ b \in Live' => b \in Live
                                                /\ assets'[b].st = assets[b].st
  BY MarkersAssumption DEF Rewriting, Live, LedgerTypeOK
<1>2. \A b \in Live' : b \in Assets
  BY DEF Live
<1> QED
  BY <1>1, <1>2 DEF HistoryReplays, InOrder, Replays

(* Corrections touch the last event of a history in order, and put the     *)
(* asset where that event now says.                                        *)
LEMMA EditReplay ==
    ASSUME TypeOK, HistoryReplays,
           NEW a \in Assets, NEW i \in 1 .. MaxEvents, NEW fix \in Corrections, Edit(a, i, fix)
    PROVE  HistoryReplays'
<1> DEFINE members == EditedTogether(a, i)
           Fixed(b) == { j \in DOMAIN timeline[b] : <<b, j>> \in members }
           to(b, j) == Corrected(timeline[b][j].to, fix)
<1> SUFFICES ASSUME NEW b \in Live', InOrder(b)'
             PROVE  Replays(b)'
  BY DEF HistoryReplays
<1>1. b \in Assets /\ timeline[b] \in Seq(Event) /\ Len(timeline[b]) \in Nat
      /\ DOMAIN timeline[b] = 1 .. Len(timeline[b])
  BY DEF Live, TypeOK, LedgerTypeOK
<1> DEFINE n == Len(timeline[b])
<1>2. timeline'[b] = [j \in 1 .. n |->
          IF j \in Fixed(b) THEN CorrectedEvent(timeline[b][j], to(b, j)) ELSE timeline[b][j]]
  BY <1>1 DEF Edit
<1>3. assets'[b] = IF Fixed(b) = {} THEN assets[b]
                   ELSE Restated(assets[b], to(b, CHOOSE j \in Fixed(b) : TRUE))
  BY <1>1 DEF Edit
<1>4. \A j \in 1 .. n : timeline[b][j] \in Event
  BY <1>1
<1>5. \A j \in 1 .. n : to(b, j) \in State
  BY <1>4, CorrectedTyped, InputsAssumption DEF Event
<1>6. \A j \in 1 .. n : /\ timeline'[b][j].at = timeline[b][j].at
                        /\ timeline'[b][j].from = timeline[b][j].from
                        /\ j \notin Fixed(b) => timeline'[b][j] = timeline[b][j]
                        /\ j \in Fixed(b) => timeline'[b][j].to = to(b, j)
  <2> HIDE DEF Fixed, to
  <2> QED
    BY <1>2, <1>4, <1>5, CorrectedEventTyped
<1>7. DOMAIN timeline'[b] = 1 .. n /\ Len(timeline'[b]) = n
  <2>1. DOMAIN timeline'[b] = 1 .. n
    BY <1>2
  <2>2. timeline'[b] \in Seq(Event)
    BY <1>1, EditType DEF TypeOK, LedgerTypeOK
  <2>3. Len(timeline'[b]) \in Nat /\ DOMAIN timeline'[b] = 1 .. Len(timeline'[b])
    BY <2>2
  <2> HIDE DEF n
  <2> QED
    BY <1>1, <2>1, <2>3 DEF n
<1>8. b \in Live /\ timeline[b] # <<>>
  <2>1. CASE Fixed(b) = {}
    BY <1>1, <1>3, <2>1 DEF Live, TypeOK, HistoriesBegin
  <2>2. CASE Fixed(b) # {}
    <3>1. PICK j : j \in DOMAIN timeline[b]
      BY <2>2
    <3>2. timeline[b] # <<>>
      BY <1>1, <3>1
    <3> QED
      BY <1>1, <3>2 DEF TypeOK, HistoriesBegin
  <2> QED
    BY <2>1, <2>2
<1>9. InOrder(b)
  <2>1. \A j, k \in 1 .. n : j < k => timeline'[b][j].at <= timeline'[b][k].at
    BY <1>7 DEF InOrder
  <2>2. \A j, k \in 1 .. n : j < k => timeline[b][j].at <= timeline[b][k].at
    BY <1>6, <2>1
  <2> QED
    BY <1>1, <2>2 DEF InOrder
<1>10. Replays(b)
  BY <1>8, <1>9 DEF HistoryReplays
<1>11. \A j \in Fixed(b) : j = n
  <2> TAKE j \in Fixed(b)
  <2>1. IsTail(b, j)
    BY DEF Edit, Correctable
  <2> QED
    BY <1>1, <1>9, <2>1, TailIsLast DEF TypeOK
<1>12. n \in 1 .. n
  BY <1>1, <1>8
<1>13. ASSUME NEW j \in DOMAIN timeline'[b], j > 1
       PROVE  timeline'[b][j].from = timeline'[b][j-1].to
  <2>1. j \in 1 .. n /\ j - 1 \in 1 .. n /\ j - 1 # n
    BY <1>1, <1>7, <1>13
  <2>2. timeline'[b][j-1] = timeline[b][j-1] /\ timeline'[b][j].from = timeline[b][j].from
    BY <1>6, <1>11, <2>1
  <2>3. timeline[b][j].from = timeline[b][j-1].to
    BY <1>1, <1>10, <1>13, <2>1 DEF Replays
  <2> QED
    BY <2>2, <2>3
<1>14. assets'[b].st = timeline'[b][n].to
  <2>1. CASE Fixed(b) = {}
    BY <1>3, <1>6, <1>10, <1>12, <2>1 DEF Replays
  <2>2. CASE Fixed(b) # {}
    <3>1. (CHOOSE j \in Fixed(b) : TRUE) = n /\ n \in Fixed(b)
      BY <1>11, <2>2
    <3>2. assets'[b] = Restated(assets[b], to(b, n))
      BY <1>3, <2>2, <3>1
    <3>3. assets[b] \in Row /\ to(b, n) \in State
      BY <1>5, <1>8, <1>12, LiveRow DEF TypeOK
    <3>4. assets'[b].st = to(b, n)
      BY <3>2, <3>3, RestatedTyped
    <3> QED
      BY <1>6, <1>12, <3>1, <3>4
  <2> QED
    BY <2>1, <2>2
<1> QED
  BY <1>7, <1>13, <1>14 DEF Replays

LEMMA ReplayInit == Init => HistoryReplays
BY MarkersAssumption DEF Init, HistoryReplays, Live

LEMMA ReplayStep == TypeOK /\ HistoryReplays /\ [Next]_vars => HistoryReplays'
<1> SUFFICES ASSUME TypeOK, HistoryReplays, [Next]_vars
             PROVE  HistoryReplays'
  OBVIOUS
<1>1. ASSUME NEW w \in Workers, ApplyCommit(w)
      PROVE  HistoryReplays'
  BY <1>1, ApplyCommitAppends, AppendKeepsReplay DEF TypeOK
<1>2. ASSUME NEW a \in Assets, NEW i \in 1 .. MaxEvents, NEW fix \in Corrections, Edit(a, i, fix)
      PROVE  HistoryReplays'
  BY <1>2, EditReplay
<1>3. ASSUME NEW a \in Assets, Create(a)
      PROVE  HistoryReplays'
  BY <1>3, CreateEnters, EnterKeepsReplay DEF TypeOK
<1>4. ASSUME NEW S \in SUBSET Assets, Import(S)
      PROVE  HistoryReplays'
  BY <1>4, ImportEnters, EnterKeepsReplay DEF TypeOK
<1>5. ASSUME NEW S \in SUBSET Assets, DeleteAssets(S)
      PROVE  HistoryReplays'
  BY <1>5 DEF DeleteAssets, HistoryReplays, Live, InOrder, Replays
<1>6. ASSUME NEW c \in Clients, SaveForm(c)
      PROVE  HistoryReplays'
  BY <1>6, SaveFormMoves, AppendKeepsReplay, RewriteKeepsReplay DEF TypeOK
<1>7. CASE UNCHANGED <<assets, timeline>>
  BY <1>7 DEF HistoryReplays, Live, InOrder, Replays
<1> QED
  BY <1>1, <1>2, <1>3, <1>4, <1>5, <1>6, <1>7, LedgerSteps

(* Every history whose events were written in the order of their           *)
(* timestamps replays to the current state of its asset, whatever          *)
(* transfers, saves and corrections overlapped.                            *)
THEOREM HistoriesReplay == Spec => []HistoryReplays
BY TypeInit, TypeStep, ReplayInit, ReplayStep, PTL DEF Spec

-----------------------------------------------------------------------------
(* The matrix of the built-in statuses                                     *)

(* A transition the status table admits follows the matrix, whatever       *)
(* custom statuses are configured.                                         *)
LEMMA ValidFollowsMatrix ==
    ASSUME NEW set, NEW from, NEW to, ValidTransition(set, from, to)
    PROVE  FollowsMatrix(from, to)
BY DEF ValidTransition, CanTransition, FollowsMatrix

LEMMA AppendKeepsMatrix ==
    ASSUME LedgerTypeOK, MatrixHolds, NEW M, NEW row, NEW event, Appending(M, row, event)
    PROVE  MatrixHolds'
<1> SUFFICES ASSUME NEW a \in Assets, NEW i \in DOMAIN timeline'[a],
                    timeline'[a][i].from # NoState
             PROVE  FollowsMatrix(timeline'[a][i].from.status, timeline'[a][i].to.status)
  BY DEF MatrixHolds
<1>1. timeline[a] \in Seq(Event)
  BY DEF LedgerTypeOK
<1>2. timeline'[a] = IF a \in M THEN Append(timeline[a], event[a]) ELSE timeline[a]
  BY DEF Appending
<1>3. CASE i \in DOMAIN timeline[a]
  <2>1. timeline'[a][i] = timeline[a][i]
    BY <1>1, <1>2, <1>3
  <2> QED
    BY <1>3, <2>1 DEF MatrixHolds
<1>4. CASE i \notin DOMAIN timeline[a]
  <2>1. a \in M /\ timeline'[a][i] = event[a]
    BY <1>1, <1>2, <1>4
  <2>2. ValidTransition(statuses, event[a].from.status, event[a].to.status)
    BY <2>1 DEF Appending
  <2> QED
    BY <2>1, <2>2, ValidFollowsMatrix
<1> QED
  BY <1>3, <1>4

LEMMA EnterKeepsMatrix ==
    ASSUME MatrixHolds, NEW S, NEW row, NEW event, Entering(S, row, event)
    PROVE  MatrixHolds'
<1> SUFFICES ASSUME NEW a \in Assets, NEW i \in DOMAIN timeline'[a],
                    timeline'[a][i].from # NoState
             PROVE  FollowsMatrix(timeline'[a][i].from.status, timeline'[a][i].to.status)
  BY DEF MatrixHolds
<1>1. CASE a \in S
  BY <1>1 DEF Entering
<1>2. CASE a \notin S
  BY <1>2 DEF Entering, MatrixHolds
<1> QED
  BY <1>1, <1>2

(* A corrected event still starts where it did, and Edit asks again        *)
(* whether its asset could have gone where it now says.                    *)
LEMMA EditKeepsMatrix ==
    ASSUME TypeOK, MatrixHolds,
           NEW a \in Assets, NEW i \in 1 .. MaxEvents, NEW fix \in Corrections, Edit(a, i, fix)
    PROVE  MatrixHolds'
<1> DEFINE members == EditedTogether(a, i)
           Fixed(b) == { j \in DOMAIN timeline[b] : <<b, j>> \in members }
           to(b, j) == Corrected(timeline[b][j].to, fix)
<1> SUFFICES ASSUME NEW b \in Assets, NEW j \in DOMAIN timeline'[b],
                    timeline'[b][j].from # NoState
             PROVE  FollowsMatrix(timeline'[b][j].from.status, timeline'[b][j].to.status)
  BY DEF MatrixHolds
<1>1. /\ j \in DOMAIN timeline[b]
      /\ timeline'[b][j] = IF j \in Fixed(b) THEN CorrectedEvent(timeline[b][j], to(b, j))
                           ELSE timeline[b][j]
  BY DEF Edit
<1>2. timeline[b][j] \in Event
  <2>1. timeline[b] \in Seq(Event)
    BY DEF TypeOK, LedgerTypeOK
  <2> QED
    BY <1>1, <2>1
<1>3. to(b, j) \in State
  BY <1>2, CorrectedTyped, InputsAssumption DEF Event
<1>4. CASE j \notin Fixed(b)
  BY <1>1, <1>4 DEF MatrixHolds
<1>5. CASE j \in Fixed(b)
  <2>1. timeline'[b][j].from = timeline[b][j].from /\ timeline'[b][j].to = to(b, j)
    <3> HIDE DEF to
    <3> QED
      BY <1>1, <1>2, <1>3, <1>5, CorrectedEventTyped
  <2>2. Correctable(b, j, fix)
    BY <1>5 DEF Edit
  <2>3. ValidTransition(statuses, timeline[b][j].from.status, to(b, j).status)
    BY <2>1, <2>2 DEF Correctable
  <2> QED
    BY <2>1, <2>3, ValidFollowsMatrix
<1> QED
  BY <1>4, <1>5

LEMMA MatrixStep == TypeOK /\ MatrixHolds /\ [Next]_vars => MatrixHolds'
<1> SUFFICES ASSUME TypeOK, MatrixHolds, [Next]_vars
             PROVE  MatrixHolds'
  OBVIOUS
<1>1. ASSUME NEW w \in Workers, ApplyCommit(w)
      PROVE  MatrixHolds'
  BY <1>1, ApplyCommitAppends, AppendKeepsMatrix DEF TypeOK
<1>2. ASSUME NEW a \in Assets, NEW i \in 1 .. MaxEvents, NEW fix \in Corrections, Edit(a, i, fix)
      PROVE  MatrixHolds'
  BY <1>2, EditKeepsMatrix
<1>3. ASSUME NEW a \in Assets, Create(a)
      PROVE  MatrixHolds'
  BY <1>3, CreateEnters, EnterKeepsMatrix
<1>4. ASSUME NEW S \in SUBSET Assets, Import(S)
      PROVE  MatrixHolds'
  BY <1>4, ImportEnters, EnterKeepsMatrix
<1>5. ASSUME NEW S \in SUBSET Assets, DeleteAssets(S)
      PROVE  MatrixHolds'
  BY <1>5 DEF DeleteAssets, MatrixHolds
<1>6. ASSUME NEW c \in Clients, SaveForm(c)
      PROVE  MatrixHolds'
  <2>1. ASSUME timeline' = timeline
        PROVE  MatrixHolds'
    BY <2>1 DEF MatrixHolds
  <2> QED
    BY <1>6, <2>1, SaveFormMoves, AppendKeepsMatrix DEF TypeOK, Rewriting
<1>7. CASE UNCHANGED <<assets, timeline>>
  BY <1>7 DEF MatrixHolds
<1> QED
  BY <1>1, <1>2, <1>3, <1>4, <1>5, <1>6, <1>7, LedgerSteps

(* No history ever records a move the matrix of the built-in statuses      *)
(* forbids - not after a correction, not from a stale form, not in a batch *)
(* - and so nothing is ever recorded as coming back from retired.          *)
THEOREM MatrixAlwaysHolds == Spec => []MatrixHolds
<1>1. Init => MatrixHolds
  BY DEF Init, MatrixHolds
<1> QED
  BY <1>1, TypeInit, TypeStep, MatrixStep, PTL DEF Spec
-----------------------------------------------------------------------------
(* Versions name rows                                                      *)

(* What may become of the row of an asset in one step.                     *)
Advances(a) ==
    \/ assets'[a] = assets[a]
    \/ assets[a] = Unborn
    \/ a \in Live /\ assets'[a] = Deleted
    \/ a \in Live /\ assets'[a] \in Row /\ assets'[a].version = assets[a].version + 1

LEMMA EditAdvances ==
    ASSUME TypeOK, NEW a \in Assets, NEW i \in 1 .. MaxEvents, NEW fix \in Corrections,
           Edit(a, i, fix), NEW b \in Assets
    PROVE  Advances(b)
<1> DEFINE Fixed == { j \in DOMAIN timeline[b] : <<b, j>> \in EditedTogether(a, i) }
           j == CHOOSE j \in Fixed : TRUE
           to == Corrected(timeline[b][j].to, fix)
<1>1. assets'[b] = IF Fixed = {} THEN assets[b] ELSE Restated(assets[b], to)
  BY DEF Edit
<1>2. CASE Fixed = {}
  BY <1>1, <1>2 DEF Advances
<1>3. CASE Fixed # {}
  <2>1. j \in DOMAIN timeline[b] /\ timeline[b] \in Seq(Event)
    BY <1>3 DEF TypeOK, LedgerTypeOK
  <2>2. b \in Live
    <3>1. timeline[b] # <<>>
      BY <2>1
    <3> QED
      BY <3>1 DEF TypeOK, HistoriesBegin
  <2>3. timeline[b][j] \in Event
    <3> HIDE DEF j
    <3> QED
      BY <2>1
  <2>4. to \in State /\ assets[b] \in Row
    BY <2>2, <2>3, CorrectedTyped, InputsAssumption, LiveRow DEF Event, TypeOK
  <2> HIDE DEF Fixed, j, to
  <2> QED
    BY <1>1, <1>3, <2>2, <2>4, RestatedTyped DEF Advances
<1> QED
  BY <1>2, <1>3

LEMMA RowsAdvance ==
    ASSUME TypeOK, [Next]_vars, NEW a \in Assets
    PROVE  Advances(a)
<1>1. ASSUME NEW M, NEW row, NEW event, Appending(M, row, event)
      PROVE  Advances(a)
  <2>1. /\ M \subseteq Live /\ row \in [M -> Row]
        /\ assets'[a] = IF a \in M THEN row[a] ELSE assets[a]
        /\ a \in M => row[a].version = assets[a].version + 1
    BY <1>1 DEF Appending
  <2> QED
    BY <2>1 DEF Advances
<1>2. ASSUME NEW S, NEW row, NEW event, Entering(S, row, event)
      PROVE  Advances(a)
  BY <1>2 DEF Entering, Advances
<1>3. ASSUME NEW b, NEW row, Rewriting(b, row)
      PROVE  Advances(a)
  <2>1. DOMAIN assets = Assets
    BY DEF TypeOK, LedgerTypeOK
  <2> QED
    BY <1>3, <2>1 DEF Rewriting, Advances
<1>4. ASSUME NEW S \in SUBSET Assets, DeleteAssets(S)
      PROVE  Advances(a)
  BY <1>4 DEF DeleteAssets, Advances
<1>5. CASE UNCHANGED <<assets, timeline>>
  BY <1>5 DEF Advances
<1>6. ASSUME NEW w \in Workers, ApplyCommit(w)
      PROVE  Advances(a)
  BY <1>1, <1>6, ApplyCommitAppends
<1>7. ASSUME NEW c \in Clients, SaveForm(c)
      PROVE  Advances(a)
  BY <1>1, <1>3, <1>7, SaveFormMoves
<1>8. ASSUME NEW b \in Assets, Create(b)
      PROVE  Advances(a)
  BY <1>2, <1>8, CreateEnters
<1>9. ASSUME NEW S \in SUBSET Assets, Import(S)
      PROVE  Advances(a)
  BY <1>2, <1>9, ImportEnters
<1> QED
  BY <1>4, <1>5, <1>6, <1>7, <1>8, <1>9, EditAdvances, LedgerSteps

(* A form keeps what it shows until it is closed, and is only opened on    *)
(* the row of an asset that is there.                                      *)
LEMMA FormsKeep ==
    ASSUME TypeOK, [Next]_vars, NEW c \in Clients
    PROVE  \/ form'[c] \in {form[c], Idle}
           \/ assets' = assets /\ \E a \in Live : form'[c] = [asset |-> a, seen |-> assets[a]]
<1>0. DOMAIN form = Clients
  BY DEF TypeOK, RequestTypeOK
<1>1. ASSUME NEW d \in Clients, NEW a \in Assets, OpenForm(d, a)
      PROVE  \/ form'[c] \in {form[c], Idle}
             \/ assets' = assets /\ form'[c] = [asset |-> a, seen |-> assets[a]] /\ a \in Live
  BY <1>0, <1>1 DEF OpenForm
<1>2. ASSUME NEW d \in Clients, CloseForm(d) \/ SaveForm(d)
      PROVE  form'[c] \in {form[c], Idle}
  BY <1>0, <1>2 DEF CloseForm, SaveForm
<1>3. CASE UNCHANGED form
  BY <1>3
<1> QED
  BY <1>1, <1>2, <1>3
  DEF Next, vars, ApplyPrepare, ApplyCommit, ApplyRefuse, Edit, Create, Import, DeleteAssets,
      CreateStatus, UpdateStatus, DeleteStatusCheck, DeleteStatusCommit, SetDefaultStock

LEMMA VersionStep == TypeOK /\ VersionNamesRow /\ [Next]_vars => VersionNamesRow'
<1> SUFFICES ASSUME TypeOK, VersionNamesRow, [Next]_vars, NEW c \in Clients, form'[c] # Idle
             PROVE  ShowsVersion(form[c])'
  BY DEF VersionNamesRow
<1>1. CASE form'[c] = form[c]
  <2> DEFINE f == form[c]
             a == f.asset
  <2>1. f \in Form /\ a \in Assets /\ f.seen \in Row /\ ShowsVersion(f)
    BY <1>1 DEF TypeOK, RequestTypeOK, Form, VersionNamesRow
  <2>2. Advances(a)
    BY <2>1, RowsAdvance
  <2>3. f.seen.version \in Nat /\ (a \in Live => assets[a].version \in Nat)
    BY <2>1, LiveRow DEF Row, TypeOK
  <2>4. CASE assets'[a] = assets[a]
    BY <1>1, <2>1, <2>4 DEF ShowsVersion, Live
  <2>5. CASE a \in Live /\ assets'[a] = Deleted
    BY <1>1, <2>5, MarkersAssumption DEF ShowsVersion, Live
  <2>6. CASE a \in Live /\ assets'[a] \in Row /\ assets'[a].version = assets[a].version + 1
    <3>1. assets[a].version >= f.seen.version
      BY <2>1, <2>6 DEF ShowsVersion
    <3>2. assets'[a].version > f.seen.version
      BY <2>3, <2>6, <3>1
    <3>3. assets'[a] # Unborn
      BY <2>6, MarkersAssumption
    <3> HIDE DEF f
    <3>4. assets'[a].version >= f.seen.version /\ assets'[a].version # f.seen.version
      BY <2>3, <2>6, <3>2
    <3> QED
      BY <1>1, <3>3, <3>4 DEF ShowsVersion, f
  <2> QED
    BY <2>1, <2>2, <2>4, <2>5, <2>6 DEF Advances, ShowsVersion
<1>2. ASSUME NEW a \in Live, assets' = assets, form'[c] = [asset |-> a, seen |-> assets[a]]
      PROVE  ShowsVersion(form[c])'
  <2>1. assets[a] \in Row /\ assets[a].version \in Nat
    BY LiveRow DEF TypeOK, Row
  <2> QED
    BY <1>2, <2>1, MarkersAssumption DEF ShowsVersion
<1> QED
  BY <1>1, <1>2, FormsKeep

(* An edit form whose version is still current shows the row as it is, so  *)
(* the version check of a save never lets one overwrite a change its       *)
(* author has not seen.                                                    *)
THEOREM VersionsNameRows == Spec => []VersionNamesRow
<1>1. Init => VersionNamesRow
  BY DEF Init, VersionNamesRow
<1> QED
  BY <1>1, TypeInit, TypeStep, VersionStep, PTL DEF Spec

-----------------------------------------------------------------------------
(* Histories keep what they say                                            *)

(* Two events of an asset cannot both be its newest.                       *)
LEMMA OneTail ==
    ASSUME LedgerTypeOK, NEW a \in Assets, NEW i, NEW j, IsTail(a, i), IsTail(a, j)
    PROVE  i = j
<1>1. /\ timeline[a] \in Seq(Event) /\ Len(timeline[a]) \in Nat
      /\ DOMAIN timeline[a] = 1 .. Len(timeline[a])
      /\ i \in DOMAIN timeline[a] /\ j \in DOMAIN timeline[a]
  BY DEF LedgerTypeOK, IsTail
<1>2. timeline[a][i] \in Event /\ timeline[a][j] \in Event
  BY <1>1
<1>3. timeline[a][i].at \in Nat /\ timeline[a][j].at \in Nat
  BY <1>2 DEF Event
<1>4. /\ \/ timeline[a][j].at < timeline[a][i].at
         \/ timeline[a][j].at = timeline[a][i].at /\ j <= i
      /\ \/ timeline[a][i].at < timeline[a][j].at
         \/ timeline[a][i].at = timeline[a][j].at /\ i <= j
  BY <1>1 DEF IsTail
<1>5. i \in Nat /\ j \in Nat
  BY <1>1
<1> QED
  BY <1>3, <1>4, <1>5

(* What a correction does to the history of one asset: of its events at    *)
(* most the newest is rewritten, and then the asset is where it now says.  *)
LEMMA EditAlters ==
    ASSUME TypeOK, NEW a \in Assets, NEW i \in 1 .. MaxEvents, NEW fix \in Corrections,
           Edit(a, i, fix), NEW b \in Assets
    PROVE  /\ DOMAIN timeline'[b] = DOMAIN timeline[b]
           /\ Len(timeline'[b]) = Len(timeline[b])
           /\ \/ /\ timeline'[b] = timeline[b] /\ assets'[b] = assets[b]
                 /\ \A j \in DOMAIN timeline[b] : <<b, j>> \notin EditedTogether(a, i)
              \/ \E j \in DOMAIN timeline[b], to \in State :
                    /\ IsTail(b, j)
                    /\ timeline[b][j] \in Event /\ b \in Live
                    /\ timeline'[b] = [timeline[b] EXCEPT ![j] = CorrectedEvent(@, to)]
                    /\ assets'[b] = Restated(assets[b], to)
<1> DEFINE members == EditedTogether(a, i)
           Fixed == { j \in DOMAIN timeline[b] : <<b, j>> \in members }
           to(j) == Corrected(timeline[b][j].to, fix)
<1>1. /\ timeline[b] \in Seq(Event) /\ Len(timeline[b]) \in Nat
      /\ DOMAIN timeline[b] = 1 .. Len(timeline[b])
  BY DEF TypeOK, LedgerTypeOK
<1>2. timeline'[b] = [j \in DOMAIN timeline[b] |->
          IF j \in Fixed THEN CorrectedEvent(timeline[b][j], to(j)) ELSE timeline[b][j]]
  BY DEF Edit
<1>3. assets'[b] = IF Fixed = {} THEN assets[b]
                   ELSE Restated(assets[b], to(CHOOSE j \in Fixed : TRUE))
  BY DEF Edit
<1>4. DOMAIN timeline'[b] = DOMAIN timeline[b]
  BY <1>2
<1>5. Len(timeline'[b]) = Len(timeline[b])
  <2>1. timeline'[b] \in Seq(Event)
    BY EditType DEF TypeOK, LedgerTypeOK
  <2>2. Len(timeline'[b]) \in Nat /\ DOMAIN timeline'[b] = 1 .. Len(timeline'[b])
    BY <2>1
  <2> QED
    BY <1>1, <1>4, <2>2
<1>6. CASE Fixed = {}
  <2>1. timeline'[b] = timeline[b]
    <3>1. timeline'[b] = [j \in DOMAIN timeline[b] |-> timeline[b][j]]
      <4> HIDE DEF Fixed, to
      <4> QED
        BY <1>2, <1>6
    <3> QED
      BY <1>1, <3>1
  <2> QED
    BY <1>3, <1>4, <1>5, <1>6, <2>1
<1>7. CASE Fixed # {}
  <2>1. PICK j \in Fixed : TRUE
    BY <1>7
  <2>2. j \in DOMAIN timeline[b] /\ timeline[b][j] \in Event
    BY <1>1
  <2>3. to(j) \in State
    BY <2>2, CorrectedTyped, InputsAssumption DEF Event
  <2>4. \A k \in Fixed : IsTail(b, k)
    BY DEF Edit, Correctable
  <2>5. \A k \in Fixed : k = j
    BY <2>1, <2>4, OneTail DEF TypeOK
  <2>6. timeline'[b] = [timeline[b] EXCEPT ![j] = CorrectedEvent(@, to(j))]
    <3> HIDE DEF Fixed, to
    <3> QED
      BY <1>1, <1>2, <2>1, <2>2, <2>5
  <2>7. assets'[b] = Restated(assets[b], to(j))
    <3> HIDE DEF Fixed, to
    <3> QED
      BY <1>3, <1>7, <2>5
  <2>8. timeline[b] # <<>>
    BY <1>1, <2>2
  <2>9. b \in Live
    BY <2>8 DEF TypeOK, HistoriesBegin
  <2> QED
    BY <1>4, <1>5, <2>1, <2>2, <2>3, <2>4, <2>6, <2>7, <2>9
<1> QED
  BY <1>6, <1>7

(* What a step may do to the history of an asset that is there before and  *)
(* after it.                                                               *)
Extended(a) ==
    \E e \in Event :
        /\ timeline'[a] = Append(timeline[a], e)
        /\ e.from = assets[a].st /\ e.to = assets'[a].st
        /\ assets'[a] \in Row
        /\ ValidTransition(statuses, e.from.status, e.to.status)

Amended(a) ==
    \E j \in DOMAIN timeline[a], to \in State :
        /\ IsTail(a, j)
        /\ timeline[a][j] \in Event
        /\ timeline'[a] = [timeline[a] EXCEPT ![j] = CorrectedEvent(@, to)]
        /\ DOMAIN timeline'[a] = DOMAIN timeline[a]
        /\ Len(timeline'[a]) = Len(timeline[a])
        /\ assets'[a] = Restated(assets[a], to)

LEMMA HistorySteps ==
    ASSUME TypeOK, [Next]_vars, NEW a \in Live, a \in Live'
    PROVE  \/ timeline'[a] = timeline[a] /\ assets'[a].st = assets[a].st
           \/ Extended(a)
           \/ Amended(a)
<1>0. a \in Assets /\ assets[a] # Unborn
  BY DEF Live
<1>1. ASSUME NEW M, NEW row, NEW event, Appending(M, row, event)
      PROVE  \/ timeline'[a] = timeline[a] /\ assets'[a].st = assets[a].st
             \/ Extended(a)
  <2>1. CASE a \in M
    <3>1. /\ event[a] \in Event /\ row[a] \in Row /\ assets'[a] = row[a]
          /\ timeline'[a] = Append(timeline[a], event[a])
          /\ event[a].from = assets[a].st /\ event[a].to = row[a].st
          /\ ValidTransition(statuses, event[a].from.status, event[a].to.status)
      BY <1>0, <1>1, <2>1 DEF Appending
    <3> QED
      BY <3>1 DEF Extended
  <2>2. CASE a \notin M
    BY <1>0, <1>1, <2>2 DEF Appending
  <2> QED
    BY <2>1, <2>2
<1>2. ASSUME NEW S, NEW row, NEW event, Entering(S, row, event)
      PROVE  timeline'[a] = timeline[a] /\ assets'[a].st = assets[a].st
  BY <1>0, <1>2 DEF Entering
<1>3. ASSUME NEW b, NEW row, Rewriting(b, row)
      PROVE  timeline'[a] = timeline[a] /\ assets'[a].st = assets[a].st
  <2>1. DOMAIN assets = Assets
    BY DEF TypeOK, LedgerTypeOK
  <2> QED
    BY <1>0, <1>3, <2>1 DEF Rewriting
<1>4. ASSUME NEW S \in SUBSET Assets, DeleteAssets(S)
      PROVE  timeline'[a] = timeline[a] /\ assets'[a].st = assets[a].st
  BY <1>0, <1>4 DEF DeleteAssets, Live
<1>5. ASSUME NEW b \in Assets, NEW i \in 1 .. MaxEvents, NEW fix \in Corrections, Edit(b, i, fix)
      PROVE  \/ timeline'[a] = timeline[a] /\ assets'[a].st = assets[a].st
             \/ Amended(a)
  <2>1. \/ timeline'[a] = timeline[a] /\ assets'[a] = assets[a]
        \/ Amended(a)
    BY <1>0, <1>5, EditAlters DEF Amended
  <2> QED
    BY <2>1
<1>6. ASSUME NEW w \in Workers, ApplyCommit(w)
      PROVE  \/ timeline'[a] = timeline[a] /\ assets'[a].st = assets[a].st
             \/ Extended(a)
  BY <1>1, <1>6, ApplyCommitAppends
<1>7. ASSUME NEW c \in Clients, SaveForm(c)
      PROVE  \/ timeline'[a] = timeline[a] /\ assets'[a].st = assets[a].st
             \/ Extended(a)
  BY <1>1, <1>3, <1>7, SaveFormMoves
<1>8. ASSUME NEW b \in Assets, Create(b)
      PROVE  timeline'[a] = timeline[a] /\ assets'[a].st = assets[a].st
  BY <1>2, <1>8, CreateEnters
<1>9. ASSUME NEW S \in SUBSET Assets, Import(S)
      PROVE  timeline'[a] = timeline[a] /\ assets'[a].st = assets[a].st
  BY <1>2, <1>9, ImportEnters
<1>10. CASE UNCHANGED <<assets, timeline>>
  BY <1>10
<1> QED
  BY <1>4, <1>5, <1>6, <1>7, <1>8, <1>9, <1>10, LedgerSteps

(* An event that is left alone is kept, and so is one that is corrected    *)
(* while it is the newest.                                                 *)
LEMMA SameEventKept ==
    ASSUME NEW e \in Event, NEW newest
    PROVE  EventKept(e, e, newest)
BY DEF EventKept, Event

LEMMA CorrectedEventKept ==
    ASSUME NEW e \in Event, NEW to \in State
    PROVE  /\ [CorrectedEvent(e, to) EXCEPT !.to = e.to, !.original = e.original] = e
           /\ CorrectedEvent(e, to).batch = e.batch
           /\ CorrectedEvent(e, to).original # NoState
           /\ CorrectedEvent(e, to).original = IF e.original = NoState THEN e.to ELSE e.original
<1>1. e.to \in State
  BY DEF Event
<1> QED
  BY <1>1, NoStateAssumption DEF CorrectedEvent, Event

LEMMA StepKeepsHistory ==
    ASSUME TypeOK, [Next]_vars, NEW a \in Live, a \in Live'
    PROVE  HistoryKept(a)
<1>1. /\ a \in Assets /\ timeline[a] \in Seq(Event) /\ Len(timeline[a]) \in Nat
      /\ DOMAIN timeline[a] = 1 .. Len(timeline[a])
  BY DEF TypeOK, LedgerTypeOK, Live
<1>2. \A i \in DOMAIN timeline[a] : timeline[a][i] \in Event
  BY <1>1
<1>3. CASE /\ Len(timeline[a]) <= Len(timeline'[a])
           /\ \A i \in DOMAIN timeline[a] : timeline'[a][i] = timeline[a][i]
  <2>1. \A i \in DOMAIN timeline[a] : EventKept(timeline[a][i], timeline'[a][i], IsTail(a, i))
    BY <1>2, <1>3, SameEventKept
  <2> QED
    BY <1>3, <2>1 DEF HistoryKept
<1>4. CASE timeline'[a] = timeline[a]
  BY <1>1, <1>3, <1>4
<1>5. CASE Extended(a)
  <2>1. PICK e \in Event : timeline'[a] = Append(timeline[a], e)
    BY <1>5 DEF Extended
  <2>2. /\ Len(timeline'[a]) = Len(timeline[a]) + 1
        /\ \A i \in DOMAIN timeline[a] : timeline'[a][i] = timeline[a][i]
    BY <1>1, <2>1
  <2> QED
    BY <1>1, <1>3, <2>2
<1>6. CASE Amended(a)
  <2>1. PICK j \in DOMAIN timeline[a], to \in State :
          /\ IsTail(a, j)
          /\ timeline'[a] = [timeline[a] EXCEPT ![j] = CorrectedEvent(@, to)]
          /\ Len(timeline'[a]) = Len(timeline[a])
    BY <1>6 DEF Amended
  <2>2. /\ timeline'[a][j] = CorrectedEvent(timeline[a][j], to)
        /\ \A i \in DOMAIN timeline[a] \ {j} : timeline'[a][i] = timeline[a][i]
    BY <1>1, <2>1
  <2>3. EventKept(timeline[a][j], timeline'[a][j], IsTail(a, j))
    <3> DEFINE e == timeline[a][j]
               f == timeline'[a][j]
    <3>1. /\ [f EXCEPT !.to = e.to, !.original = e.original] = e
          /\ f.original # NoState
          /\ f.original = IF e.original = NoState THEN e.to ELSE e.original
      <4>1. e \in Event /\ f = CorrectedEvent(e, to)
        BY <1>2, <2>1, <2>2
      <4> HIDE DEF e, f
      <4> QED
        BY <2>1, <4>1, CorrectedEventKept
    <3> HIDE DEF e, f
    <3>2. EventKept(e, f, IsTail(a, j))
      BY <2>1, <3>1 DEF EventKept
    <3> QED
      BY <3>2 DEF e, f
  <2>4. \A i \in DOMAIN timeline[a] \ {j} :
          EventKept(timeline[a][i], timeline'[a][i], IsTail(a, i))
    BY <1>2, <2>2, SameEventKept
  <2>5. \A i \in DOMAIN timeline[a] : EventKept(timeline[a][i], timeline'[a][i], IsTail(a, i))
    BY <2>3, <2>4
  <2>6. Len(timeline[a]) <= Len(timeline'[a])
    BY <1>1, <2>1
  <2> QED
    BY <2>5, <2>6 DEF HistoryKept
<1> QED
  BY <1>4, <1>5, <1>6, HistorySteps

(* No step takes an event out of the history of an asset that is there, or *)
(* rewrites anything but where its newest event goes, and what that event  *)
(* first said is kept however often it is corrected (transfer.Edit).       *)
THEOREM HistoriesAreImmutable == Spec => HistoryIsImmutable
<1>1. ASSUME TypeOK, [Next]_vars
      PROVE  [ \A a \in Live : a \in Live' => HistoryKept(a) ]_vars
  BY <1>1, StepKeepsHistory
<1> QED
  BY <1>1, LedgerTypeCorrect, PTL DEF Spec, HistoryIsImmutable

-----------------------------------------------------------------------------
(* Retired is the end                                                      *)

(* The built-in end stays one: only custom statuses are created, updated   *)
(* and deleted.                                                            *)
RetiredIsTerminal == IsTerminal(statuses, "retired")

LEMMA RetiredStep == TypeOK /\ RetiredIsTerminal /\ [Next]_vars => RetiredIsTerminal'
<1> SUFFICES ASSUME TypeOK, RetiredIsTerminal, [Next]_vars
             PROVE  RetiredIsTerminal'
  OBVIOUS
<1>1. \A k \in CustomKeys : k # "retired"
  BY CustomKeysAssumption DEF Builtin
<1>2. ASSUME NEW k \in CustomKeys, NEW t \in BOOLEAN, CreateStatus(k, t) \/ UpdateStatus(k, t)
      PROVE  RetiredIsTerminal'
  BY <1>1, <1>2 DEF CreateStatus, UpdateStatus, RetiredIsTerminal, IsTerminal
<1>3. ASSUME NEW k \in CustomKeys, DeleteStatusCommit(k)
      PROVE  RetiredIsTerminal'
  BY <1>1, <1>3 DEF DeleteStatusCommit, RetiredIsTerminal, IsTerminal
<1>4. CASE UNCHANGED statuses
  BY <1>4 DEF RetiredIsTerminal
<1>5. ASSUME NEW w \in Workers, ApplyPrepare(w) \/ ApplyCommit(w) \/ ApplyRefuse(w)
      PROVE  UNCHANGED statuses
  BY <1>5 DEF ApplyPrepare, ApplyCommit, ApplyRefuse
<1>6. ASSUME NEW c \in Clients, SaveForm(c)
      PROVE  UNCHANGED statuses
  BY <1>6 DEF SaveForm
<1>7. ASSUME NEW a \in Assets, NEW i \in 1 .. MaxEvents, NEW fix \in Corrections, Edit(a, i, fix)
      PROVE  UNCHANGED statuses
  BY <1>7 DEF Edit
<1> QED
  BY <1>2, <1>3, <1>4, <1>5, <1>6, <1>7
  DEF Next, vars, Create, Import, DeleteAssets, OpenForm, CloseForm, DeleteStatusCheck,
      SetDefaultStock

LEMMA RetiredInit == Init => RetiredIsTerminal
BY DEF Init, RetiredIsTerminal, IsTerminal, SeededStatuses, Builtin

(* No transition leaves retired, whatever custom statuses there are.       *)
LEMMA NoWayBack ==
    ASSUME RetiredIsTerminal, NEW to, ValidTransition(statuses, "retired", to)
    PROVE  to = "retired"
BY DEF RetiredIsTerminal, ValidTransition, CanTransition

LEMMA LeavingRetired ==
    ASSUME TypeOK, RetiredIsTerminal, [Next]_vars, NEW a \in Live, a \in Live',
           assets[a].st.status = "retired", assets'[a].st.status # "retired"
    PROVE  PlacedByCorrection(a)
<1>1. ~ (timeline'[a] = timeline[a] /\ assets'[a].st = assets[a].st)
  OBVIOUS
<1>2. ~ Extended(a)
  BY NoWayBack DEF Extended
<1>3. PICK j \in DOMAIN timeline[a], to \in State :
        /\ IsTail(a, j)
        /\ timeline[a][j] \in Event
        /\ timeline'[a] = [timeline[a] EXCEPT ![j] = CorrectedEvent(@, to)]
        /\ Len(timeline'[a]) = Len(timeline[a])
        /\ assets'[a] = Restated(assets[a], to)
  BY <1>1, <1>2, HistorySteps DEF Amended
<1>4. timeline'[a][j] = CorrectedEvent(timeline[a][j], to)
  BY <1>3
<1>5. timeline'[a][j].to = to /\ timeline'[a][j].original # NoState
  <2>1. CorrectedEvent(timeline[a][j], to).to = to
    BY <1>3, CorrectedEventTyped
  <2>2. CorrectedEvent(timeline[a][j], to).original # NoState
    BY <1>3, CorrectedEventKept
  <2> QED
    BY <1>4, <2>1, <2>2
<1>6. assets'[a].st = to
  BY <1>3, LiveRow, RestatedTyped DEF TypeOK
<1> QED
  BY <1>3, <1>5, <1>6 DEF PlacedByCorrection

(* Nothing comes back from retired but by correcting the newest event of   *)
(* its history, whatever custom statuses are configured meanwhile.         *)
THEOREM RetiredIsLeftOnlyByCorrection == Spec => RetiredLeftOnlyByCorrection
<1>1. ASSUME TypeOK, RetiredIsTerminal, [Next]_vars
      PROVE  [ \A a \in Live :
                 (a \in Live' /\ assets[a].st.status = "retired"
                              /\ assets'[a].st.status # "retired")
                     => PlacedByCorrection(a) ]_vars
  BY <1>1, LeavingRetired
<1> QED
  BY <1>1, LedgerTypeCorrect, RetiredInit, RetiredStep, PTL
  DEF Spec, RetiredLeftOnlyByCorrection

-----------------------------------------------------------------------------
(* Batches move together                                                   *)

(* A handler is done when its transaction is: committed or rolled back.    *)
LEMMA EndsByAnswer ==
    ASSUME TypeOK, [Next]_vars, NEW w \in Workers, Ends(w)
    PROVE  ApplyCommit(w) \/ (ApplyRefuse(w) /\ UNCHANGED assets)
<1>1. DOMAIN applying = Workers
  BY DEF TypeOK, RequestTypeOK
<1>2. ASSUME NEW v \in Workers, ApplyPrepare(v)
      PROVE  FALSE
  <2>1. v # w => applying'[w] = applying[w]
    BY <1>1, <1>2 DEF ApplyPrepare
  <2>2. v # w
    BY <1>2 DEF ApplyPrepare, Ends
  <2> QED
    BY <2>1, <2>2 DEF Ends
<1>3. ASSUME NEW v \in Workers, ApplyCommit(v) \/ ApplyRefuse(v)
      PROVE  v = w
  <2>1. v # w => applying'[w] = applying[w]
    BY <1>1, <1>3 DEF ApplyCommit, ApplyRefuse
  <2> QED
    BY <2>1 DEF Ends
<1>4. applying' # applying
  BY DEF Ends
<1>5. ~ \E c \in Clients : SaveForm(c)
  BY <1>4 DEF SaveForm
<1>6. ~ \E a \in Assets, i \in 1 .. MaxEvents, fix \in Corrections : Edit(a, i, fix)
  BY <1>4 DEF Edit
<1>7. \E v \in Workers : ApplyCommit(v) \/ ApplyRefuse(v)
  BY <1>2, <1>4, <1>5, <1>6
  DEF Next, vars, Create, Import, DeleteAssets, OpenForm, CloseForm, CreateStatus, UpdateStatus,
      DeleteStatusCheck, DeleteStatusCommit, SetDefaultStock
<1>8. ASSUME ApplyRefuse(w)
      PROVE  UNCHANGED assets
  BY <1>8 DEF ApplyRefuse
<1> QED
  BY <1>3, <1>7, <1>8

(* After the transaction every asset named is where it was sent, those     *)
(* that were there already included.                                       *)
LEMMA CommitDelivers ==
    ASSUME TypeOK, NEW w \in Workers, ApplyCommit(w), NEW a \in applying[w].req.ids
    PROVE  LET p == applying[w]
           IN  /\ a \in Live /\ p \in Prepared
               /\ HasDestination(p.req, assets[a], p.fallback)
               /\ assets'[a].st = Destination(p.req, assets[a], p.fallback)
<1> DEFINE p == applying[w]
           dest == Destination(p.req, assets[a], p.fallback)
<1>1. p \in Prepared /\ p.req \in Request /\ p.fallback \in Holders \cup {NoHolder}
  BY DEF ApplyCommit, TypeOK, RequestTypeOK, Prepared
<1>2. a \in Live /\ HasDestination(p.req, assets[a], p.fallback)
  BY DEF ApplyCommit, Movable
<1>3. a \in Assets /\ assets[a] \in Row
  BY <1>2, LiveRow DEF TypeOK
<1>4. dest \in State
  BY <1>1, <1>2, <1>3, DestinationTyped
<1>5. assets'[a] = IF a \in Moved(p) THEN Restated(assets[a], dest) ELSE assets[a]
  BY <1>3 DEF ApplyCommit
<1>6. a \in Moved(p) <=> assets[a].st # dest
  BY DEF Moved, EmitsEvent
<1>7. assets'[a].st = dest
  <2> HIDE DEF dest, p
  <2> QED
    BY <1>3, <1>4, <1>5, <1>6, RestatedTyped
<1> QED
  BY <1>1, <1>2, <1>7

LEMMA CommitMovesAll ==
    ASSUME TypeOK, NEW w \in Workers, ApplyCommit(w), NEW a \in applying[w].req.ids
    PROVE  HasBeenMoved(applying[w].req, a)
<1> DEFINE p == applying[w]
<1>1. a \in Live /\ assets'[a].st = Destination(p.req, assets[a], p.fallback)
  BY CommitDelivers
<1> HIDE DEF p
<1>2. /\ p.req.status \in {Keep, assets'[a].st.status}
      /\ p.req.owner \in {Keep, assets'[a].st.owner}
      /\ p.req.holder \in {Keep, assets'[a].st.holder}
  BY <1>1 DEF Destination, Pick, GoesHome
<1> QED
  BY <1>1, <1>2 DEF HasBeenMoved, p

(* A transfer that changes anything leaves every asset it names with the   *)
(* status, the owner and the holder it asked for (transfer.Apply), however *)
(* the assets were moved while it waited for the write lock.               *)
THEOREM BatchesMoveAllOrNone == Spec => BatchMovesAllOrNone
<1>1. ASSUME TypeOK, [Next]_vars
      PROVE  [ \A w \in Workers :
                 Ends(w) /\ (\E a \in applying[w].req.ids : assets'[a] # assets[a])
                   => \A a \in applying[w].req.ids : HasBeenMoved(applying[w].req, a) ]_vars
  BY <1>1, EndsByAnswer, CommitMovesAll
<1> QED
  BY <1>1, LedgerTypeCorrect, PTL DEF Spec, BatchMovesAllOrNone

(* The fallback of a request under way is a place that may be the default  *)
(* stock point: it was, when the request was prepared.                     *)
FallbackIsALocation ==
    \A w \in Workers : applying[w] # Idle => applying[w].fallback \in Locations \cup {NoHolder}

LEMMA FallbackStep == TypeOK /\ FallbackIsALocation /\ [Next]_vars => FallbackIsALocation'
<1> SUFFICES ASSUME TypeOK, FallbackIsALocation, [Next]_vars
             PROVE  FallbackIsALocation'
  OBVIOUS
<1>1. DOMAIN applying = Workers
  BY DEF TypeOK, RequestTypeOK
<1>2. ASSUME NEW w \in Workers, ApplyPrepare(w)
      PROVE  FallbackIsALocation'
  <2>1. /\ \A v \in Workers \ {w} : applying'[v] = applying[v]
        /\ applying'[w].fallback \in {defaultStock, NoHolder}
    BY <1>1, <1>2 DEF ApplyPrepare
  <2>2. defaultStock \in Locations \cup {NoHolder}
    BY DEF TypeOK, StatusTypeOK
  <2> QED
    BY <2>1, <2>2 DEF FallbackIsALocation
<1>3. ASSUME NEW w \in Workers, ApplyCommit(w) \/ ApplyRefuse(w)
      PROVE  FallbackIsALocation'
  <2>1. \A v \in Workers : applying'[v] \in {applying[v], Idle}
    BY <1>1, <1>3 DEF ApplyCommit, ApplyRefuse
  <2> QED
    BY <2>1 DEF FallbackIsALocation
<1>4. CASE UNCHANGED applying
  BY <1>4 DEF FallbackIsALocation
<1>5. ASSUME NEW c \in Clients, SaveForm(c)
      PROVE  UNCHANGED applying
  BY <1>5 DEF SaveForm
<1>6. ASSUME NEW a \in Assets, NEW i \in 1 .. MaxEvents, NEW fix \in Corrections, Edit(a, i, fix)
      PROVE  UNCHANGED applying
  BY <1>6 DEF Edit
<1> QED
  BY <1>2, <1>3, <1>4, <1>5, <1>6
  DEF Next, vars, Create, Import, DeleteAssets, OpenForm, CloseForm, CreateStatus, UpdateStatus,
      DeleteStatusCheck, DeleteStatusCommit, SetDefaultStock

LEMMA CheckInDelivers ==
    ASSUME TypeOK, FallbackIsALocation, NEW w \in Workers, ApplyCommit(w),
           GoesHome(applying[w].req), NEW a \in applying[w].req.ids
    PROVE  HasGoneHome(a)
<1> DEFINE p == applying[w]
<1>1. /\ a \in Live /\ p # Idle /\ p.fallback \in Locations \cup {NoHolder}
      /\ HasDestination(p.req, assets[a], p.fallback)
      /\ assets'[a].st = Destination(p.req, assets[a], p.fallback)
  BY CommitDelivers DEF FallbackIsALocation, ApplyCommit
<1>2. assets[a].home \in Holders \cup {NoHolder}
  BY <1>1, LiveRow DEF TypeOK, Row
<1> HIDE DEF p
<1>3. assets'[a].st.holder = ReturnPoint(assets[a], p.fallback)
  BY <1>1 DEF Destination, p
<1>4. ReturnPoint(assets[a], p.fallback) # NoHolder
  BY <1>1 DEF HasDestination, p
<1> QED
  BY <1>1, <1>2, <1>3, <1>4, InputsAssumption DEF ReturnPoint, HasGoneHome

(* A check-in takes each asset to its own home, and one without a home to  *)
(* a place that was the default stock point when the request was prepared  *)
(* (destination), whatever happens to homes and marks in between.          *)
THEOREM CheckInsGoHome == Spec => CheckInGoesHome
<1>1. ASSUME TypeOK, FallbackIsALocation, [Next]_vars
      PROVE  [ \A w \in Workers : Ends(w) /\ GoesHome(applying[w].req) =>
                 \A a \in applying[w].req.ids : assets'[a] # assets[a] => HasGoneHome(a) ]_vars
  BY <1>1, EndsByAnswer, CheckInDelivers
<1>2. Init => FallbackIsALocation
  BY DEF Init, FallbackIsALocation
<1> QED
  BY <1>1, <1>2, LedgerTypeCorrect, FallbackStep, PTL DEF Spec, CheckInGoesHome

-----------------------------------------------------------------------------
(* Batches are corrected together                                          *)

(* The batch id of a pending request is nobody else's yet.                 *)
BatchesReserved ==
    \A w \in Workers : applying[w] # Idle /\ applying[w].batch # NoBatch =>
        /\ \A a \in Assets : \A i \in DOMAIN timeline[a] :
              timeline[a][i].batch # applying[w].batch
        /\ \A v \in Workers \ {w} : applying[v] # Idle =>
              applying[v].batch # applying[w].batch

(* A history stays within the bound a correction looks for members in.     *)
LengthsBounded ==
    \A a \in Assets : Len(timeline[a]) <= 1 \/ Len(timeline[a]) <= MaxEvents

BatchInv == BatchesReserved /\ LengthsBounded /\ BatchCorrectedTogether

(* A step adds events of one batch, not corrected yet, and leaves the      *)
(* others alone, or drops them with their asset.                           *)
AddsOnly(batch) ==
    \A a \in Assets : \A i \in DOMAIN timeline'[a] :
        \/ i \in DOMAIN timeline[a] /\ timeline'[a][i] = timeline[a][i]
        \/ timeline'[a][i].batch = batch /\ timeline'[a][i].original = NoState

(* No event and no request that stays pending carries this batch id.       *)
Unshared(batch) ==
    \/ batch = NoBatch
    \/ /\ \A a \in Assets : \A i \in DOMAIN timeline[a] : timeline[a][i].batch # batch
       /\ \A w \in Workers : applying'[w] # Idle => applying'[w].batch # batch

LEMMA NewEventPlain ==
    ASSUME NEW batch, NEW from, NEW to, NEW now
    PROVE  /\ NewEvent(batch, from, to, now).batch = batch
           /\ NewEvent(batch, from, to, now).original = NoState
BY DEF NewEvent

LEMMA AppendAdds ==
    ASSUME NEW s \in Seq(Event), NEW e
    PROVE  /\ Len(Append(s, e)) = Len(s) + 1
           /\ \A i \in DOMAIN Append(s, e) :
                 \/ i \in DOMAIN s /\ Append(s, e)[i] = s[i]
                 \/ Append(s, e)[i] = e
OBVIOUS

LEMMA CommitAdds ==
    ASSUME TypeOK, BatchInv, NEW w \in Workers, ApplyCommit(w)
    PROVE  AddsOnly(applying[w].batch) /\ Unshared(applying[w].batch) /\ LengthsBounded'
<1> DEFINE p == applying[w]
           event(a) == NewEvent(p.batch, assets[a].st,
                                Destination(p.req, assets[a], p.fallback), p.at)
<1>1. /\ timeline' = [a \in Assets |->
            IF a \in Moved(p) THEN Append(timeline[a], event(a)) ELSE timeline[a]]
      /\ \A a \in Moved(p) : Len(timeline[a]) < MaxEvents
      /\ p # Idle /\ applying' = [applying EXCEPT ![w] = Idle]
  BY DEF ApplyCommit
<1>2. \A a : event(a).batch = p.batch /\ event(a).original = NoState
  BY NewEventPlain
<1>3. \A a \in Assets : timeline[a] \in Seq(Event) /\ Len(timeline[a]) \in Nat
  BY DEF TypeOK, LedgerTypeOK
<1>4. DOMAIN applying = Workers
  BY DEF TypeOK, RequestTypeOK
<1> HIDE DEF event
<1>5. AddsOnly(p.batch)
  <2> SUFFICES ASSUME NEW a \in Assets, NEW i \in DOMAIN timeline'[a]
               PROVE  \/ i \in DOMAIN timeline[a] /\ timeline'[a][i] = timeline[a][i]
                      \/ timeline'[a][i].batch = p.batch /\ timeline'[a][i].original = NoState
    BY DEF AddsOnly
  <2>1. CASE a \in Moved(p)
    <3>1. timeline'[a] = Append(timeline[a], event(a))
      BY <1>1, <2>1
    <3> QED
      BY <1>2, <1>3, <3>1, AppendAdds
  <2>2. CASE a \notin Moved(p)
    BY <1>1, <2>2
  <2> QED
    BY <2>1, <2>2
<1>6. Unshared(p.batch)
  BY <1>1, <1>4 DEF BatchInv, BatchesReserved, Unshared
<1>7. LengthsBounded'
  <2> SUFFICES ASSUME NEW a \in Assets
               PROVE  Len(timeline'[a]) <= 1 \/ Len(timeline'[a]) <= MaxEvents
    BY DEF LengthsBounded
  <2>1. CASE a \in Moved(p)
    <3>1. timeline'[a] = Append(timeline[a], event(a)) /\ Len(timeline[a]) < MaxEvents
      BY <1>1, <2>1
    <3>2. Len(timeline'[a]) = Len(timeline[a]) + 1
      BY <1>3, <3>1, AppendAdds
    <3> QED
      BY <1>3, <3>1, <3>2, MarkersAssumption
  <2>2. CASE a \notin Moved(p)
    BY <1>1, <2>2 DEF BatchInv, LengthsBounded
  <2> QED
    BY <2>1, <2>2
<1> QED
  BY <1>5, <1>6, <1>7

LEMMA SaveAdds ==
    ASSUME TypeOK, BatchInv, NEW c \in Clients, SaveForm(c)
    PROVE  AddsOnly(NoBatch) /\ LengthsBounded' /\ UNCHANGED applying
<1> DEFINE a == form[c].asset
<1>1. PICK to, now :
        /\ timeline' = [timeline EXCEPT ![a] =
              IF EmitsEvent(assets[a].st, to)
              THEN Append(@, NewEvent(NoBatch, assets[a].st, to, now)) ELSE @]
        /\ a \in Live /\ Len(timeline[a]) < MaxEvents /\ UNCHANGED applying
  BY DEF SaveForm
<1> DEFINE event == NewEvent(NoBatch, assets[a].st, to, now)
<1>2. event.batch = NoBatch /\ event.original = NoState
  BY NewEventPlain
<1>3. \A b \in Assets : timeline[b] \in Seq(Event) /\ Len(timeline[b]) \in Nat
  BY DEF TypeOK, LedgerTypeOK
<1>4. /\ DOMAIN timeline = Assets /\ a \in Assets
      /\ \A b \in Assets \ {a} : timeline'[b] = timeline[b]
      /\ timeline'[a] = timeline[a] \/ timeline'[a] = Append(timeline[a], event)
  BY <1>1 DEF TypeOK, LedgerTypeOK, Live
<1> HIDE DEF event, a
<1>5. AddsOnly(NoBatch)
  <2> SUFFICES ASSUME NEW b \in Assets, NEW i \in DOMAIN timeline'[b]
               PROVE  \/ i \in DOMAIN timeline[b] /\ timeline'[b][i] = timeline[b][i]
                      \/ timeline'[b][i].batch = NoBatch /\ timeline'[b][i].original = NoState
    BY DEF AddsOnly
  <2>1. CASE timeline'[b] = timeline[b]
    BY <2>1
  <2>2. CASE b = a /\ timeline'[a] = Append(timeline[a], event)
    BY <1>2, <1>3, <2>2, AppendAdds
  <2> QED
    BY <1>4, <2>1, <2>2
<1>6. LengthsBounded'
  <2>1. ASSUME timeline'[a] = Append(timeline[a], event)
        PROVE  Len(timeline'[a]) <= MaxEvents
    <3>1. Len(timeline'[a]) = Len(timeline[a]) + 1
      BY <1>3, <1>4, <2>1, AppendAdds
    <3> QED
      BY <1>1, <1>3, <1>4, <3>1, MarkersAssumption DEF a
  <2> QED
    BY <1>4, <2>1 DEF BatchInv, LengthsBounded
<1> QED
  BY <1>1, <1>5, <1>6

LEMMA OthersAdd ==
    ASSUME TypeOK, BatchInv, [Next]_vars,
           ~ \E w \in Workers : ApplyPrepare(w) \/ ApplyCommit(w),
           ~ \E c \in Clients : SaveForm(c),
           ~ \E a \in Assets, i \in 1 .. MaxEvents, fix \in Corrections : Edit(a, i, fix)
    PROVE  /\ \E batch : AddsOnly(batch) /\ Unshared(batch)
           /\ LengthsBounded'
           /\ \A w \in Workers : applying'[w] \in {applying[w], Idle}
<1>0. /\ DOMAIN timeline = Assets
      /\ \A a \in Assets : timeline[a] \in Seq(Event) /\ Len(timeline[a]) \in Nat
      /\ DOMAIN applying = Workers
  BY DEF TypeOK, LedgerTypeOK, RequestTypeOK
<1>1. ASSUME NEW a \in Assets, Create(a)
      PROVE  AddsOnly(NoBatch) /\ LengthsBounded' /\ UNCHANGED applying
  <2>1. PICK to, now : timeline' = [timeline EXCEPT ![a] = <<NewEvent(NoBatch, NoState, to, now)>>]
    BY <1>1 DEF Create
  <2> DEFINE event == NewEvent(NoBatch, NoState, to, now)
  <2>2. event.batch = NoBatch /\ event.original = NoState
    BY NewEventPlain
  <2> HIDE DEF event
  <2>3. timeline'[a] = <<event>> /\ \A b \in Assets \ {a} : timeline'[b] = timeline[b]
    BY <1>0, <2>1 DEF event
  <2>4. AddsOnly(NoBatch)
    BY <2>2, <2>3 DEF AddsOnly
  <2>5. LengthsBounded'
    <3> SUFFICES ASSUME NEW b \in Assets
                 PROVE  Len(timeline'[b]) <= 1 \/ Len(timeline'[b]) <= MaxEvents
      BY DEF LengthsBounded
    <3>1. CASE b = a
      <4>1. Len(timeline'[b]) = 1
        BY <2>3, <3>1
      <4> QED
        BY <4>1
    <3>2. CASE b # a
      BY <2>3, <3>2 DEF BatchInv, LengthsBounded
    <3> QED
      BY <3>1, <3>2
  <2> QED
    BY <1>1, <2>4, <2>5 DEF Create
<1>2. ASSUME NEW S \in SUBSET Assets, Import(S)
      PROVE  /\ \E batch : AddsOnly(batch) /\ Unshared(batch)
             /\ LengthsBounded' /\ UNCHANGED applying
  <2>1. PICK actor \in Users, batch \in Batches, now \in 0 .. MaxClock, place \in [S -> Holders] :
          /\ FreshBatch(batch)
          /\ timeline' = [a \in Assets |->
                IF a \in S
                THEN <<NewEvent(batch, NoState, [status |-> "in_stock", holder |-> place[a],
                                                 owner |-> actor], now)>>
                ELSE timeline[a]]
    BY <1>2 DEF Import
  <2> DEFINE event(a) == NewEvent(batch, NoState, [status |-> "in_stock", holder |-> place[a],
                                                 owner |-> actor], now)
  <2>2. \A a : event(a).batch = batch /\ event(a).original = NoState
    BY NewEventPlain
  <2>3. \A a \in Assets : timeline'[a] = IF a \in S THEN <<event(a)>> ELSE timeline[a]
    BY <2>1
  <2> HIDE DEF event
  <2>4. AddsOnly(batch)
    <3> SUFFICES ASSUME NEW a \in Assets, NEW i \in DOMAIN timeline'[a]
                 PROVE  \/ i \in DOMAIN timeline[a] /\ timeline'[a][i] = timeline[a][i]
                        \/ timeline'[a][i].batch = batch /\ timeline'[a][i].original = NoState
      BY DEF AddsOnly
    <3>1. CASE a \in S
      <4>1. timeline'[a] = <<event(a)>>
        BY <2>3, <3>1
      <4>2. timeline'[a][i] = event(a)
        BY <4>1
      <4> QED
        BY <2>2, <4>2
    <3>2. CASE a \notin S
      BY <2>3, <3>2
    <3> QED
      BY <3>1, <3>2
  <2>5. LengthsBounded'
    <3> SUFFICES ASSUME NEW b \in Assets
                 PROVE  Len(timeline'[b]) <= 1 \/ Len(timeline'[b]) <= MaxEvents
      BY DEF LengthsBounded
    <3>1. CASE b \in S
      <4>1. timeline'[b] = <<event(b)>>
        BY <2>3, <3>1
      <4>2. Len(timeline'[b]) = 1
        BY <4>1
      <4> QED
        BY <4>2
    <3>2. CASE b \notin S
      BY <2>3, <3>2 DEF BatchInv, LengthsBounded
    <3> QED
      BY <3>1, <3>2
  <2>6. UNCHANGED applying
    BY <1>2 DEF Import
  <2>7. Unshared(batch)
    BY <2>1, <2>6 DEF FreshBatch, Unshared
  <2> QED
    BY <2>4, <2>5, <2>6, <2>7
<1>3. ASSUME NEW S \in SUBSET Assets, DeleteAssets(S)
      PROVE  AddsOnly(NoBatch) /\ LengthsBounded' /\ UNCHANGED applying
  <2>1. \A a \in Assets : timeline'[a] = IF a \in S THEN <<>> ELSE timeline[a]
    BY <1>3 DEF DeleteAssets
  <2>2. AddsOnly(NoBatch)
    BY <2>1 DEF AddsOnly
  <2>3. LengthsBounded'
    BY <2>1 DEF BatchInv, LengthsBounded
  <2> QED
    BY <1>3, <2>2, <2>3 DEF DeleteAssets
<1>4. ASSUME UNCHANGED timeline
      PROVE  AddsOnly(NoBatch) /\ LengthsBounded'
  BY <1>4 DEF AddsOnly, BatchInv, LengthsBounded
<1>5. ASSUME NEW w \in Workers, ApplyRefuse(w)
      PROVE  UNCHANGED timeline /\ \A v \in Workers : applying'[v] \in {applying[v], Idle}
  BY <1>0, <1>5 DEF ApplyRefuse
<1>6. \/ \E a \in Assets : Create(a)
      \/ \E S \in SUBSET Assets : Import(S) \/ DeleteAssets(S)
      \/ \E w \in Workers : ApplyRefuse(w)
      \/ UNCHANGED <<timeline, applying>>
  BY DEF Next, vars, OpenForm, CloseForm, CreateStatus, UpdateStatus,
      DeleteStatusCheck, DeleteStatusCommit, SetDefaultStock
<1>7. Unshared(NoBatch)
  BY DEF Unshared
<1>8. CASE \E a \in Assets : Create(a)
  BY <1>1, <1>7, <1>8
<1>9. CASE \E S \in SUBSET Assets : Import(S) \/ DeleteAssets(S)
  BY <1>2, <1>3, <1>7, <1>9
<1>10. CASE \E w \in Workers : ApplyRefuse(w)
  BY <1>4, <1>5, <1>7, <1>10
<1>11. CASE UNCHANGED <<timeline, applying>>
  BY <1>4, <1>7, <1>11
<1> QED
  BY <1>6, <1>8, <1>9, <1>10, <1>11

(* Adding the events of an unshared batch leaves the batches whole.        *)
LEMMA AddingKeepsBatches ==
    ASSUME BatchInv, NEW batch, AddsOnly(batch), Unshared(batch),
           \A w \in Workers : applying'[w] \in {applying[w], Idle}
    PROVE  BatchesReserved' /\ BatchCorrectedTogether'
<1>1. ASSUME NEW a \in Assets, NEW i \in DOMAIN timeline'[a]
      PROVE  \/ i \in DOMAIN timeline[a] /\ timeline'[a][i] = timeline[a][i]
             \/ timeline'[a][i].batch = batch /\ timeline'[a][i].original = NoState
  BY DEF AddsOnly
<1>2. ASSUME batch # NoBatch, NEW a \in Assets, NEW i \in DOMAIN timeline[a]
      PROVE  timeline[a][i].batch # batch
  BY <1>2 DEF Unshared
<1>3. BatchesReserved'
  <2> SUFFICES ASSUME NEW w \in Workers, applying'[w] # Idle, applying'[w].batch # NoBatch
               PROVE  /\ \A a \in Assets : \A i \in DOMAIN timeline'[a] :
                            timeline'[a][i].batch # applying'[w].batch
                      /\ \A v \in Workers \ {w} : applying'[v] # Idle =>
                            applying'[v].batch # applying'[w].batch
    BY DEF BatchesReserved
  <2>1. applying'[w] = applying[w]
    OBVIOUS
  <2>2. applying'[w].batch # batch
    BY DEF Unshared
  <2>3. /\ \A a \in Assets : \A i \in DOMAIN timeline[a] :
              timeline[a][i].batch # applying[w].batch
        /\ \A v \in Workers \ {w} : applying[v] # Idle =>
              applying[v].batch # applying[w].batch
    BY <2>1 DEF BatchInv, BatchesReserved
  <2>4. ASSUME NEW a \in Assets, NEW i \in DOMAIN timeline'[a]
        PROVE  timeline'[a][i].batch # applying'[w].batch
    BY <1>1, <2>1, <2>2, <2>3
  <2> QED
    BY <2>1, <2>3, <2>4
<1>4. BatchCorrectedTogether'
  <2> SUFFICES ASSUME NEW a \in Assets, NEW b \in Assets, NEW i \in DOMAIN timeline'[a],
                      NEW j \in DOMAIN timeline'[b],
                      timeline'[a][i].batch = timeline'[b][j].batch,
                      timeline'[a][i].batch # NoBatch
               PROVE  timeline'[a][i].original = NoState <=> timeline'[b][j].original = NoState
    BY DEF BatchCorrectedTogether
  <2>1. CASE /\ i \in DOMAIN timeline[a] /\ timeline'[a][i] = timeline[a][i]
             /\ j \in DOMAIN timeline[b] /\ timeline'[b][j] = timeline[b][j]
    BY <2>1 DEF BatchInv, BatchCorrectedTogether
  <2>2. CASE timeline'[a][i].batch = batch
    <3>1. timeline'[a][i].original = NoState
      BY <1>1, <1>2, <2>2
    <3>2. timeline'[b][j].original = NoState
      BY <1>1, <1>2, <2>2
    <3> QED
      BY <3>1, <3>2
  <2> QED
    BY <1>1, <2>1, <2>2
<1> QED
  BY <1>3, <1>4

LEMMA EditKeepsBatches ==
    ASSUME TypeOK, BatchInv, NEW a \in Assets, NEW i \in 1 .. MaxEvents, NEW fix \in Corrections,
           Edit(a, i, fix)
    PROVE  BatchInv'
<1> DEFINE members == EditedTogether(a, i)
<1>1. \A b \in Assets : /\ DOMAIN timeline'[b] = DOMAIN timeline[b]
                        /\ Len(timeline'[b]) = Len(timeline[b])
  BY EditAlters
<1>2. \A b \in Assets : \A j \in DOMAIN timeline[b] :
         /\ timeline'[b][j].batch = timeline[b][j].batch
         /\ <<b, j>> \in members => timeline'[b][j].original # NoState
         /\ <<b, j>> \notin members => timeline'[b][j].original = timeline[b][j].original
  <2> TAKE b \in Assets
  <2> TAKE j \in DOMAIN timeline[b]
  <2> DEFINE to == Corrected(timeline[b][j].to, fix)
  <2>1. timeline'[b][j] = IF <<b, j>> \in members THEN CorrectedEvent(timeline[b][j], to)
                          ELSE timeline[b][j]
    BY DEF Edit
  <2>2. timeline[b][j] \in Event
    BY DEF TypeOK, LedgerTypeOK
  <2>3. to \in State
    BY <2>2, CorrectedTyped, InputsAssumption DEF Event
  <2> HIDE DEF to, members
  <2>4. /\ CorrectedEvent(timeline[b][j], to).batch = timeline[b][j].batch
        /\ CorrectedEvent(timeline[b][j], to).original # NoState
    BY <2>2, <2>3, CorrectedEventKept
  <2> QED
    BY <2>1, <2>4
<1>3. ASSUME NEW b \in Assets, NEW j \in DOMAIN timeline[b], timeline[b][j].batch # NoBatch
      PROVE  <<b, j>> \in members <=> timeline[b][j].batch = timeline[a][i].batch
  <2>1. j \in 1 .. MaxEvents
    <3>1. timeline[b] \in Seq(Event) /\ Len(timeline[b]) \in Nat
          /\ j \in 1 .. Len(timeline[b])
      BY DEF TypeOK, LedgerTypeOK
    <3>2. Len(timeline[b]) <= 1 \/ Len(timeline[b]) <= MaxEvents
      BY DEF BatchInv, LengthsBounded
    <3> QED
      BY <3>1, <3>2, MarkersAssumption
  <2> QED
    BY <1>3, <2>1 DEF EditedTogether
<1> HIDE DEF members
<1>4. BatchesReserved'
  <2>1. UNCHANGED applying
    BY DEF Edit
  <2> SUFFICES ASSUME NEW w \in Workers, applying[w] # Idle, applying[w].batch # NoBatch
               PROVE  /\ \A b \in Assets : \A j \in DOMAIN timeline'[b] :
                            timeline'[b][j].batch # applying[w].batch
                      /\ \A v \in Workers \ {w} : applying[v] # Idle =>
                            applying[v].batch # applying[w].batch
    BY <2>1 DEF BatchesReserved
  <2>2. /\ \A b \in Assets : \A j \in DOMAIN timeline[b] :
              timeline[b][j].batch # applying[w].batch
        /\ \A v \in Workers \ {w} : applying[v] # Idle =>
              applying[v].batch # applying[w].batch
    BY DEF BatchInv, BatchesReserved
  <2>3. ASSUME NEW b \in Assets, NEW j \in DOMAIN timeline'[b]
        PROVE  timeline'[b][j].batch # applying[w].batch
    <3>1. j \in DOMAIN timeline[b]
      BY <1>1
    <3> QED
      BY <1>2, <2>2, <3>1
  <2> QED
    BY <2>2, <2>3
<1>5. LengthsBounded'
  BY <1>1 DEF BatchInv, LengthsBounded
<1>6. BatchCorrectedTogether'
  <2> SUFFICES ASSUME NEW b \in Assets, NEW c \in Assets, NEW j \in DOMAIN timeline'[b],
                      NEW k \in DOMAIN timeline'[c],
                      timeline'[b][j].batch = timeline'[c][k].batch,
                      timeline'[b][j].batch # NoBatch
               PROVE  timeline'[b][j].original = NoState <=> timeline'[c][k].original = NoState
    BY DEF BatchCorrectedTogether
  <2>0. j \in DOMAIN timeline[b] /\ k \in DOMAIN timeline[c]
    BY <1>1
  <2>3. timeline[b][j].batch = timeline[c][k].batch /\ timeline[b][j].batch # NoBatch
    BY <1>2, <2>0
  <2>1. <<b, j>> \in members <=> <<c, k>> \in members
    BY <1>3, <2>0, <2>3
  <2>2. timeline[b][j].original = NoState <=> timeline[c][k].original = NoState
    BY <2>0, <2>3 DEF BatchInv, BatchCorrectedTogether
  <2> QED
    BY <1>2, <2>0, <2>1, <2>2
<1> QED
  BY <1>4, <1>5, <1>6 DEF BatchInv

LEMMA PrepareKeepsBatches ==
    ASSUME TypeOK, BatchInv, NEW w \in Workers, ApplyPrepare(w)
    PROVE  BatchInv'
<1>1. PICK batch :
        /\ batch = NoBatch \/ FreshBatch(batch)
        /\ applying'[w].batch = batch
        /\ \A v \in Workers \ {w} : applying'[v] = applying[v]
        /\ applying[w] = Idle
        /\ UNCHANGED timeline
  BY DEF ApplyPrepare, TypeOK, RequestTypeOK
<1>2. BatchesReserved'
  BY <1>1 DEF BatchInv, BatchesReserved, FreshBatch
<1> QED
  BY <1>1, <1>2 DEF BatchInv, LengthsBounded, BatchCorrectedTogether

LEMMA BatchStep == TypeOK /\ BatchInv /\ [Next]_vars => BatchInv'
<1> SUFFICES ASSUME TypeOK, BatchInv, [Next]_vars
             PROVE  BatchInv'
  OBVIOUS
<1>1. CASE \E w \in Workers : ApplyPrepare(w)
  BY <1>1, PrepareKeepsBatches
<1>2. CASE \E w \in Workers : ApplyCommit(w)
  <2>1. PICK w \in Workers : ApplyCommit(w)
    BY <1>2
  <2>2. \A v \in Workers : applying'[v] \in {applying[v], Idle}
    BY <2>1 DEF ApplyCommit, TypeOK, RequestTypeOK
  <2> QED
    BY <2>1, <2>2, CommitAdds, AddingKeepsBatches DEF BatchInv
<1>3. CASE \E c \in Clients : SaveForm(c)
  <2>1. AddsOnly(NoBatch) /\ LengthsBounded' /\ UNCHANGED applying
    BY <1>3, SaveAdds
  <2>2. Unshared(NoBatch)
    BY DEF Unshared
  <2>3. \A v \in Workers : applying'[v] \in {applying[v], Idle}
    BY <2>1
  <2> QED
    BY <2>1, <2>2, <2>3, AddingKeepsBatches DEF BatchInv
<1>4. CASE \E a \in Assets, i \in 1 .. MaxEvents, fix \in Corrections : Edit(a, i, fix)
  BY <1>4, EditKeepsBatches
<1>5. CASE ~ (\/ \E w \in Workers : ApplyPrepare(w) \/ ApplyCommit(w)
              \/ \E c \in Clients : SaveForm(c)
              \/ \E a \in Assets, i \in 1 .. MaxEvents, fix \in Corrections : Edit(a, i, fix))
  <2>1. /\ \E batch : AddsOnly(batch) /\ Unshared(batch)
        /\ LengthsBounded'
        /\ \A w \in Workers : applying'[w] \in {applying[w], Idle}
    BY <1>5, OthersAdd
  <2> QED
    BY <2>1, AddingKeepsBatches DEF BatchInv
<1> QED
  BY <1>1, <1>2, <1>3, <1>4, <1>5

LEMMA BatchInit == Init => BatchInv
<1> SUFFICES ASSUME Init
             PROVE  BatchInv
  OBVIOUS
<1>1. \A a \in Assets : timeline[a] = <<>>
  BY DEF Init
<1>2. \A a \in Assets : DOMAIN timeline[a] = {} /\ Len(timeline[a]) = 0
  BY <1>1
<1>3. \A w \in Workers : applying[w] = Idle
  BY DEF Init
<1> QED
  BY <1>2, <1>3 DEF BatchInv, BatchesReserved, LengthsBounded, BatchCorrectedTogether

(* The events of a batch tell corrected stories together or not at all     *)
(* (transfer.Edit), because a batch id names the events of one             *)
(* transaction, also while other transfers and imports are under way.      *)
THEOREM BatchesAreCorrectedTogether == Spec => []BatchCorrectedTogether
<1>1. BatchInv => BatchCorrectedTogether
  BY DEF BatchInv
<1> QED
  BY <1>1, BatchInit, BatchStep, LedgerTypeCorrect, PTL DEF Spec

-----------------------------------------------------------------------------
(* The ledger implements the custody record                                *)

(* What the record says of one asset: what it holds as its state, and its  *)
(* account of how it came to be so.                                        *)
Held(a) == IF a \in Live THEN assets[a].st ELSE NoState
Told(a) == [i \in DOMAIN timeline[a] |-> [was |-> timeline[a][i].from,
                                          is |-> timeline[a][i].to]]
Struck == { a \in Assets : assets[a] = Deleted }

(* A step of the record, asset by asset.                                   *)

(* The record of the ledger, with the names of the refinement.             *)
LEMMA RecordIsOfAssets ==
    /\ Custody!Next <=>
          /\ [a \in Assets |-> Held(a)]' \in [Assets -> State \cup {NoState}]
          /\ DOMAIN [a \in Assets |-> Told(a)]' = Assets
          /\ \E S \in SUBSET Assets :
                /\ Custody!Enter(S) \/ Custody!Move(S) \/ Custody!Correct(S) \/ Custody!Strike(S)
                /\ \A a \in Assets \ S :
                      /\ [b \in Assets |-> Held(b)]'[a] = [b \in Assets |-> Held(b)][a]
                      /\ [b \in Assets |-> Told(b)]'[a] = [b \in Assets |-> Told(b)][a]
BY DEF Custody!Next, Held, Told

LEMMA RecordEnters ==
    ASSUME NEW S \in SUBSET Assets,
           \A a \in S : Held(a) = NoState /\ a \notin Struck,
           \A a \in S : Held(a)' \in State,
           \A a \in S : Told(a)' = <<[was |-> NoState, is |-> Held(a)']>>,
           Struck' = Struck
    PROVE  Custody!Enter(S)
<1>1. \A a \in S : a \in Assets
  OBVIOUS
<1> QED
  BY <1>1 DEF Custody!Enter, Held, Told, Struck

LEMMA RecordMoves ==
    ASSUME NEW S \in SUBSET Assets,
           \A a \in S : Held(a) \in State /\ Held(a) # NoState,
           \A a \in S : Held(a)' \in State \ {Held(a)},
           \A a \in S : Held(a).status = "retired" => Held(a)'.status = "retired",
           \A a \in S : Told(a)' = Append(Told(a), [was |-> Held(a), is |-> Held(a)']),
           Struck' = Struck
    PROVE  Custody!Move(S)
<1>1. \A a \in S : a \in Assets
  OBVIOUS
<1> QED
  BY <1>1 DEF Custody!Move, Held, Told, Struck

LEMMA RecordCorrects ==
    ASSUME NEW S \in SUBSET Assets,
           \A a \in S : Held(a)' \in State,
           \A a \in S : \E i \in DOMAIN Told(a) : Told(a)' = [Told(a) EXCEPT ![i].is = Held(a)'],
           Struck' = Struck
    PROVE  Custody!Correct(S)
<1>1. \A a \in S : a \in Assets
  OBVIOUS
<1> QED
  BY <1>1 DEF Custody!Correct, Held, Told, Struck

LEMMA RecordStrikes ==
    ASSUME NEW S \in SUBSET Assets,
           \A a \in S : Held(a) # NoState,
           \A a \in S : Held(a)' = NoState /\ Told(a)' = <<>>,
           Struck' = Struck \cup S
    PROVE  Custody!Strike(S)
<1>1. \A a \in S : a \in Assets
  OBVIOUS
<1> QED
  BY <1>1 DEF Custody!Strike, Held, Told, Struck

LEMMA RecordStep ==
    ASSUME NEW S \in SUBSET Assets,
           \A a \in Assets : Held(a)' \in State \cup {NoState},
           \A a \in Assets \ S : Held(a)' = Held(a) /\ Told(a)' = Told(a),
           Custody!Enter(S) \/ Custody!Move(S) \/ Custody!Correct(S) \/ Custody!Strike(S)
    PROVE  Custody!Next
<1>1. [a \in Assets |-> Held(a)]' \in [Assets -> State \cup {NoState}]
  OBVIOUS
<1> QED
  BY <1>1, RecordIsOfAssets

(* One more event is one more entry of the account ...                     *)
LEMMA ToldAppended ==
    ASSUME LedgerTypeOK, NEW a \in Assets, NEW e \in Event,
           timeline'[a] = Append(timeline[a], e)
    PROVE  Told(a)' = Append(Told(a), [was |-> e.from, is |-> e.to])
<1> DEFINE old == Told(a)
           new == Told(a)'
           x == [was |-> e.from, is |-> e.to]
           n == Len(timeline[a])
<1>1. /\ timeline[a] \in Seq(Event) /\ n \in Nat /\ DOMAIN timeline[a] = 1 .. n
      /\ DOMAIN timeline'[a] = 1 .. n + 1
      /\ \A i \in 1 .. n : timeline'[a][i] = timeline[a][i]
      /\ timeline'[a][n + 1] = e
  BY DEF LedgerTypeOK
<1>2. old \in Seq([was : State \cup {NoState}, is : State \cup {NoState}])
  <2>1. \A i \in 1 .. n : timeline[a][i] \in Event
    BY <1>1
  <2> QED
    BY <1>1, <2>1 DEF Told, Event
<1>3. Len(old) = n /\ \A i \in 1 .. n : old[i] = [was |-> timeline[a][i].from, is |-> timeline[a][i].to]
  BY <1>1 DEF Told
<1>4. /\ new = [i \in 1 .. n + 1 |-> [was |-> timeline'[a][i].from, is |-> timeline'[a][i].to]]
  BY <1>1 DEF Told
<1> HIDE DEF old, new, n
<1>5. \A i \in 1 .. n : new[i] = old[i]
  BY <1>1, <1>3, <1>4
<1>6. new[n + 1] = x
  BY <1>1, <1>4
<1>7. DOMAIN new = 1 .. n + 1 /\ new = [i \in 1 .. n + 1 |-> new[i]]
  BY <1>4
<1> DEFINE app == Append(old, x)
           Entry == [was : State \cup {NoState}, is : State \cup {NoState}]
<1>9. x \in Entry
  BY DEF Event
<1> HIDE DEF x, Entry
<1>10. app \in Seq(Entry) /\ Len(app) = n + 1
  BY <1>1, <1>2, <1>3, <1>9 DEF Entry
<1>11. (\A i \in 1 .. n : app[i] = old[i]) /\ app[n + 1] = x
  BY <1>1, <1>2, <1>3, <1>9 DEF Entry
<1>12. app = [i \in 1 .. n + 1 |-> app[i]]
  <2> HIDE DEF app
  <2> QED
    BY <1>10
<1> HIDE DEF app
<1>13. \A i \in 1 .. n + 1 : app[i] = new[i]
  BY <1>1, <1>5, <1>6, <1>11
<1>14. new = app
  BY <1>7, <1>12, <1>13
<1>8. new = Append(old, x)
  BY <1>14 DEF app
<1> QED
  BY <1>8 DEF new, old, x

(* ... and a corrected event a corrected entry.                            *)
LEMMA ToldCorrected ==
    ASSUME LedgerTypeOK, NEW a \in Assets, NEW j \in DOMAIN timeline[a], NEW to \in State,
           timeline'[a] = [timeline[a] EXCEPT ![j] = CorrectedEvent(@, to)]
    PROVE  Told(a)' = [Told(a) EXCEPT ![j].is = to]
<1>1. timeline[a][j] \in Event /\ DOMAIN timeline'[a] = DOMAIN timeline[a]
  BY DEF LedgerTypeOK
<1> DEFINE f == timeline'[a][j]
<1>2. f.from = timeline[a][j].from /\ f.to = to
  <2>1. f = CorrectedEvent(timeline[a][j], to)
    OBVIOUS
  <2> QED
    BY <1>1, <2>1, CorrectedEventTyped
<1>3. \A i \in DOMAIN timeline[a] \ {j} : timeline'[a][i] = timeline[a][i]
  OBVIOUS
<1>4. Told(a)' = [i \in DOMAIN timeline[a] |-> [was |-> timeline'[a][i].from,
                                                is |-> timeline'[a][i].to]]
  BY <1>1 DEF Told
<1> QED
  BY <1>1, <1>2, <1>3, <1>4 DEF Told

LEMMA HeldTyped ==
    ASSUME TypeOK, NEW a \in Assets
    PROVE  Held(a) \in State \cup {NoState} /\ (a \in Live => Held(a) \in State /\ Held(a) # NoState)
BY LiveRow DEF TypeOK, Held

LEMMA HeldNext ==
    ASSUME TypeOK', NEW a \in Assets
    PROVE  Held(a)' \in State \cup {NoState}
BY DEF TypeOK, LedgerTypeOK, Held, Live, Row

LEMMA AppendingRecords ==
    ASSUME TypeOK, TypeOK', RetiredIsTerminal, NEW M, NEW row, NEW event,
           Appending(M, row, event)
    PROVE  Custody!Next
<1>1. /\ M \in SUBSET Assets /\ M \subseteq Live
      /\ \A a \in M : /\ event[a] \in Event /\ row[a] \in Row
                      /\ event[a].from = assets[a].st /\ event[a].to = row[a].st
                      /\ row[a].st # assets[a].st
                      /\ ValidTransition(statuses, event[a].from.status, event[a].to.status)
  BY DEF Appending, Live
<1>2. /\ \A a \in M : assets'[a] = row[a] /\ timeline'[a] = Append(timeline[a], event[a])
      /\ \A a \in Assets \ M : assets'[a] = assets[a] /\ timeline'[a] = timeline[a]
  BY <1>1 DEF Appending
<1>3. \A a \in M : /\ Held(a) = assets[a].st /\ Held(a) \in State /\ Held(a) # NoState
                   /\ Held(a)' = row[a].st /\ Held(a)' \in State
  BY <1>1, <1>2, HeldTyped, MarkersAssumption DEF Held, Live, Row
<1>4. \A a \in Assets \ M : Held(a)' = Held(a) /\ Told(a)' = Told(a)
  BY <1>2 DEF Held, Told, Live
<1>5. \A a \in M : Held(a).status = "retired" => Held(a)'.status = "retired"
  BY <1>1, <1>3, NoWayBack
<1>6. \A a \in M : Told(a)' = Append(Told(a), [was |-> Held(a), is |-> Held(a)'])
  BY <1>1, <1>2, <1>3, ToldAppended DEF TypeOK
<1>7. Struck' = Struck
  BY <1>1, <1>2, MarkersAssumption DEF Struck, Live
<1>8. Custody!Move(M)
  BY <1>1, <1>3, <1>5, <1>6, <1>7, RecordMoves
<1> QED
  BY <1>1, <1>4, <1>8, HeldNext, RecordStep

LEMMA EnteringRecords ==
    ASSUME TypeOK, TypeOK', NEW S, NEW row, NEW event, Entering(S, row, event)
    PROVE  Custody!Next
<1>1. /\ S \in SUBSET Assets
      /\ \A a \in S : /\ event[a] \in Event /\ row[a] \in Row /\ assets[a] = Unborn
                      /\ event[a].from = NoState /\ event[a].to = row[a].st
      /\ \A a \in S : assets'[a] = row[a] /\ timeline'[a] = <<event[a]>>
      /\ \A a \in Assets \ S : assets'[a] = assets[a] /\ timeline'[a] = timeline[a]
  BY DEF Entering
<1>2. \A a \in S : Held(a) = NoState /\ a \notin Struck /\ Held(a)' = row[a].st /\ Held(a)' \in State
  BY <1>1, MarkersAssumption DEF Held, Live, Row, Struck
<1>3. \A a \in S : Told(a)' = <<[was |-> NoState, is |-> Held(a)']>>
  BY <1>1, <1>2 DEF Told
<1>4. \A a \in Assets \ S : Held(a)' = Held(a) /\ Told(a)' = Told(a)
  BY <1>1 DEF Held, Told, Live
<1>5. Struck' = Struck
  BY <1>1, MarkersAssumption DEF Struck
<1>6. Custody!Enter(S)
  BY <1>1, <1>2, <1>3, <1>5, RecordEnters
<1> QED
  BY <1>1, <1>4, <1>6, HeldNext, RecordStep

LEMMA EditRecords ==
    ASSUME TypeOK, TypeOK', NEW a \in Assets, NEW i \in 1 .. MaxEvents, NEW fix \in Corrections,
           Edit(a, i, fix)
    PROVE  Custody!Next
<1>5. PICK S \in SUBSET Assets : S = { b \in Assets : Amended(b) }
  OBVIOUS
<1>1. \A b \in Assets \ S : timeline'[b] = timeline[b] /\ assets'[b] = assets[b]
  BY <1>5, EditAlters DEF Amended
<1>2. ASSUME NEW b \in S
      PROVE  /\ b \in Live /\ Held(b)' \in State
             /\ \E j \in DOMAIN Told(b) : Told(b)' = [Told(b) EXCEPT ![j].is = Held(b)']
             /\ assets[b] # Deleted /\ assets'[b] # Deleted
  <2>1. PICK j \in DOMAIN timeline[b], to \in State :
          /\ timeline'[b] = [timeline[b] EXCEPT ![j] = CorrectedEvent(@, to)]
          /\ assets'[b] = Restated(assets[b], to)
    BY <1>5 DEF Amended
  <2>2. b \in Live
    BY <2>1 DEF TypeOK, LedgerTypeOK, HistoriesBegin
  <2>3. assets'[b] \in Row /\ assets'[b].st = to
    BY <2>1, <2>2, LiveRow, RestatedTyped DEF TypeOK
  <2>4. Held(b)' = to
    BY <2>3, MarkersAssumption DEF Held, Live
  <2>5. Told(b)' = [Told(b) EXCEPT ![j].is = to]
    BY <2>1, ToldCorrected DEF TypeOK
  <2>6. j \in DOMAIN Told(b)
    BY DEF Told
  <2> QED
    BY <2>2, <2>3, <2>4, <2>5, <2>6, MarkersAssumption DEF Live
<1>3. \A b \in Assets \ S : Held(b)' = Held(b) /\ Told(b)' = Told(b)
  BY <1>1 DEF Held, Told, Live
<1>4. Struck' = Struck
  BY <1>1, <1>2 DEF Struck
<1>6. Custody!Correct(S)
  BY <1>2, <1>4, <1>5, RecordCorrects
<1> QED
  BY <1>3, <1>5, <1>6, HeldNext, RecordStep

LEMMA DeleteRecords ==
    ASSUME TypeOK, TypeOK', NEW S \in SUBSET Assets, DeleteAssets(S)
    PROVE  Custody!Next
<1>1. /\ S \subseteq Live
      /\ \A a \in S : assets'[a] = Deleted /\ timeline'[a] = <<>>
      /\ \A a \in Assets \ S : assets'[a] = assets[a] /\ timeline'[a] = timeline[a]
  BY DEF DeleteAssets
<1>2. \A a \in S : Held(a) # NoState /\ Held(a)' = NoState /\ Told(a)' = <<>>
  BY <1>1, HeldTyped DEF Held, Told, Live
<1>3. \A a \in Assets \ S : Held(a)' = Held(a) /\ Told(a)' = Told(a)
  BY <1>1 DEF Held, Told, Live
<1>4. Struck' = Struck \cup S
  BY <1>1 DEF Struck
<1>5. Custody!Strike(S)
  BY <1>2, <1>4, RecordStrikes
<1> QED
  BY <1>3, <1>5, HeldNext, RecordStep

LEMMA SilentSteps ==
    ASSUME UNCHANGED timeline, \A a \in Assets : Held(a)' = Held(a), Struck' = Struck
    PROVE  UNCHANGED Custody!custodyVars
BY DEF Custody!custodyVars, Held, Struck

LEMMA CustodyInit == Init => Custody!Init
<1> SUFFICES ASSUME Init
             PROVE  Custody!Init
  OBVIOUS
<1>1. \A a \in Assets : assets[a] = Unborn /\ timeline[a] = <<>>
  BY DEF Init
<1>2. Live = {} /\ Struck = {}
  BY <1>1, MarkersAssumption DEF Live, Struck
<1>3. \A a \in Assets : Told(a) = <<>>
  BY <1>1 DEF Told
<1> QED
  BY <1>2, <1>3 DEF Custody!Init, Told, Struck

LEMMA CustodyStep ==
    ASSUME TypeOK, TypeOK', RetiredIsTerminal, [Next]_vars
    PROVE  [Custody!Next]_(Custody!custodyVars)
<1>1. ASSUME NEW M, NEW row, NEW event, Appending(M, row, event)
      PROVE  Custody!Next
  BY <1>1, AppendingRecords
<1>2. ASSUME NEW S, NEW row, NEW event, Entering(S, row, event)
      PROVE  Custody!Next
  BY <1>2, EnteringRecords
<1>3. ASSUME NEW b, NEW row, Rewriting(b, row)
      PROVE  UNCHANGED Custody!custodyVars
  <2>1. /\ b \in Live /\ b \in Assets /\ row \in Row /\ row.st = assets[b].st
        /\ UNCHANGED timeline
        /\ assets'[b] = row /\ \A a \in Assets \ {b} : assets'[a] = assets[a]
    BY <1>3 DEF Rewriting, Live, TypeOK, LedgerTypeOK
  <2>2. \A a \in Assets : Held(a)' = Held(a)
    BY <2>1, MarkersAssumption DEF Held, Live
  <2>3. Struck' = Struck
    BY <2>1, MarkersAssumption DEF Struck, Live
  <2> QED
    BY <2>1, <2>2, <2>3, SilentSteps
<1>4. ASSUME UNCHANGED <<assets, timeline>>
      PROVE  UNCHANGED Custody!custodyVars
  <2>1. \A a \in Assets : Held(a)' = Held(a)
    BY <1>4 DEF Held, Live
  <2>2. Struck' = Struck
    BY <1>4 DEF Struck
  <2> QED
    BY <1>4, <2>1, <2>2, SilentSteps
<1>5. ASSUME NEW w \in Workers, ApplyCommit(w)
      PROVE  Custody!Next
  BY <1>1, <1>5, ApplyCommitAppends
<1>6. ASSUME NEW c \in Clients, SaveForm(c)
      PROVE  Custody!Next \/ UNCHANGED Custody!custodyVars
  BY <1>1, <1>3, <1>6, SaveFormMoves
<1>7. ASSUME NEW a \in Assets, Create(a)
      PROVE  Custody!Next
  BY <1>2, <1>7, CreateEnters
<1>8. ASSUME NEW S \in SUBSET Assets, Import(S)
      PROVE  Custody!Next
  BY <1>2, <1>8, ImportEnters
<1> QED
  BY <1>4, <1>5, <1>6, <1>7, <1>8, EditRecords, DeleteRecords, LedgerSteps

(* The ledger implements the custody record: every transaction enters,     *)
(* moves, corrects or strikes assets as a whole, with exactly the entries  *)
(* that say so, or leaves the record alone; and no move leads out of       *)
(* retired.                                                                *)
THEOREM LedgerKeepsCustody == Spec => KeepsCustody
<1>1. TypeOK /\ TypeOK' /\ RetiredIsTerminal /\ [Next]_vars
        => [Custody!Next]_(Custody!custodyVars)
  BY CustodyStep
<1> QED
  BY <1>1, CustodyInit, LedgerTypeCorrect, RetiredInit, RetiredStep, PTL
  DEF Spec, KeepsCustody, Custody!Spec
=============================================================================
