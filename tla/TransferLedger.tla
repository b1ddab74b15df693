--------------------------- MODULE TransferLedger ---------------------------
(***************************************************************************)
(* The ledger of possession: internal/transfer (Apply, Edit), the part of  *)
(* internal/asset that writes the state triple (Save, Delete, the import's *)
(* creates) and the status table they consult.                             *)
(*                                                                         *)
(* Every write of the program runs in one BEGIN IMMEDIATE transaction on a *)
(* single connection (store.Write), so a transaction is one step here.     *)
(* What happens before it - a read on the pool, the reading of the clock - *)
(* is a step of its own, and other requests run in between.                *)
(***************************************************************************)
EXTENDS StatusMachine, Naturals, Sequences, FiniteSets

CONSTANTS
    Assets,         \* asset ids: fresh UUIDs, so none is used twice
    Workers,        \* concurrent POST /transfers handlers
    Clients,        \* concurrent edit forms
    Batches,        \* batch ids: fresh UUIDs
    Locations,      \* the holders that can be the default stock point
    Requests,       \* the transfer requests explored
    Corrections,    \* the corrections of an event explored
    EntryStates,    \* the states an asset is entered or saved in
    HomeInputs,     \* what a save says of the home: a holder, Keep or Clear
    HomeOwnerInputs,\* what it says of the home's owner: an account or Keep
    Keep,           \* a field the caller left out: leave it alone
    Clear,          \* an explicit null: unset the home
    NoBatch, NoHolder, NoUser,  \* NULL columns
    Idle,           \* a handler or a form that has nothing in hand
    Unborn, Deleted,\* an asset id that has no row yet, or no longer
    MaxClock, MaxEvents, MaxVersion    \* bounds of the exploration

(* transfer.Request.  "many" says whether the list of ids was longer than  *)
(* one, which is what earns a batch id; an id named twice counts twice     *)
(* there and does nothing the second time, so a set of ids is enough.      *)
Request ==
    { r \in [ ids : SUBSET Assets \ {{}}, many : BOOLEAN,
              status : StatusKeys \cup {Keep}, holder : Holders \cup {Keep},
              owner : Users \cup {Keep}, checkIn : BOOLEAN ] :
        (\E a, b \in r.ids : a # b) => r.many }

(* transfer.EditRequest; a correction that keeps all three is an edit of   *)
(* the note alone.                                                         *)
Correction == [ status : StatusKeys \cup {Keep}, holder : Holders \cup {Keep},
                owner : Users \cup {Keep} ]

ASSUME InputsAssumption ==
    /\ Requests \subseteq Request
    /\ Corrections \subseteq Correction
    /\ EntryStates \subseteq State
    /\ HomeInputs \subseteq Holders \cup {Keep, Clear}
    /\ HomeOwnerInputs \subseteq Users \cup {Keep}
    /\ Locations \subseteq Holders

ASSUME NullsAssumption ==
    /\ Keep \notin StatusKeys \cup Holders \cup Users
    /\ Clear \notin Holders \cup {Keep}
    /\ NoHolder \notin Holders
    /\ NoUser \notin Users
    /\ NoBatch \notin Batches

(* The columns of assets a transfer reads or writes.                       *)
Row == [ st : State, home : Holders \cup {NoHolder}, homeOwner : Users \cup {NoUser},
         version : Nat \ {0} ]

(* A row of asset_transfers.  "original" is what the event first said,     *)
(* kept from the first correction on.                                      *)
Event == [ batch : Batches \cup {NoBatch}, kind : Kinds,
           from : State \cup {NoState}, to : State,
           at : Nat, original : State \cup {NoState} ]

(* What Apply has in hand when it asks for the write lock.                 *)
Prepared == [ req : Request, fallback : Holders \cup {NoHolder},
              batch : Batches \cup {NoBatch}, at : Nat ]

Form == [ asset : Assets, seen : Row ]

ASSUME MarkersAssumption ==
    /\ Idle \notin Prepared \cup Form
    /\ Unborn # Deleted
    /\ Unborn \notin Row /\ Deleted \notin Row
    /\ MaxClock \in Nat /\ MaxEvents \in Nat /\ MaxVersion \in Nat

VARIABLES
    statuses,       \* the status table
    condemned,      \* custom statuses whose deletion has passed its checks
    defaultStock,   \* the default stock point, NoHolder when none is marked
    assets,         \* the assets table
    timeline,       \* asset_transfers: each asset's events in rowid order
    clock,          \* the server's clock
    applying,       \* what each Apply handler holds between its reads and its write
    form            \* the asset and version each edit form was opened on

vars == <<statuses, condemned, defaultStock, assets, timeline, clock, applying, form>>

-----------------------------------------------------------------------------
(* Helpers                                                                 *)

Live == { a \in Assets : assets[a] \notin {Unborn, Deleted} }

Pick(choice, current) == IF choice = Keep THEN current ELSE choice

(* time.Now(): a reading never goes back, and two may be the same.         *)
ReadClock(now) ==
    /\ now \in {clock, clock + 1}
    /\ now <= MaxClock
    /\ clock' = now

(* store.NewID(): an id no event and no pending request carries.            *)
FreshBatch(b) ==
    /\ \A a \in Assets : \A i \in DOMAIN timeline[a] : timeline[a][i].batch # b
    /\ \A w \in Workers : applying[w] # Idle => applying[w].batch # b

(* Variants: a correction that does not ask for the newest event, and one  *)
(* that keeps what the previous correction said instead of the original.   *)
IsTailUnchecked(a, i) == i \in DOMAIN timeline[a]
CorrectedEventForgets(e, to) == [e EXCEPT !.to = to, !.original = e.to]

(* ORDER BY created_at DESC, rowid DESC LIMIT 1.                            *)
IsTail(a, i) ==
    /\ i \in DOMAIN timeline[a]
    /\ \A j \in DOMAIN timeline[a] :
          \/ timeline[a][j].at < timeline[a][i].at
          \/ timeline[a][j].at = timeline[a][i].at /\ j <= i

NewEvent(batch, from, to, now) ==
    [ batch |-> batch, kind |-> DeriveTransferKind(from, to),
      from |-> from, to |-> to, at |-> now, original |-> NoState ]

(* UPDATE assets SET ..., version = version + 1; and a variant that leaves *)
(* the version alone.                                                      *)
RestatedQuietly(row, to) == [row EXCEPT !.st = to]
Restated(row, to) == [row EXCEPT !.st = to, !.version = @ + 1]

-----------------------------------------------------------------------------
Init ==
    /\ statuses = SeededStatuses
    /\ condemned = {}
    /\ defaultStock = NoHolder
    /\ assets = [a \in Assets |-> Unborn]
    /\ timeline = [a \in Assets |-> <<>>]
    /\ clock = 0
    /\ applying = [w \in Workers |-> Idle]
    /\ form = [c \in Clients |-> Idle]

-----------------------------------------------------------------------------
(* POST /transfers: transfer.Apply                                         *)

(* The home a check-in resolves for one asset, before the global default.  *)
(* The variant sends everything to the default stock point when there is   *)
(* one.                                                                    *)
ReturnPointOfBatch(row, fallback) == IF fallback # NoHolder THEN fallback ELSE row.home
ReturnPoint(row, fallback) == IF row.home # NoHolder THEN row.home ELSE fallback

GoesHome(req) == req.checkIn /\ req.holder = Keep

HasDestination(req, row, fallback) ==
    GoesHome(req) => ReturnPoint(row, fallback) # NoHolder

(* Resolved per asset, never per batch.                                    *)
Destination(req, row, fallback) ==
    LET homeOwner == IF row.homeOwner # NoUser THEN row.homeOwner ELSE row.st.owner
    IN  [ status |-> Pick(req.status, row.st.status),
          holder |-> IF GoesHome(req) THEN ReturnPoint(row, fallback)
                     ELSE Pick(req.holder, row.st.holder),
          owner  |-> IF GoesHome(req) THEN Pick(req.owner, homeOwner)
                     ELSE Pick(req.owner, row.st.owner) ]

(* The handler looks the named status up on the read pool; Apply reads the *)
(* default stock point on the read pool, names the batch and reads the     *)
(* clock - all before it asks for the write lock.                          *)
ApplyPrepare(w) ==
    /\ applying[w] = Idle
    /\ \E req \in Requests, batch \in Batches \cup {NoBatch}, now \in 0 .. MaxClock :
          /\ \A a \in req.ids : assets[a] # Unborn
          /\ req.status \in DOMAIN statuses \cup {Keep}
          /\ IF req.many THEN batch # NoBatch /\ FreshBatch(batch) ELSE batch = NoBatch
          /\ ReadClock(now)
          /\ applying' = [applying EXCEPT ![w] =
                [ req |-> req, batch |-> batch, at |-> now,
                  fallback |-> IF GoesHome(req) THEN defaultStock ELSE NoHolder ]]
    /\ UNCHANGED <<statuses, condemned, defaultStock, assets, timeline, form>>

(* applyOne succeeds on this asset.                                        *)
Movable(p, a) ==
    /\ a \in Live
    /\ HasDestination(p.req, assets[a], p.fallback)
    /\ ValidTransition(statuses, assets[a].st.status,
                       Destination(p.req, assets[a], p.fallback).status)

(* The assets whose triple changes; the variant looks at the status alone. *)
MovedByStatus(p) ==
    { a \in p.req.ids : assets[a].st.status # Destination(p.req, assets[a], p.fallback).status }
Moved(p) ==
    { a \in p.req.ids : EmitsEvent(assets[a].st, Destination(p.req, assets[a], p.fallback)) }

(* The write transaction: every asset of the request, or none of them.     *)
ApplyCommit(w) ==
    LET p == applying[w]
        dest(a) == Destination(p.req, assets[a], p.fallback)
    IN  /\ p # Idle
        /\ \A a \in p.req.ids : Movable(p, a)
        /\ \A a \in Moved(p) :
              Len(timeline[a]) < MaxEvents /\ assets[a].version < MaxVersion
        /\ timeline' = [a \in Assets |->
              IF a \in Moved(p)
              THEN Append(timeline[a], NewEvent(p.batch, assets[a].st, dest(a), p.at))
              ELSE timeline[a]]
        /\ assets' = [a \in Assets |->
              IF a \in Moved(p)
              THEN Restated(assets[a], dest(a))
              ELSE assets[a]]
        /\ applying' = [applying EXCEPT ![w] = Idle]
        /\ UNCHANGED <<statuses, condemned, defaultStock, clock, form>>

(* One asset is refused: the transaction rolls back.                       *)
ApplyRefuse(w) ==
    /\ applying[w] # Idle
    /\ \E a \in applying[w].req.ids : ~ Movable(applying[w], a)
    /\ applying' = [applying EXCEPT ![w] = Idle]
    /\ UNCHANGED <<statuses, condemned, defaultStock, assets, timeline, clock, form>>

-----------------------------------------------------------------------------
(* PATCH /transfers/:id: transfer.Edit                                     *)

(* The event itself, or every event of its batch; the variant takes the    *)
(* event alone.                                                            *)
EditedAlone(a, i) == {<<a, i>>}
EditedTogether(a, i) ==
    LET batch == timeline[a][i].batch
    IN  IF batch = NoBatch THEN {<<a, i>>}
        ELSE { m \in Assets \X (1 .. MaxEvents) :
                  m[2] \in DOMAIN timeline[m[1]] /\ timeline[m[1]][m[2]].batch = batch }

Corrected(to, fix) ==
    [ status |-> Pick(fix.status, to.status),
      holder |-> Pick(fix.holder, to.holder),
      owner  |-> Pick(fix.owner, to.owner) ]

(* editOne succeeds on this event: it is the asset's newest, and the       *)
(* corrected move is one its asset could have made.                        *)
Correctable(b, j, fix) ==
    LET e == timeline[b][j]
    IN  /\ IsTail(b, j)
        /\ e.from # NoState =>
              ValidTransition(statuses, e.from.status, Corrected(e.to, fix).status)

CorrectedEvent(e, to) ==
    [ e EXCEPT !.to = to,
               !.original = IF e.original = NoState THEN e.to ELSE e.original ]

(* Edit refuses the whole batch when it refuses one member; a refused edit *)
(* changes nothing and is no step.                                         *)
Edit(a, i, fix) ==
    LET members == EditedTogether(a, i)
        Fixed(b) == { j \in DOMAIN timeline[b] : <<b, j>> \in members }
    IN  /\ i \in DOMAIN timeline[a]
        /\ \A m \in members : Correctable(m[1], m[2], fix)
        /\ \A m \in members : assets[m[1]].version < MaxVersion
        /\ timeline' = [b \in Assets |->
              [j \in DOMAIN timeline[b] |->
                  IF j \in Fixed(b) THEN CorrectedEvent(timeline[b][j], Corrected(timeline[b][j].to, fix))
                  ELSE timeline[b][j]]]
        /\ assets' = [b \in Assets |->
              IF Fixed(b) = {} THEN assets[b]
              ELSE LET j == CHOOSE j \in Fixed(b) : TRUE
                   IN  Restated(assets[b], Corrected(timeline[b][j].to, fix))]
        /\ UNCHANGED <<statuses, condemned, defaultStock, clock, applying, form>>

-----------------------------------------------------------------------------
(* POST /assets and the import: Save and Persist without a previous row.   *)
(* The home is what was named, else where the asset is being recorded.     *)
(* The variant starts counting versions at nought.                         *)
NewRowUnversioned(to, home, homeOwner) ==
    [ st |-> to, home |-> Pick(home, to.holder),
      homeOwner |-> Pick(homeOwner, to.owner), version |-> 0 ]
NewRow(to, home, homeOwner) ==
    [ st |-> to, home |-> Pick(home, to.holder),
      homeOwner |-> Pick(homeOwner, to.owner), version |-> 1 ]

Create(a) ==
    \E to \in EntryStates, home \in HomeInputs \ {Clear},
       homeOwner \in HomeOwnerInputs, now \in 0 .. MaxClock :
          /\ assets[a] = Unborn
          /\ ReadClock(now)
          /\ assets' = [assets EXCEPT ![a] = NewRow(to, home, homeOwner)]
          /\ timeline' = [timeline EXCEPT ![a] = <<NewEvent(NoBatch, NoState, to, now)>>]
          /\ UNCHANGED <<statuses, condemned, defaultStock, applying, form>>

(* A whole file in one transaction, in stock and owned by whoever imports  *)
(* it; the create events share a batch.                                    *)
Import(S) ==
    \E actor \in Users, batch \in Batches, now \in 0 .. MaxClock, place \in [S -> Holders] :
        LET entered(a) == [status |-> "in_stock", holder |-> place[a], owner |-> actor]
        IN  /\ S # {}
            /\ \A a \in S : assets[a] = Unborn
            /\ FreshBatch(batch)
            /\ ReadClock(now)
            /\ assets' = [a \in Assets |->
                  IF a \in S THEN NewRow(entered(a), Keep, Keep) ELSE assets[a]]
            /\ timeline' = [a \in Assets |->
                  IF a \in S THEN <<NewEvent(batch, NoState, entered(a), now)>>
                  ELSE timeline[a]]
            /\ UNCHANGED <<statuses, condemned, defaultStock, applying, form>>

(* GET /assets/:id: what an edit form is filled from.                      *)
OpenForm(c, a) ==
    /\ form[c] = Idle
    /\ a \in Live
    /\ form' = [form EXCEPT ![c] = [asset |-> a, seen |-> assets[a]]]
    /\ UNCHANGED <<statuses, condemned, defaultStock, assets, timeline, clock, applying>>

(* resolveHome on an update: named, cleared, or left alone.                *)
ResolvedHome(row, home) ==
    IF home = Clear THEN NoHolder ELSE Pick(home, row.home)
ResolvedHomeOwner(row, home, homeOwner) ==
    IF home = Clear THEN NoUser ELSE Pick(homeOwner, row.homeOwner)

(* PATCH /assets/:id: Persist over the row, guarded by the version the     *)
(* form was opened on, with a transfer event when the triple moved.        *)
SaveForm(c) ==
    \E to \in EntryStates, home \in HomeInputs,
       homeOwner \in HomeOwnerInputs, now \in 0 .. MaxClock :
        LET a == form[c].asset
            row == assets[a]
        IN  /\ form[c] # Idle
            /\ a \in Live
            /\ row.version = form[c].seen.version
            /\ ValidTransition(statuses, row.st.status, to.status)
            /\ row.version < MaxVersion
            /\ Len(timeline[a]) < MaxEvents
            /\ ReadClock(now)
            /\ assets' = [assets EXCEPT ![a] =
                  [ st |-> to, home |-> ResolvedHome(row, home),
                    homeOwner |-> ResolvedHomeOwner(row, home, homeOwner),
                    version |-> form[c].seen.version + 1 ]]
            /\ timeline' = [timeline EXCEPT ![a] =
                  IF EmitsEvent(row.st, to) THEN Append(@, NewEvent(NoBatch, row.st, to, now))
                  ELSE @]
            /\ form' = [form EXCEPT ![c] = Idle]
            /\ UNCHANGED <<statuses, condemned, defaultStock, applying>>

(* The form is refused (a version conflict, a missing row, a move the      *)
(* rules forbid) or given up; either way it has to be opened again.        *)
CloseForm(c) ==
    /\ form[c] # Idle
    /\ form' = [form EXCEPT ![c] = Idle]
    /\ UNCHANGED <<statuses, condemned, defaultStock, assets, timeline, clock, applying>>

(* DELETE /assets/:id and POST /assets/delete: every asset named, with its *)
(* history, or none.  The confirmation the caller types is left out.       *)
DeleteAssets(S) ==
    /\ S # {} /\ S \subseteq Live
    /\ assets' = [a \in Assets |-> IF a \in S THEN Deleted ELSE assets[a]]
    /\ timeline' = [a \in Assets |-> IF a \in S THEN <<>> ELSE timeline[a]]
    /\ UNCHANGED <<statuses, condemned, defaultStock, clock, applying, form>>

-----------------------------------------------------------------------------
(* The status table (internal/schema/status_store.go).  An update of a     *)
(* built-in keeps its switches, so only custom statuses change here; the   *)
(* value it writes was read before the transaction, and a later caller may *)
(* name any value, so a stale write is one of these steps too.             *)
CreateStatus(k, terminal) ==
    /\ k \in CustomKeys \ DOMAIN statuses
    /\ statuses' = [j \in DOMAIN statuses \cup {k} |-> IF j = k THEN terminal ELSE statuses[j]]
    /\ UNCHANGED <<condemned, defaultStock, assets, timeline, clock, applying, form>>

UpdateStatus(k, terminal) ==
    /\ k \in CustomKeys \cap DOMAIN statuses
    /\ statuses' = [statuses EXCEPT ![k] = terminal]
    /\ UNCHANGED <<condemned, defaultStock, assets, timeline, clock, applying, form>>

(* DeleteStatus counts the assets in the status on the read pool ...       *)
DeleteStatusCheck(k) ==
    /\ k \in DOMAIN statuses \ Builtin
    /\ \A a \in Live : assets[a].st.status # k
    /\ condemned' = condemned \cup {k}
    /\ UNCHANGED <<statuses, defaultStock, assets, timeline, clock, applying, form>>

(* ... and deletes the row in a transaction that counts nothing.           *)
DeleteStatusCommit(k) ==
    /\ k \in condemned
    /\ condemned' = condemned \ {k}
    /\ statuses' = [j \in DOMAIN statuses \ {k} |-> statuses[j]]
    /\ UNCHANGED <<defaultStock, assets, timeline, clock, applying, form>>

(* POST /holders/:id/default-stock.                                        *)
SetDefaultStock(h) ==
    /\ defaultStock' = h
    /\ UNCHANGED <<statuses, condemned, assets, timeline, clock, applying, form>>

-----------------------------------------------------------------------------
Next ==
    \/ \E w \in Workers : ApplyPrepare(w) \/ ApplyCommit(w) \/ ApplyRefuse(w)
    \/ \E a \in Assets, i \in 1 .. MaxEvents, fix \in Corrections : Edit(a, i, fix)
    \/ \E a \in Assets : Create(a)
    \/ \E S \in SUBSET Assets : Import(S) \/ DeleteAssets(S)
    \/ \E c \in Clients : (\E a \in Assets : OpenForm(c, a)) \/ SaveForm(c) \/ CloseForm(c)
    \/ \E k \in CustomKeys, t \in BOOLEAN : CreateStatus(k, t) \/ UpdateStatus(k, t)
    \/ \E k \in CustomKeys : DeleteStatusCheck(k) \/ DeleteStatusCommit(k)
    \/ \E h \in Locations : SetDefaultStock(h)

Spec == Init /\ [][Next]_vars

-----------------------------------------------------------------------------
(* Properties                                                              *)

StatusTypeOK ==
    /\ DOMAIN statuses \subseteq StatusKeys /\ Builtin \subseteq DOMAIN statuses
    /\ statuses \in [DOMAIN statuses -> BOOLEAN]
    /\ condemned \subseteq CustomKeys
    /\ defaultStock \in Locations \cup {NoHolder}

LedgerTypeOK ==
    /\ assets \in [Assets -> Row \cup {Unborn, Deleted}]
    /\ timeline \in [Assets -> Seq(Event)]
    /\ clock \in Nat

RequestTypeOK ==
    /\ applying \in [Workers -> Prepared \cup {Idle}]
    /\ form \in [Clients -> Form \cup {Idle}]

HistoriesBegin ==
    /\ \A a \in Assets : timeline[a] # <<>> <=> a \in Live
    /\ \A a \in Assets : \A i \in DOMAIN timeline[a] : timeline[a][i].from = NoState <=> i = 1

(* Every variable has its type, an asset has a history exactly when it has *)
(* a row, and that history starts with its create event and no other.      *)
TypeOK == StatusTypeOK /\ LedgerTypeOK /\ RequestTypeOK /\ HistoriesBegin

(* The events of an asset were written in the order of their timestamps.   *)
(* Only an Apply that waited for the write lock while another event of the *)
(* asset was written can break this.                                       *)
InOrder(a) ==
    \A i, j \in DOMAIN timeline[a] : i < j => timeline[a][i].at <= timeline[a][j].at

(* Each event starts where the previous one ended, and the last one ends   *)
(* where the asset is.                                                     *)
Replays(a) ==
    /\ \A i \in DOMAIN timeline[a] : i > 1 => timeline[a][i].from = timeline[a][i-1].to
    /\ assets[a].st = timeline[a][Len(timeline[a])].to

(* A history in order replays - what nexus verify checks (data-model.md    *)
(* section 7, items 2 and 3) - across transfers, saves, corrections of     *)
(* single events and of batches.                                           *)
HistoryReplays == \A a \in Live : InOrder(a) => Replays(a)

FollowsMatrix(from, to) ==
    \/ from = to
    \/ ~ ({from, to} \subseteq Builtin)
    \/ to \in LegalTransitions[from]

(* No event, as written or as corrected, leaves retired, takes a lost      *)
(* asset anywhere but back into stock or to retired, or otherwise breaks   *)
(* the matrix of the built-in statuses.                                    *)
MatrixHolds ==
    \A a \in Assets : \A i \in DOMAIN timeline[a] :
        timeline[a][i].from # NoState =>
            FollowsMatrix(timeline[a][i].from.status, timeline[a][i].to.status)

(* What a form shows is the row as it was at the form's version, of an     *)
(* asset that had a row then.                                              *)
ShowsVersion(f) ==
    /\ assets[f.asset] # Unborn
    /\ f.asset \in Live =>
          /\ assets[f.asset].version >= f.seen.version
          /\ assets[f.asset].version = f.seen.version => assets[f.asset] = f.seen

(* A version names one content of the row: when the version an edit form   *)
(* was opened on is still current, so is everything the form shows, and    *)
(* saving it overwrites nobody's change.                                   *)
VersionNamesRow == \A c \in Clients : form[c] # Idle => ShowsVersion(form[c])

(* The events of a batch are corrected together or not at all: none of     *)
(* them tells a corrected story next to one that was left behind.          *)
BatchCorrectedTogether ==
    \A a, b \in Assets : \A i \in DOMAIN timeline[a], j \in DOMAIN timeline[b] :
        (timeline[a][i].batch = timeline[b][j].batch /\ timeline[a][i].batch # NoBatch)
        => (timeline[a][i].original = NoState <=> timeline[b][j].original = NoState)

(* What a step leaves of an event, and of the history of an asset.         *)
EventKept(e, f, newest) ==
    /\ [f EXCEPT !.to = e.to, !.original = e.original] = e
    /\ f.to # e.to => newest /\ f.original # NoState
    /\ e.original # NoState => f.original = e.original
    /\ (e.original = NoState /\ f.original # NoState) => f.original = e.to

HistoryKept(a) ==
    /\ Len(timeline[a]) <= Len(timeline'[a])
    /\ \A i \in DOMAIN timeline[a] :
          EventKept(timeline[a][i], timeline'[a][i], IsTail(a, i))

(* Correcting an event keeps everything but its destination, touches only  *)
(* the newest event of an asset, and preserves what the event first said   *)
(* through any number of corrections; no event ever disappears from the    *)
(* history of an asset that is still there.                                *)
HistoryIsImmutable == [][ \A a \in Live : a \in Live' => HistoryKept(a) ]_vars

(* The newest event of an asset is corrected, and takes it where it is now. *)
PlacedByCorrection(a) ==
    \E i \in DOMAIN timeline[a] :
        /\ IsTail(a, i)
        /\ timeline'[a][i].to = assets'[a].st
        /\ timeline'[a][i].original # NoState
        /\ Len(timeline'[a]) = Len(timeline[a])

(* An asset comes back from retired only when the event that retired it -  *)
(* or another newest event - is corrected, never through a transfer or a   *)
(* save.                                                                   *)
RetiredLeftOnlyByCorrection ==
    [][ \A a \in Live :
          (a \in Live' /\ assets[a].st.status = "retired" /\ assets'[a].st.status # "retired")
              => PlacedByCorrection(a) ]_vars

(* The handler is done with its request.                                   *)
Ends(w) == applying[w] # Idle /\ applying'[w] = Idle

(* The asset is there, and has what was asked for.                         *)
HasBeenMoved(req, a) ==
    /\ a \in Live
    /\ req.status \in {Keep, assets'[a].st.status}
    /\ req.owner \in {Keep, assets'[a].st.owner}
    /\ req.holder \in {Keep, assets'[a].st.holder}

(* A batch transfer moves every asset it names, or none: after a step in   *)
(* which an Apply changed anything, all of its assets are still there and  *)
(* have the status, the owner and the holder that were asked for.          *)
BatchMovesAllOrNone ==
    [][ \A w \in Workers : Ends(w) /\ (\E a \in applying[w].req.ids : assets'[a] # assets[a])
          => \A a \in applying[w].req.ids : HasBeenMoved(applying[w].req, a) ]_vars

(* The asset is where it belongs, or where those are that have no home.    *)
HasGoneHome(a) ==
    /\ assets'[a].st.holder \in Holders
    /\ assets[a].home # NoHolder => assets'[a].st.holder = assets[a].home
    /\ assets[a].home = NoHolder => assets'[a].st.holder \in Locations

(* A check-in that names no place puts each asset at its own home, and     *)
(* only an asset without one at the default stock point, so a batch from   *)
(* several places goes back to several places; and it never leaves an      *)
(* asset nowhere.                                                          *)
CheckInGoesHome ==
    [][ \A w \in Workers : Ends(w) /\ GoesHome(applying[w].req) =>
          \A a \in applying[w].req.ids : assets'[a] # assets[a] => HasGoneHome(a) ]_vars

(* data-model.md section 7, item 2: at any moment the state of every asset *)
(* equals the to_* of the last event of its timeline.                      *)
SnapshotIsNewestEvent ==
    \A a \in Live : \A i \in DOMAIN timeline[a] :
        IsTail(a, i) => assets[a].st = timeline[a][i].to

(* FR-011 of specs/004: a status some asset is in is not deleted.          *)
DeletedStatusIsUnused ==
    [][\A k \in DOMAIN statuses : k \notin DOMAIN statuses' =>
          \A a \in Live : assets[a].st.status # k]_vars

-----------------------------------------------------------------------------
(* The ledger keeps the custody record it promises.                        *)
Custody == INSTANCE CustodyRecord WITH
    Things <- Assets,
    States <- State,
    Final <- { s \in State : s.status = "retired" },
    Nothing <- NoState,
    current <- [a \in Assets |-> IF a \in Live THEN assets[a].st ELSE NoState],
    account <- [a \in Assets |->
                  [i \in DOMAIN timeline[a] |-> [was |-> timeline[a][i].from,
                                                 is |-> timeline[a][i].to]]],
    struck <- { a \in Assets : assets[a] = Deleted }

(* Every step of the ledger enters, moves, corrects or strikes some assets *)
(* as a whole, or is invisible to the record of who had what.              *)
KeepsCustody == Custody!Spec
=============================================================================
