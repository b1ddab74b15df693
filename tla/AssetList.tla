------------------------------ MODULE AssetList ------------------------------
(***************************************************************************)
(* The asset list of the browser (web/src/routes/Assets.tsx and            *)
(* features/assets) over the fleet the server keeps (internal/asset).      *)
(*                                                                         *)
(* The list shows one page of what its filters match, and goes on showing  *)
(* the last answer while the next one is on its way; what is ticked is     *)
(* kept by device, across filters and pages.  "Select all N" walks the     *)
(* matching devices page by page, and colleagues record and delete devices *)
(* meanwhile.  A batch is deleted or moved in one request, which the       *)
(* server takes whole or refuses.  Opening a device leaves the list; what  *)
(* comes back is read from the address.                                    *)
(*                                                                         *)
(* Of the filters two are kept: the category, whose change takes the model *)
(* with it, and the model, which stands for the others.  The anchor of a   *)
(* range may be any row, since its index is the one it had when clicked.   *)
(* An answer of the walk is handled where it is read; a batch is under way *)
(* one at a time, and so is a walk.                                        *)
(***************************************************************************)
EXTENDS Integers, Sequences, SequencesExt, FiniteSets, FiniteSetsExt

CONSTANTS
    Newest,         \* all devices there will be, the newest first
    Unborn,         \* those that are not recorded yet when the list opens
    Category, Model,
    CategoryOf, ModelOf,
    PageSizes,      \* PAGE_SIZES: the first is the default
    WalkPage,       \* PAGE of the banner: what the server answers at most
    MaxClicks,      \* bound: what is done to the list
    MaxStirs,       \* bound: what colleagues record or delete
    None

Device == ToSet(Newest)

ASSUME ListAssumption ==
    /\ Newest \in Seq(Device) /\ IsInjective(Newest)
    /\ Unborn \subseteq Device
    /\ CategoryOf \in [Device -> Category] /\ ModelOf \in [Device -> Model \cup {None}]
    /\ PageSizes \in Seq(Nat \ {0}) /\ PageSizes # <<>>
    /\ WalkPage \in Nat \ {0} /\ MaxClicks \in Nat /\ MaxStirs \in Nat
    /\ None \notin Category \cup Model \cup Device \cup ToSet(PageSizes) \cup Nat

VARIABLES
    fleet, unborn,  \* the devices there are, and those there will be
    list,           \* the page that shows the list, None while a device is open
    carried,        \* the address the device page was given
    sent,           \* the batch under way
    clicks, stirs,
    left            \* history: what the list asked when it was left

listVars == <<fleet, unborn, list, carried, sent, clicks, stirs, left>>

DefaultSize == PageSizes[1]

Everything == [ category |-> None, model |-> None ]

(* filterClause, ordered by created_at DESC.                               *)
Fits(filter, d) ==
    filter.category \in {None, CategoryOf[d]} /\ filter.model \in {None, ModelOf[d]}

Matching(filter, devices) ==
    LET found[i \in 0..Len(Newest)] ==
            IF i = 0 THEN <<>>
            ELSE IF Newest[i] \in devices /\ Fits(filter, Newest[i])
            THEN Append(found[i - 1], Newest[i])
            ELSE found[i - 1]
    IN  found[Len(Newest)]

(* LIMIT ? OFFSET ?  The variant answers one row more.                     *)
WindowOneMore(seq, offset, limit) ==
    SubSeq(seq, offset + 1, Min({offset + limit + 1, Len(seq)}))
Window(seq, offset, limit) == SubSeq(seq, offset + 1, Min({offset + limit, Len(seq)}))

Asked(filter, size, page) == [ filter |-> filter, size |-> size, page |-> page ]

(* What the address says: nothing of a first page and of a default size.   *)
(* The variant says nothing of the size at all.                            *)
AddressOfFilters(asked) == [ filter |-> asked.filter, page |-> None, limit |-> None ]
AddressOf(asked) ==
    [ filter |-> asked.filter,
      page |-> IF asked.page > 0 THEN asked.page ELSE None,
      limit |-> IF asked.size # DefaultSize THEN asked.size ELSE None ]

Plain == [ filter |-> Everything, page |-> None, limit |-> None ]

NothingPicked == [ d \in Device |-> 0 ]

Seeded(address) ==
    Asked(address.filter,
          IF address.limit = None THEN DefaultSize ELSE address.limit,
          IF address.page = None THEN 0 ELSE address.page)

(* The effect of [filterKey, pageSize], which runs when the list mounts,   *)
(* too.                                                                    *)
Settled(asked) == [ asked EXCEPT !.page = 0 ]

Mounted(address) ==
    [ asked |-> Settled(Seeded(address)), rows |-> <<>>, total |-> 0,
      picked |-> NothingPicked, walk |-> None, box |-> None ]

ListInit ==
    /\ fleet = Device \ Unborn
    /\ unborn = Unborn
    /\ list = Mounted(Plain)
    /\ carried = Plain
    /\ sent = None
    /\ clicks = 0
    /\ stirs = 0
    /\ left = None

-----------------------------------------------------------------------------
(* What is shown.                                                          *)

Showing == list # None

(* A confirmation is a modal dialog, behind which nothing can be clicked.  *)
Click ==
    /\ Showing
    /\ list.box = None
    /\ clicks < MaxClicks
    /\ clicks' = clicks + 1

Ask(asked) ==
    /\ asked # list.asked
    /\ list' = [list EXCEPT !.asked = asked]
    /\ UNCHANGED <<fleet, unborn, carried, sent, stirs, left>>

(* A model chosen under the old category does not survive a new one.       *)
Narrow ==
    /\ Click
    /\ \/ \E c \in Category \cup {None} :
            /\ c # list.asked.filter.category
            /\ Ask(Settled([list.asked EXCEPT !.filter = [Everything EXCEPT !.category = c]]))
       \/ \E m \in Model \cup {None} :
            /\ m # list.asked.filter.model
            /\ Ask(Settled([list.asked EXCEPT !.filter.model = m]))

PageCount == (list.total + list.asked.size - 1) \div list.asked.size

(* The pager is under the rows: an empty page has none.                    *)
Turn ==
    /\ Click
    /\ list.rows # <<>>
    /\ \E page \in 0..(PageCount - 1) : Ask([list.asked EXCEPT !.page = page])

Resize ==
    /\ Click
    /\ list.rows # <<>>
    /\ PageCount > 1 \/ list.total > DefaultSize
    /\ \E size \in ToSet(PageSizes) :
        /\ size # list.asked.size
        /\ Ask(Settled([list.asked EXCEPT !.size = size]))

(* The list as it is asked for; until then the last answer is shown.       *)
Fetch ==
    LET found == Matching(list.asked.filter, fleet) IN
    /\ Showing
    /\ list' = [list EXCEPT
            !.rows = Window(found, list.asked.page * list.asked.size, list.asked.size),
            !.total = Len(found)]
    /\ UNCHANGED <<fleet, unborn, carried, sent, clicks, stirs, left>>

-----------------------------------------------------------------------------
(* useSelection.  A device may be in the list of ids twice, when a walk    *)
(* met it twice.                                                           *)

Count(picked) == SumFunction(picked)

Has(picked, d) == picked[d] > 0

Without(picked, devices) == [ d \in Device |-> IF d \in devices THEN 0 ELSE picked[d] ]

With(picked, devices) == [ d \in Device |-> IF d \in devices THEN 1 ELSE picked[d] ]

Pick(picked) ==
    /\ list' = [list EXCEPT !.picked = picked]
    /\ UNCHANGED <<fleet, unborn, carried, sent, stirs, left>>

(* toggle; extendTo gives the run to the row of the anchor what the        *)
(* clicked row becomes.                                                    *)
Tick ==
    /\ Click
    /\ \E i, j \in DOMAIN list.rows :
        LET run == ToSet(SubSeq(list.rows, Min({i, j}), Max({i, j}))) IN
        Pick(IF Has(list.picked, list.rows[i]) THEN Without(list.picked, run)
                                               ELSE With(list.picked, run))

AllTicked == list.rows # <<>> /\ \A d \in ToSet(list.rows) : Has(list.picked, d)

TickPage ==
    /\ Click
    /\ list.rows # <<>>
    /\ Pick(IF AllTicked THEN Without(list.picked, ToSet(list.rows))
                         ELSE With(list.picked, ToSet(list.rows)))

Clear == Click /\ Count(list.picked) > 0 /\ Pick(NothingPicked)

(* add: keeps what is ticked, and filters what comes only by that.         *)
Land(picked, more) == [ d \in Device |-> IF Has(picked, d) THEN picked[d] ELSE more[d] ]

(* The banner's offer, by the total of the answer that is shown.  A walk   *)
(* is quiet as long as that total is true.                                 *)
SelectAll ==
    /\ Click
    /\ AllTicked
    /\ Count(list.picked) < list.total
    /\ list.walk = None
    /\ list' = [list EXCEPT !.walk =
            [ filter |-> list.asked.filter, total |-> list.total, offset |-> 0,
              met |-> NothingPicked,
              quiet |-> list.total = Len(Matching(list.asked.filter, fleet)) ]]
    /\ UNCHANGED <<fleet, unborn, carried, sent, stirs, left>>

(* The answer a walk gets for the filter it started with; the variant asks *)
(* by the filter that is shown.                                            *)
ReadingShown(walk) == Window(Matching(list.asked.filter, fleet), walk.offset, WalkPage)
Reading(walk) == Window(Matching(walk.filter, fleet), walk.offset, WalkPage)

Walk ==
    /\ Showing
    /\ list.walk # None
    /\ LET walk == list.walk
           items == Reading(walk)
           met == [ d \in Device |-> walk.met[d] + (IF d \in ToSet(items) THEN 1 ELSE 0) ]
           next == walk.offset + WalkPage
       IN  list' = IF items = <<>> \/ next >= walk.total
                   THEN [list EXCEPT !.walk = None, !.picked = Land(list.picked, met)]
                   ELSE [list EXCEPT !.walk.offset = next, !.walk.met = met]
    /\ UNCHANGED <<fleet, unborn, carried, sent, clicks, stirs, left>>

WalkFails ==
    /\ Showing
    /\ list.walk # None
    /\ list' = [list EXCEPT !.walk = None]
    /\ UNCHANGED <<fleet, unborn, carried, sent, clicks, stirs, left>>

-----------------------------------------------------------------------------
(* The action bar.                                                         *)

(* The number of devices is typed to confirm their deletion.               *)
Type ==
    /\ Click
    /\ Count(list.picked) > 0
    /\ list' = [list EXCEPT !.box = Count(list.picked)]
    /\ UNCHANGED <<fleet, unborn, carried, sent, stirs, left>>

Cancel ==
    /\ Showing
    /\ list.box # None
    /\ list' = [list EXCEPT !.box = None]
    /\ UNCHANGED <<fleet, unborn, carried, sent, clicks, stirs, left>>

(* What is typed must be the number that is asked for now; the variant     *)
(* takes what was once right.                                              *)
ArmedByAny == list.box # None
Armed == list.box = Count(list.picked)

Confirm ==
    /\ Showing
    /\ list.box # None
    /\ Armed
    /\ sent = None
    /\ sent' = [ what |-> "delete", ids |-> list.picked, typed |-> list.box,
                 answer |-> None, heard |-> TRUE ]
    /\ list' = [list EXCEPT !.box = None]
    /\ UNCHANGED <<fleet, unborn, carried, clicks, stirs, left>>

(* The transfer dialog, with everything that is ticked.                    *)
Move ==
    /\ Click
    /\ Count(list.picked) > 0
    /\ sent = None
    /\ sent' = [ what |-> "move", ids |-> list.picked, typed |-> Count(list.picked),
                 answer |-> None, heard |-> TRUE ]
    /\ UNCHANGED <<fleet, unborn, list, carried, stirs, left>>

Named(batch) == { d \in Device : batch.ids[d] > 0 }

(* DeleteMany: every id is found before it is deleted, so one that comes   *)
(* twice is not found.                                                     *)
Deletable(batch) == Named(batch) \subseteq fleet /\ \A d \in Device : batch.ids[d] <= 1

(* A walk is no longer quiet when the fleet changes under it.              *)
Disturbed ==
    IF Showing /\ list.walk # None THEN [list EXCEPT !.walk.quiet = FALSE] ELSE list

ServerDeletes ==
    /\ sent # None
    /\ sent.what = "delete"
    /\ sent.answer = None
    /\ IF Deletable(sent)
       THEN /\ fleet' = fleet \ Named(sent)
            /\ sent' = [sent EXCEPT !.answer = "done"]
            /\ list' = Disturbed
       ELSE /\ sent' = [sent EXCEPT !.answer = "refused"]
            /\ UNCHANGED <<fleet, list>>
    /\ UNCHANGED <<unborn, carried, clicks, stirs, left>>

(* Apply refuses a device it does not find, and passes over one that is    *)
(* already where it goes.                                                  *)
ServerMoves ==
    /\ sent # None
    /\ sent.what = "move"
    /\ sent.answer = None
    /\ sent' = [sent EXCEPT !.answer = IF Named(sent) \subseteq fleet THEN "done" ELSE "refused"]
    /\ UNCHANGED <<fleet, unborn, list, carried, clicks, stirs, left>>

(* Success clears all that is ticked by then, and the bar goes with its    *)
(* confirmation.                                                           *)
Answer ==
    /\ sent # None
    /\ sent.answer # None
    /\ list' = IF sent.heard /\ sent.answer = "done"
               THEN [list EXCEPT !.picked = NothingPicked, !.box = None] ELSE list
    /\ sent' = None
    /\ UNCHANGED <<fleet, unborn, carried, clicks, stirs, left>>

(* The row menu, which is off while anything is ticked.                    *)
RemoveOne ==
    /\ Click
    /\ Count(list.picked) = 0
    /\ \E d \in ToSet(list.rows) :
        /\ d \in fleet
        /\ fleet' = fleet \ {d}
    /\ list' = Disturbed
    /\ UNCHANGED <<unborn, carried, sent, stirs, left>>

-----------------------------------------------------------------------------
(* Leaving the list and coming back.                                       *)

Unheard == IF sent = None THEN None ELSE [sent EXCEPT !.heard = FALSE]

(* A row opens its device with the list's address.                         *)
OpenDevice ==
    /\ Click
    /\ list.rows # <<>>
    /\ carried' = AddressOf(list.asked)
    /\ left' = list.asked
    /\ list' = None
    /\ sent' = Unheard
    /\ UNCHANGED <<fleet, unborn, stirs>>

(* NewAssetDialog: the new device is opened, with no address to go back to. *)
Record ==
    /\ Click
    /\ \E d \in unborn :
        /\ unborn' = unborn \ {d}
        /\ fleet' = fleet \cup {d}
    /\ carried' = Plain
    /\ left' = None
    /\ list' = None
    /\ sent' = Unheard
    /\ UNCHANGED stirs

Return ==
    /\ ~ Showing
    /\ list' = Mounted(carried)
    /\ carried' = Plain
    /\ left' = None
    /\ UNCHANGED <<fleet, unborn, sent, clicks, stirs>>

Colleague ==
    /\ stirs < MaxStirs
    /\ stirs' = stirs + 1
    /\ \/ \E d \in unborn : unborn' = unborn \ {d} /\ fleet' = fleet \cup {d}
       \/ \E d \in fleet : fleet' = fleet \ {d} /\ UNCHANGED unborn
    /\ list' = Disturbed
    /\ UNCHANGED <<carried, sent, clicks, left>>

ListNext ==
    \/ Narrow \/ Turn \/ Resize \/ Fetch
    \/ Tick \/ TickPage \/ Clear \/ SelectAll \/ Walk \/ WalkFails
    \/ Type \/ Cancel \/ Confirm \/ Move \/ ServerDeletes \/ ServerMoves \/ Answer
    \/ RemoveOne \/ OpenDevice \/ Record \/ Return \/ Colleague

ListSpec == ListInit /\ [][ListNext]_listVars

-----------------------------------------------------------------------------
(* A walk meets a device again only when another comes before it.          *)
Picked == [ Device -> 0..(MaxStirs + 1) ]

Filters == [ category : Category \cup {None}, model : Model \cup {None} ]

Question == [ filter : Filters, size : ToSet(PageSizes), page : Nat ]

Address ==
    [ filter : Filters, page : Nat \cup {None}, limit : ToSet(PageSizes) \cup {None} ]

Walks == [ filter : Filters, total : Nat, offset : Nat, met : Picked, quiet : BOOLEAN ]

Lists ==
    [ asked : Question, rows : Seq(Device), total : 0..Cardinality(Device), picked : Picked,
      walk : Walks \cup {None}, box : Nat \cup {None} ]

Orders ==
    [ what : {"delete", "move"}, ids : Picked, typed : Nat,
      answer : {"done", "refused", None}, heard : BOOLEAN ]

ASSUME NothingIsNoList == None \notin Lists /\ None \notin Walks /\ None \notin Orders

(* The filters are those there are, the rows are devices there ever were,  *)
(* each once, and no more than a page of them, and a walk ends where its   *)
(* total does (Assets, SelectAllBanner).                                   *)
ListTypeOK ==
    /\ fleet \subseteq Device /\ unborn \subseteq Device \ fleet
    /\ list \in Lists \cup {None}
    /\ carried \in Address
    /\ sent \in Orders \cup {None}
    /\ left \in Question \cup {None}
    /\ Showing => /\ IsInjective(list.rows)
                  /\ \E size \in ToSet(PageSizes) : Len(list.rows) <= size
                  /\ list.walk # None => list.walk.offset < list.walk.total
    /\ clicks \in 0..MaxClicks /\ stirs \in 0..MaxStirs

(* A batch that is deleted takes as many devices as the number that was    *)
(* typed, all of them ticked, and a batch that is refused takes none       *)
(* (ConfirmDialog's phrase, the ids that were ticked when it was sent, and *)
(* DeleteMany's "all or nothing"), whatever a walk added and whatever      *)
(* colleagues deleted in between.                                          *)
CountIsHonest ==
    [][ sent # None /\ sent' # None /\ sent.what = "delete" /\ sent.answer # sent'.answer =>
            LET gone == fleet \ fleet' IN
            IF sent'.answer = "done"
            THEN gone = Named(sent) /\ Cardinality(gone) = sent.typed
            ELSE gone = {} ]_listVars

(* "Select all N" that starts from a true N, with no device recorded or    *)
(* deleted before it ends, ticks all that its filter matches, whatever is  *)
(* filtered, turned or ticked meanwhile (SelectAllBanner's walk by         *)
(* offset).                                                                *)
QuietWalksTakeAll ==
    [][ Showing /\ list.walk # None /\ list.walk.quiet /\ Walk /\ list'.walk = None =>
            \A d \in ToSet(Matching(list.walk.filter, fleet)) : Has(list'.picked, d) ]_listVars

(* Opening a device from the list and coming back finds the filters and    *)
(* the page size that were left (the address, which the device page hands  *)
(* back).                                                                  *)
FiltersComeBack ==
    [][ ~ Showing /\ list' # None /\ left # None =>
            list'.asked.filter = left.filter /\ list'.asked.size = left.size ]_listVars

=============================================================================
