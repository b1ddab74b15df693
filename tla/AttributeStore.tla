--------------------------- MODULE AttributeStore ---------------------------
(***************************************************************************)
(* What the assets record (internal/asset, the import, and the side of     *)
(* internal/schema that touches assets): the attributes of each asset, the *)
(* table of unique values, the search index, and the requests that write   *)
(* them over a schema that changes meanwhile.                              *)
(*                                                                         *)
(* A save has two halves: Prepare reads the schema on the read pool,       *)
(* validates and evaluates; Persist writes, in a transaction, what was     *)
(* prepared, under the version the form was opened at.  A recomputation    *)
(* plans on the read pool and writes its plan under no version at all, one *)
(* transaction for each subtree.                                           *)
(*                                                                         *)
(* A value is modelled by what tells it apart: how it was typed, and what  *)
(* it is stored as.  An empty value is no value.  The defaults of a model  *)
(* are as if typed.  Archived unique values, which block nothing, and the  *)
(* state triple, which TransferLedger has, are left out.                   *)
(***************************************************************************)
EXTENDS SchemaTree

CONSTANTS
    Asset, Session,
    Value,          \* values as they are stored
    Typed,          \* values as they are typed
    Normal,         \* what validation makes of a typed value
    Render(_, _),   \* what a template makes of the attributes
    Nothing,        \* no value
    MaxVersion,     \* bound: the writes to one asset
    MaxEdits        \* bound: the changes of the schema

VARIABLES
    searched,       \* the fields whose search switch is on
    rows,           \* the assets table
    slots,          \* asset_unique_values: the live ones of each asset
    found,          \* asset_search_values of each asset
    saves,          \* what each session has prepared
    renumbering,    \* the recomputation under way, and the keys deleted since its plan
    edits           \* how often the schema has changed, for the bound

schemaVars == <<categories, fields, bound, models, vendors, deleting>>
tables == <<rows, slots, found>>
storeVars == <<schemaVars, searched, tables, saves, renumbering, edits>>

Attrs == [Key -> Value \cup {Nothing}]
Slot  == [ key : Key, value : Value, scope : Category \cup Field ]
Hit   == Key \X Value

Row == [ cat : Category, model : Model \cup {NoModel}, attrs : Attrs, version : 1..MaxVersion ]

Write == [ attrs : Attrs, unique : SUBSET Slot, search : SUBSET Hit ]

Save ==
    [ asset : Asset, cat : Category, model : Model \cup {NoModel}, fields : SUBSET Field,
      version : 0..(MaxVersion - 1), write : Write ]

Change == [ version : 1..MaxVersion, write : Write ]

ASSUME AttributeAssumption ==
    /\ Normal \in [Typed -> Value]
    /\ Nothing \notin Value \cup Typed
    /\ IsFiniteSet(Asset)
    /\ MaxVersion \in Nat \ {0} /\ MaxEdits \in Nat
    /\ Absent \notin Row

Models == Live(models) \cup {NoModel}

Assets == { a \in Asset : rows[a] # Absent }

PathOf(a) == Path(rows[a].cat)

-----------------------------------------------------------------------------
(* The pipeline                                                            *)

FieldsOf(c, m) == FieldsForAsset(bound, Path(c), m)

(* The order of evaluation exists and no key is asked for twice.           *)
Askable(fs) ==
    /\ \A f, g \in fs : KeyOf[f] = KeyOf[g] => f = g
    /\ \A S \in SUBSET (fs \cap Computed) : S # {} =>
          \E f \in S : fields[f].reads \cap Keys(S) = {}

(* ValidateAttrs: the fields asked for, which is all of a form that counts, *)
(* in their normal form.                                                   *)
Forms(fs) == [Keys(fs \ Computed) -> Typed \cup {Nothing}]

Complete(fs, typed) ==
    \A f \in fs \ Computed : fields[f].required => typed[KeyOf[f]] # Nothing

Validated(typed) ==
    [ k \in Key |-> IF k \in DOMAIN typed /\ typed[k] # Nothing THEN Normal[typed[k]] ELSE Nothing ]

(* evalComputed: the attributes with the computed ones among fs filled in. *)
(* There are none when an expression reads a key that has no value.        *)
Evaluated(fs, given) ==
    { attrs \in Attrs :
        /\ \A k \in Key \ Keys(fs \cap Computed) : attrs[k] = given[k]
        /\ \A f \in fs \cap Computed :
              /\ \A k \in fields[f].reads : attrs[k] # Nothing
              /\ attrs[KeyOf[f]] = Render(fields[f].reads, attrs) }

(* uniqueScope; the variant forgets which category the field comes from.   *)
ScopeOfOwn(f, c) == IF BoundTo(bound, Model \cup Vendor, f) # {} THEN f ELSE c
Scope(f, c) ==
    IF BoundTo(bound, Model \cup Vendor, f) # {} THEN f
    ELSE CHOOSE d \in AncestorIDs(Path(c)) : <<d, f>> \in bound

UniqueValues(fs, attrs, c) ==
    { [ key |-> KeyOf[f], value |-> attrs[KeyOf[f]], scope |-> Scope(f, c) ] :
        f \in { g \in fs \cap Unique : attrs[KeyOf[g]] # Nothing } }

Findable == searched \cup Unique

SearchValues(fs, attrs) ==
    { <<KeyOf[f], attrs[KeyOf[f]]>> : f \in { g \in fs \cap Findable : attrs[KeyOf[g]] # Nothing } }

Prepared(fs, attrs, c) ==
    [ attrs |-> attrs, unique |-> UniqueValues(fs, attrs, c), search |-> SearchValues(fs, attrs) ]

(* carryOrphans: what was stored under the keys no longer asked for; the   *)
(* variant drops it.                                                       *)
DropOrphans(fs, prev, next) == next
CarryOrphans(fs, prev, next) ==
    [ k \in Key |-> IF k \notin Keys(fs) /\ next[k] = Nothing THEN prev[k] ELSE next[k] ]

(* probeUnique and the partial index: no other asset has a live row.       *)
Free(table, a, unique) == \A b \in Asset \ {a} : table[b] \cap unique = {}

-----------------------------------------------------------------------------
NoPlan == [ a \in {} |-> Absent ]

StoreInit ==
    /\ Init
    /\ searched = {}
    /\ rows = [a \in Asset |-> Absent]
    /\ slots = [a \in Asset |-> {}]
    /\ found = [a \in Asset |-> {}]
    /\ saves = [s \in Session |-> Idle]
    /\ renumbering = Idle
    /\ edits = 0

(* An id no request has in hand: ids are fresh UUIDs.                      *)
Fresh(a) ==
    /\ rows[a] = Absent
    /\ \A s \in Session : saves[s] # Idle => saves[s].asset # a
    /\ renumbering # Idle => a \notin DOMAIN renumbering.plan

(* Prepare, for POST /assets and PATCH /assets/:id.  The form names the    *)
(* version it was opened at; one opened earlier still fails in any case.   *)
Prepare(s, a, c, m, typed) ==
    LET fs == FieldsOf(c, m)
    IN  /\ saves[s] = Idle
        /\ Fresh(a) \/ (rows[a] # Absent /\ rows[a].version < MaxVersion)
        /\ c \in Live(categories)
        /\ m \in Models
        /\ Resolvable(bound, Path(c)) /\ Askable(fs)
        /\ Complete(fs, typed)
        /\ \E attrs \in Evaluated(fs, Validated(typed)) :
              saves' = [saves EXCEPT ![s] =
                  [ asset |-> a, cat |-> c, model |-> m, fields |-> fs,
                    version |-> IF rows[a] = Absent THEN 0 ELSE rows[a].version,
                    write |-> Prepared(fs, attrs, c) ]]
        /\ UNCHANGED <<schemaVars, searched, tables, renumbering, edits>>

(* Persist: the row under its version, then both indexes.                  *)
Persist(s) ==
    LET p == saves[s]
        a == p.asset
        attrs == IF rows[a] = Absent THEN p.write.attrs
                 ELSE CarryOrphans(p.fields, rows[a].attrs, p.write.attrs)
    IN  /\ saves[s] # Idle
        /\ IF rows[a] = Absent THEN p.version = 0 ELSE rows[a].version = p.version
        /\ p.cat \in Live(categories)
        /\ p.model \in Models
        /\ Free(slots, a, p.write.unique)
        /\ rows' = [rows EXCEPT ![a] =
                [ cat |-> p.cat, model |-> p.model, attrs |-> attrs, version |-> p.version + 1 ]]
        /\ slots' = [slots EXCEPT ![a] = p.write.unique]
        /\ found' = [found EXCEPT ![a] = p.write.search]
        /\ saves' = [saves EXCEPT ![s] = Idle]
        /\ UNCHANGED <<schemaVars, searched, renumbering, edits>>

(* The save is refused, or its caller has gone.                            *)
Refuse(s) ==
    /\ saves[s] # Idle
    /\ saves' = [saves EXCEPT ![s] = Idle]
    /\ UNCHANGED <<schemaVars, searched, tables, renumbering, edits>>

(* The import of a file: its lines go through the pipeline one after the   *)
(* other inside one transaction, and all of them stay or none.             *)
Lines(c) == UNION { [ model : {m}, typed : Forms(FieldsOf(c, m)) ] : m \in Models }

Import(c, lines) ==
    LET new == DOMAIN lines
        fs == [ a \in new |-> FieldsOf(c, lines[a].model) ]
        attrs == [ a \in new |-> CHOOSE v \in Evaluated(fs[a], Validated(lines[a].typed)) : TRUE ]
        table == [ a \in Asset |-> IF a \in new THEN UniqueValues(fs[a], attrs[a], c) ELSE slots[a] ]
    IN  /\ \A a \in new : Fresh(a)
        /\ Resolvable(bound, Path(c))
        /\ \A a \in new :
              /\ Askable(fs[a]) /\ Complete(fs[a], lines[a].typed)
              /\ Evaluated(fs[a], Validated(lines[a].typed)) # {}
        /\ \A a \in new : Free(table, a, table[a])
        /\ slots' = table
        /\ found' = [ a \in Asset |-> IF a \in new THEN SearchValues(fs[a], attrs[a]) ELSE found[a] ]
        /\ rows' = [ a \in Asset |->
              IF a \in new THEN [ cat |-> c, model |-> lines[a].model, attrs |-> attrs[a], version |-> 1 ]
              ELSE rows[a] ]
        /\ UNCHANGED <<schemaVars, searched, saves, renumbering, edits>>

(* Delete and DeleteMany: the rows of both indexes go with the assets.     *)
Delete(as) ==
    /\ as # {} /\ as \subseteq Assets
    /\ rows' = [ a \in Asset |-> IF a \in as THEN Absent ELSE rows[a] ]
    /\ slots' = [ a \in Asset |-> IF a \in as THEN {} ELSE slots[a] ]
    /\ found' = [ a \in Asset |-> IF a \in as THEN {} ELSE found[a] ]
    /\ UNCHANGED <<schemaVars, searched, saves, renumbering, edits>>

-----------------------------------------------------------------------------
(* Recomputation                                                           *)

Under(c) == { a \in Assets : IsDescendantOf(PathOf(a), Path(c)) }

(* A recomputation knows the fields of the category and not of the model.  *)
ChainFields(a) == Resolve(bound, PathOf(a))

Plannable(c) ==
    /\ c \in Live(categories)
    /\ \A a \in Under(c) :
          /\ Resolvable(bound, PathOf(a))
          /\ Askable(ChainFields(a))
          /\ Evaluated(ChainFields(a), rows[a].attrs) # {}

(* The variant leaves the search index as it was.                          *)
ProposedUnindexed(a) ==
    [ Prepared(ChainFields(a), CHOOSE attrs \in Evaluated(ChainFields(a), rows[a].attrs) : TRUE, rows[a].cat)
        EXCEPT !.search = found[a] ]
Proposed(a) ==
    Prepared(ChainFields(a), CHOOSE attrs \in Evaluated(ChainFields(a), rows[a].attrs) : TRUE, rows[a].cat)

Changed(c) == { a \in Under(c) : Proposed(a).attrs # rows[a].attrs }

(* Two assets of the subtree, or one of them and one outside.              *)
Conflict(c) ==
    \E a \in Under(c) :
        \/ \E b \in Under(c) \ {a} : Proposed(a).unique \cap Proposed(b).unique # {}
        \/ \E b \in Assets \ Under(c) : Proposed(a).unique \cap slots[b] # {}

(* categoriesBinding: the topmost categories that bind the field.          *)
Roots(f) ==
    LET bs == BoundTo(bound, Category, f)
    IN  { c \in bs : \A d \in bs \ {c} : ~ IsDescendantOf(Path(c), Path(d)) }

Pending(todo) == [ todo |-> todo, plan |-> NoPlan, wiped |-> {} ]

(* POST /categories/:id/recompute.                                         *)
RecomputeCategory(c) ==
    /\ renumbering = Idle
    /\ c \in Live(categories)
    /\ renumbering' = Pending({c})
    /\ UNCHANGED <<schemaVars, searched, tables, saves, edits>>

(* POST /fields/:id/recompute: nothing starts while a subtree conflicts.   *)
RecomputeField(f) ==
    /\ renumbering = Idle
    /\ \A c \in Roots(f) : Plannable(c) /\ ~ Conflict(c)
    /\ \E c \in Roots(f) : Changed(c) # {}
    /\ renumbering' = Pending(Roots(f))
    /\ UNCHANGED <<schemaVars, searched, tables, saves, edits>>

Onwards(todo) == IF todo = {} THEN Idle ELSE Pending(todo)

(* The plan for one subtree; one that conflicts or changes nothing is      *)
(* passed over.                                                            *)
PlanRecompute(c) ==
    /\ renumbering # Idle
    /\ renumbering.plan = NoPlan /\ c \in renumbering.todo
    /\ Plannable(c)
    /\ renumbering' =
          IF Conflict(c) \/ Changed(c) = {} THEN Onwards(renumbering.todo \ {c})
          ELSE [ todo |-> renumbering.todo \ {c},
                 plan |-> [ a \in Changed(c) |-> [ version |-> rows[a].version, write |-> Proposed(a) ] ],
                 wiped |-> {} ]
    /\ UNCHANGED <<schemaVars, searched, tables, saves, edits>>

(* The rows are written one after the other, in the order they were read,  *)
(* and the index is asked each time: every asset finds those before it     *)
(* rewritten and those after it as they were.  An asset that is gone has   *)
(* no row for the values to refer to.                                      *)
Writable(plan, order) ==
    /\ \A a \in DOMAIN plan \ Assets : plan[a].write.unique = {} /\ plan[a].write.search = {}
    /\ \A i \in DOMAIN order :
          Free([ b \in Asset |-> IF \E j \in 1..(i - 1) : order[j] = b THEN plan[b].write.unique
                                 ELSE slots[b] ],
               order[i], plan[order[i]].write.unique)

Orders(as) == { order \in [1..Cardinality(as) -> as] : \A a \in as : \E i \in DOMAIN order : order[i] = a }

(* writeRecomputed, over whatever the rows have become.                    *)
WriteRecomputed ==
    LET plan == renumbering.plan
        as == DOMAIN plan \cap Assets
    IN  /\ renumbering # Idle
        /\ plan # NoPlan
        /\ \E order \in Orders(DOMAIN plan) : Writable(plan, order)
        /\ \A a \in as : rows[a].version < MaxVersion
        /\ rows' = [ a \in Asset |->
              IF a \in as THEN [rows[a] EXCEPT !.attrs = plan[a].write.attrs, !.version = @ + 1] ELSE rows[a] ]
        /\ slots' = [ a \in Asset |-> IF a \in as THEN plan[a].write.unique ELSE slots[a] ]
        /\ found' = [ a \in Asset |-> IF a \in as THEN plan[a].write.search ELSE found[a] ]
        /\ renumbering' = Onwards(renumbering.todo)
        /\ UNCHANGED <<schemaVars, searched, saves, edits>>

(* An error ends it, and what the subtrees before have got they keep.      *)
StopRecompute ==
    /\ renumbering # Idle
    /\ renumbering' = Idle
    /\ UNCHANGED <<schemaVars, searched, tables, saves, edits>>

-----------------------------------------------------------------------------
(* The schema's own steps, where assets are concerned                      *)

AssetsUsing(f) ==
    { a \in Assets : rows[a].attrs[KeyOf[f]] # Nothing /\ InScope(BoundPaths(f), PathOf(a)) }

FieldsGone == { f \in Field : fields[f] # Absent /\ fields'[f] = Absent }

(* A category with assets under it is neither moved nor deleted, a model   *)
(* that an asset has is not deleted, and the deletion of a field looks for *)
(* values where the field is bound.                                        *)
HeldBack ==
    /\ \A c \in Live(categories) :
          (categories'[c] = Absent \/ categories'[c].path # Path(c)) => Under(c) = {}
    /\ \A a \in Assets : rows[a].model # NoModel => models'[rows[a].model] # Absent
    /\ deleting' \notin {deleting, Idle} => AssetsUsing(deleting') = {}

(* deleteFieldTx takes the key out of every asset, and not the version.    *)
Stripped(row, ks) ==
    [row EXCEPT !.attrs = [ k \in Key |-> IF k \in ks THEN Nothing ELSE @[k] ]]

Configure ==
    /\ edits < MaxEdits
    /\ edits' = edits + 1
    /\ Next
    /\ HeldBack
    /\ searched' \in SUBSET { f \in Field : fields'[f] # Absent }
    /\ \A f \in Live(fields) : fields'[f] # Absent => (f \in searched' <=> f \in searched)
    /\ rows' = [ a \in Asset |->
          IF rows[a] = Absent THEN Absent ELSE Stripped(rows[a], Keys(FieldsGone)) ]
    /\ renumbering' = IF renumbering = Idle THEN Idle
                      ELSE [ renumbering EXCEPT !.wiped = @ \cup Keys(FieldsGone) ]
    /\ UNCHANGED <<slots, found, saves>>

(* reindexField: what one asset has under the key, in every category; the  *)
(* variant does not pass over blanks.                                      *)
ReindexedBlank(a, f) == { <<KeyOf[f], rows[b].attrs[KeyOf[f]]>> : b \in Assets \cap {a} }
Reindexed(a, f) ==
    { <<KeyOf[f], rows[b].attrs[KeyOf[f]]>> : b \in { c \in Assets \cap {a} : rows[c].attrs[KeyOf[f]] # Nothing } }

(* UpdateField with the search switch.                                     *)
SwitchSearch(f) ==
    LET on == f \notin searched
    IN  /\ edits < MaxEdits
        /\ edits' = edits + 1
        /\ fields[f] # Absent
        /\ searched' = IF on THEN searched \cup {f} ELSE searched \ {f}
        /\ found' = [ a \in Asset |->
              { h \in found[a] : h[1] # KeyOf[f] } \cup
              (IF on \/ f \in Unique THEN Reindexed(a, f) ELSE {}) ]
        /\ UNCHANGED <<schemaVars, rows, slots, saves, renumbering>>

-----------------------------------------------------------------------------
StoreNext ==
    \/ \E s \in Session :
          \/ \E a \in Asset, c \in Live(categories), m \in Models :
                \E typed \in Forms(FieldsOf(c, m)) : Prepare(s, a, c, m, typed)
          \/ Persist(s)
          \/ Refuse(s)
    \/ \E c \in Live(categories), new \in SUBSET (Asset \ Assets) \ {{}} :
          \E lines \in [new -> Lines(c)] : Import(c, lines)
    \/ \E as \in SUBSET Asset : Delete(as)
    \/ \E c \in Category : RecomputeCategory(c) \/ PlanRecompute(c)
    \/ \E f \in Field : RecomputeField(f) \/ SwitchSearch(f)
    \/ WriteRecomputed
    \/ StopRecompute
    \/ Configure

StoreSpec == StoreInit /\ [][StoreNext]_storeVars

-----------------------------------------------------------------------------
(* Properties                                                              *)

(* Every variable has its type; what is stored is in its normal form.      *)
StoreTypeOK ==
    /\ TypeOK
    /\ searched \subseteq Field
    /\ rows \in [Asset -> Row \cup {Absent}]
    /\ slots \in [Asset -> SUBSET Slot] /\ found \in [Asset -> SUBSET Hit]
    /\ saves \in [Session -> Save \cup {Idle}]
    /\ renumbering # Idle =>
          /\ renumbering = [ todo |-> renumbering.todo, plan |-> renumbering.plan, wiped |-> renumbering.wiped ]
          /\ renumbering.todo \subseteq Category /\ renumbering.wiped \subseteq Key
          /\ DOMAIN renumbering.plan \subseteq Asset
          /\ \A a \in DOMAIN renumbering.plan : renumbering.plan[a] \in Change
    /\ edits \in 0..MaxEdits

(* The two indexes of an asset say what the asset says.                    *)
Backed(a) ==
    /\ \A u \in slots[a] : u.value = rows[a].attrs[u.key]
    /\ \A h \in found[a] : h[2] = rows[a].attrs[h[1]]

(* pipeline.go, recompute.go, field_store.go: whoever writes a value writes *)
(* both indexes in the same transaction, so no scanner or search lands on  *)
(* a value the device does not carry.  Only a field's deletion, which      *)
(* leaves both tables alone, takes a value from under its entries.         *)
IndexesStayBacked ==
    [][\A a \in Assets : Backed(a) /\ a \in Assets' /\ ~ Backed(a)' => FieldsGone # {}]_storeVars

(* docs/rules/schema.md: nothing is silently destroyed.  A value changes   *)
(* because a form asked for it, because it is computed, because its field  *)
(* is deleted, or because a recomputation, which writes what it read       *)
(* without a look at the version, goes over a later save or brings back    *)
(* what the deletion of a field took out since.                            *)
ValuesChangeWhenAsked ==
    [][\A a \in Assets, k \in Key : a \in Assets' /\ rows'[a].attrs[k] # rows[a].attrs[k] =>
          \/ \E s \in Session : saves[s] # Idle /\ saves'[s] = Idle /\ saves[s].asset = a
                              /\ k \in Keys(saves[s].fields)
          \/ k \in Keys(FieldsGone)
          \/ /\ renumbering # Idle /\ a \in DOMAIN renumbering.plan
             /\ \/ k \in Keys(Computed)
                \/ renumbering.plan[a].version # rows[a].version
                \/ k \in renumbering.wiped]_storeVars

(* Two assets within the reach of one unique field have the same value.    *)
Binders(f, c) ==
    { t \in BoundTo(bound, Category, f) : t \in AncestorIDs(Path(c)) }

Twins(a, b) ==
    /\ a \in Assets /\ b \in Assets
    /\ \E f \in Unique \cap FieldsOf(rows[a].cat, rows[a].model) \cap FieldsOf(rows[b].cat, rows[b].model) :
          /\ rows[a].attrs[KeyOf[f]] # Nothing
          /\ rows[a].attrs[KeyOf[f]] = rows[b].attrs[KeyOf[f]]
          /\ \/ BoundTo(bound, Model \cup Vendor, f) # {}
             \/ Binders(f, rows[a].cat) \cap Binders(f, rows[b].cat) # {}

(* The asset's unique values are in the table, where they are looked for,  *)
(* and its chain names no key twice.                                       *)
Guarded(a) ==
    a \in Assets =>
        /\ Resolvable(bound, PathOf(a))
        /\ UniqueValues(FieldsOf(rows[a].cat, rows[a].model), rows[a].attrs, rows[a].cat) \subseteq slots[a]

(* What is about to be written for a was worked out from an older schema,  *)
(* or from an older row.                                                   *)
Outdated(a) ==
    \/ \E s \in Session :
          LET p == saves[s]
          IN  /\ p # Idle /\ p.asset = a /\ p.cat \in Live(categories) /\ p.model \in Models
              /\ \/ ~ Resolvable(bound, Path(p.cat))
                 \/ p.fields # FieldsOf(p.cat, p.model)
                 \/ p.write.unique # UniqueValues(p.fields, p.write.attrs, p.cat)
    \/ /\ renumbering # Idle /\ a \in DOMAIN renumbering.plan
       /\ \/ Evaluated(ChainFields(a), rows[a].attrs) = {}
          \/ renumbering.plan[a].write # Proposed(a)

(* persist.go: values that must not collide do not.  Two assets come to    *)
(* share one only if the schema changes under them, if a write rests on an *)
(* older state of things, or if one of them had lost its entry before.     *)
TwinsAreExplained ==
    [][\A a, b \in Asset : a # b /\ Twins(a, b)' /\ ~ Twins(a, b) =>
          schemaVars' # schemaVars \/ ~ (Guarded(a) /\ Guarded(b)) \/ Outdated(a) \/ Outdated(b)]_storeVars
=============================================================================
