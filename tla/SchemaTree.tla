----------------------------- MODULE SchemaTree -----------------------------
(***************************************************************************)
(* What an asset is asked to record (internal/schema): the category tree,  *)
(* the field library, what binds a field to a category, to a model or to a *)
(* vendor, and the fields of one device that follow from it.               *)
(*                                                                         *)
(* Each operation is one transaction, except the deletion of a field: it   *)
(* looks at what reads the field on the read pool, and deletes in a        *)
(* transaction that looks at nothing.  Requests that change nothing are    *)
(* left out.  Assets are not here: they only keep a category, a model or a *)
(* field from being moved or deleted, so leaving them out allows more.     *)
(* AttributeStore has them.                                                *)
(*                                                                         *)
(* A field's key, its type and its uniqueness never change, so they are    *)
(* constants of its id.  Keys are not unique in the library (migration     *)
(* 011).  Names, labels, sort orders, the search switch and field groups   *)
(* are left out: a group is a list of fields, bound one by one.            *)
(***************************************************************************)
EXTENDS Naturals, Sequences, FiniteSets

CONSTANTS
    Category, Field, Model, Vendor,          \* ids: fresh UUIDs
    Key,
    KeyOf,          \* the key of each field
    Computed,       \* the fields with a template
    Unique,         \* the fields whose values are unique
    Template,       \* the sets of keys a template may read
    MaxPath,        \* bound: the length of a path
    MaxRows,        \* bound: the rows there are at a time, of all kinds
    MaxBatch,       \* bound: the fields, and the targets, bound by one request
    Absent,         \* an id without a row
    NoParent, NoVendor, NoModel, NoKey,      \* NULL
    Idle            \* no such field

Target == Category \cup Model \cup Vendor

CategoryRow == [ parent : Category \cup {NoParent}, path : Seq(Category), display : Key \cup {NoKey} ]
FieldRow    == [ required : BOOLEAN, reads : SUBSET Key ]

ASSUME SchemaAssumption ==
    /\ KeyOf \in [Field -> Key]
    /\ Computed \subseteq Field /\ Unique \subseteq Field
    /\ Template \subseteq SUBSET Key
    /\ MaxPath \in Nat /\ MaxRows \in Nat /\ MaxBatch \in Nat
    /\ Category \cap Model = {} /\ Category \cap Vendor = {} /\ Model \cap Vendor = {}
    /\ NoParent \notin Category /\ NoVendor \notin Target /\ NoModel \notin Model
    /\ Absent \notin CategoryRow /\ Absent \notin FieldRow /\ Absent \notin Vendor \cup {NoVendor}
    /\ NoKey \notin Key /\ Idle \notin Field

VARIABLES
    categories,     \* the categories table
    fields,         \* field_definitions
    bound,          \* category_fields, model_fields and vendor_fields
    models,         \* product_models: the vendor of each
    vendors,        \* vendors
    deleting        \* the field that DeleteField has checked and not yet deleted

vars == <<categories, fields, bound, models, vendors, deleting>>

Live(table) == { x \in DOMAIN table : table[x] # Absent }

Room ==
    Cardinality(Live(categories)) + Cardinality(Live(fields)) + Cardinality(Live(models))
        + Cardinality(vendors) < MaxRows

Path(c) == categories[c].path

-----------------------------------------------------------------------------
(* Paths                                                                   *)

BuildPath(parentPath, c) == Append(parentPath, c)

AncestorIDs(path) == { path[i] : i \in DOMAIN path }

IsDescendantOf(path, ancestorPath) ==
    /\ Len(ancestorPath) <= Len(path)
    /\ SubSeq(path, 1, Len(ancestorPath)) = ancestorPath

OnOneChain(p, q) == IsDescendantOf(p, q) \/ IsDescendantOf(q, p)

InScope(paths, path) == \E p \in paths : OnOneChain(p, path)

-----------------------------------------------------------------------------
(* The fields of a category and of a device, for bindings b                *)

(* Resolve: what the categories named in a path bind.                      *)
Resolve(b, path) == { f \in Field : \E c \in AncestorIDs(path) : <<c, f>> \in b }

(* FieldsForAsset: and what the model binds, and its vendor.               *)
FieldsForAsset(b, path, m) ==
    Resolve(b, path) \cup
    { f \in Field : m # NoModel /\ (<<m, f>> \in b \/ <<models[m], f>> \in b) }

Keys(fs) == { KeyOf[f] : f \in fs }

(* Resolve reports a key it meets twice on a path.                         *)
Resolvable(b, path) ==
    \A i, j \in DOMAIN path, f, g \in Field :
        (<<path[i], f>> \in b /\ <<path[j], g>> \in b /\ KeyOf[f] = KeyOf[g]) => i = j /\ f = g

(* The pairs of a category in b, seen through the path prefix of SQL.      *)
BoundOnChain(b, path) ==
    { f \in Field : \E c \in Live(categories) : <<c, f>> \in b /\ IsDescendantOf(path, Path(c)) }

BoundTo(b, kind, f) == { t \in kind : <<t, f>> \in b }

-----------------------------------------------------------------------------
(* Dependencies, for a field table F                                       *)

(* loadLibrary: the library by key.  Where a key repeats, the row that the *)
(* database returns last stays, and no order is asked of it.               *)
Libraries(F) ==
    { lib \in [ { KeyOf[f] : f \in Live(F) } -> Live(F) ] : \A k \in DOMAIN lib : KeyOf[lib[k]] = k }

ReadBy(F, lib, k) ==
    IF k \in DOMAIN lib /\ lib[k] \in Computed THEN F[lib[k]].reads ELSE {}

DependencyClosure(F, lib, k) ==
    { d \in Key : \A D \in SUBSET Key :
        (ReadBy(F, lib, k) \subseteq D /\ \A e \in D : ReadBy(F, lib, e) \subseteq D) => d \in D }

(* The walk meets a key it is still walking.                               *)
HasCycle(F, lib, k) ==
    \E S \in SUBSET ({k} \cup DependencyClosure(F, lib, k)) :
        S # {} /\ \A d \in S : ReadBy(F, lib, d) \cap S # {}

(* checkBindDeps.                                                          *)
DepsMet(F, b, path, k) ==
    \E lib \in Libraries(F) :
        /\ ~ HasCycle(F, lib, k)
        /\ \A d \in DependencyClosure(F, lib, k) :
              /\ d \in DOMAIN lib
              /\ \E g \in BoundOnChain(b, path) :
                    KeyOf[g] = d /\ (lib[d] \in Computed \/ F[g].required)

-----------------------------------------------------------------------------
(* Binding                                                                 *)

(* bindTx; the variant looks up the chain and not below.                   *)
MayBindCategoryUpwards(F, b, c, f) ==
    /\ BoundTo(b, Model \cup Vendor, f) = {}
    /\ \A p \in b : KeyOf[p[2]] = KeyOf[f] /\ p # <<c, f>> =>
          /\ p[1] \in Category => ~ IsDescendantOf(Path(c), Path(p[1]))
          /\ p[1] \notin Category => p[2] = f
    /\ f \in Computed => DepsMet(F, b, Path(c), KeyOf[f])
MayBindCategory(F, b, c, f) ==
    /\ BoundTo(b, Model \cup Vendor, f) = {}
    /\ \A p \in b : KeyOf[p[2]] = KeyOf[f] /\ p # <<c, f>> =>
          /\ p[1] \in Category => ~ OnOneChain(Path(c), Path(p[1]))
          /\ p[1] \notin Category => p[2] = f
    /\ f \in Computed => DepsMet(F, b, Path(c), KeyOf[f])

(* assertKeyFreeForDevice: the other fields with this key are on no        *)
(* category and on none of the targets ts that can meet on one device.     *)
KeyFreeForDevice(b, ts, f) ==
    \A p \in b : KeyOf[p[2]] = KeyOf[f] /\ p[2] # f => p[1] \notin Category \cup ts

(* bindModelTx; the variant forgets that the field may be on a category.   *)
MayBindModelAnyway(b, m, f) ==
    KeyFreeForDevice(b, {m, models[m]}, f)
MayBindModel(b, m, f) ==
    /\ BoundTo(b, Category, f) = {}
    /\ KeyFreeForDevice(b, {m, models[m]}, f)

(* bindVendorTx.                                                           *)
MayBindVendor(b, v, f) ==
    /\ BoundTo(b, Category, f) = {}
    /\ KeyFreeForDevice(b, {v} \cup { m \in Live(models) : models[m] = v }, f)

MayBind(F, b, t, f) ==
    \/ t \in Category /\ MayBindCategory(F, b, t, f)
    \/ t \in Model /\ MayBindModel(b, t, f)
    \/ t \in Vendor /\ MayBindVendor(b, t, f)

Targets == Live(categories) \cup Live(models) \cup vendors

(* bindGroupTx and the loops of CreateField: each field to each target,    *)
(* on top of the pairs before it, and nothing if one is refused.  The      *)
(* variant of AllPairs has the arguments the other way round.              *)
MayBindAll(F, fs, ts) ==
    /\ ts \subseteq Targets
    /\ \A i \in DOMAIN fs : F[fs[i]] # Absent
    /\ \A i \in DOMAIN fs, t \in ts :
           MayBind(F, bound \cup { <<u, fs[j]>> : u \in ts, j \in 1..(i - 1) }
                               \cup { <<u, fs[i]>> : u \in ts \ {t} }, t, fs[i])

(* The pairs a request writes; the variant takes a field for a target.     *)
AllPairsSwapped(fs, ts) == { <<fs[i], t>> : t \in ts, i \in DOMAIN fs }
AllPairs(fs, ts) == { <<t, fs[i]>> : t \in ts, i \in DOMAIN fs }

-----------------------------------------------------------------------------
Init ==
    /\ categories = [c \in Category |-> Absent]
    /\ fields = [f \in Field |-> Absent]
    /\ bound = {}
    /\ models = [m \in Model |-> Absent]
    /\ vendors = {}
    /\ deleting = Idle

(* Only a computed field has a template, and none is asked for.            *)
Definable(f, required, reads) ==
    IF f \in Computed THEN ~ required /\ reads \in Template ELSE reads = {}

(* POST /fields, with the targets to bind it to.                           *)
CreateField(f, required, reads, ts) ==
    LET F == [fields EXCEPT ![f] = [required |-> required, reads |-> reads]]
    IN  /\ fields[f] = Absent /\ Room
        /\ deleting # f
        /\ Definable(f, required, reads)
        /\ MayBindAll(F, <<f>>, ts)
        /\ fields' = F
        /\ bound' = bound \cup AllPairs(<<f>>, ts)
        /\ UNCHANGED <<categories, models, vendors, deleting>>

(* Bind, BindModel, BindVendor, BindGroupTo and CreateGroup.               *)
Bind(fs, ts) ==
    /\ AllPairs(fs, ts) \ bound # {}
    /\ MayBindAll(fields, fs, ts)
    /\ bound' = bound \cup AllPairs(fs, ts)
    /\ UNCHANGED <<categories, fields, models, vendors, deleting>>

(* What checkUnbindSafe asks of the categories near c; the variant looks   *)
(* up the chain and not below.                                             *)
NearUpwards(c) == { d \in Live(categories) : IsDescendantOf(Path(c), Path(d)) }
Near(c) == { d \in Live(categories) : OnOneChain(Path(c), Path(d)) }

UnbindSafe(c, f) ==
    /\ \E lib \in Libraries(fields) :
          \A g \in Computed \ {f} : BoundTo(bound, Near(c), g) # {} =>
              /\ ~ HasCycle(fields, lib, KeyOf[g])
              /\ KeyOf[f] \notin DependencyClosure(fields, lib, KeyOf[g])
    /\ \A d \in Near(c) : categories[d].display # KeyOf[f]

Unbind(c, f) ==
    /\ <<c, f>> \in bound
    /\ UnbindSafe(c, f)
    /\ bound' = bound \ {<<c, f>>}
    /\ UNCHANGED <<categories, fields, models, vendors, deleting>>

(* UnbindModel and UnbindVendor, which refuse nothing.                     *)
UnbindDevice(t, f) ==
    /\ <<t, f>> \in bound
    /\ bound' = bound \ {<<t, f>>}
    /\ UNCHANGED <<categories, fields, models, vendors, deleting>>

(* UpdateField: another template is checked where the field is bound; the  *)
(* required flag is not checked at all.                                    *)
UpdateField(f, required, reads) ==
    LET F == [fields EXCEPT ![f] = [required |-> required, reads |-> reads]]
    IN  /\ fields[f] # Absent
        /\ F # fields
        /\ Definable(f, required, reads)
        /\ reads # fields[f].reads =>
              \A c \in BoundTo(bound, Category, f) : DepsMet(F, bound, Path(c), KeyOf[f])
        /\ fields' = F
        /\ UNCHANGED <<categories, bound, models, vendors, deleting>>

-----------------------------------------------------------------------------
(* DeleteField.  boundPaths: a device may be of any category.              *)
BoundPaths(f) ==
    { Path(c) : c \in BoundTo(bound, Category, f) } \cup
    { Path(c) : c \in { d \in Live(categories) : BoundTo(bound, Model \cup Vendor, f) # {} } }

(* ReferrersOf: the computed fields in scope that read the key directly.   *)
ReferrersOf(f) ==
    { g \in Computed :
        /\ KeyOf[g] # KeyOf[f] /\ fields[g] # Absent /\ KeyOf[f] \in fields[g].reads
        /\ BoundPaths(f) # {}
        /\ \/ BoundTo(bound, Model \cup Vendor, g) # {}
           \/ \E c \in BoundTo(bound, Category, g) : InScope(BoundPaths(f), Path(c)) }

CategoriesUsingDisplayKey(f) ==
    { c \in Live(categories) : categories[c].display = KeyOf[f] /\ InScope(BoundPaths(f), Path(c)) }

DeleteFieldCheck(f) ==
    /\ deleting = Idle
    /\ fields[f] # Absent
    /\ ReferrersOf(f) = {} /\ CategoriesUsingDisplayKey(f) = {}
    /\ deleting' = f
    /\ UNCHANGED <<categories, fields, bound, models, vendors>>

(* deleteFieldTx: the bindings and the row.                                *)
DeleteFieldCommit ==
    LET f == deleting
    IN  /\ deleting # Idle
        /\ bound' = { p \in bound : p[2] # f }
        /\ fields' = [fields EXCEPT ![f] = Absent]
        /\ deleting' = Idle
        /\ UNCHANGED <<categories, models, vendors>>

(* Values are stored under it after all.                                   *)
DeleteFieldRefuse ==
    /\ deleting # Idle
    /\ deleting' = Idle
    /\ UNCHANGED <<categories, fields, bound, models, vendors>>

-----------------------------------------------------------------------------
(* Categories.  validateDisplayKey; the variant takes any field.           *)
DisplayKeyAny(path, k) == k = NoKey \/ k \in Keys(BoundOnChain(bound, path))
ValidDisplayKey(path, k) ==
    k = NoKey \/ \E f \in BoundOnChain(bound, path) : KeyOf[f] = k /\ f \in Unique

PathUnder(p, c) == BuildPath(IF p = NoParent THEN <<>> ELSE Path(p), c)

CreateCategory(c, p, k) ==
    /\ categories[c] = Absent /\ Room
    /\ \A d \in Live(categories) : c \notin AncestorIDs(Path(d))
    /\ p \in Live(categories) \cup {NoParent}
    /\ Len(PathUnder(p, c)) <= MaxPath
    /\ ValidDisplayKey(PathUnder(p, c), k)
    /\ categories' = [categories EXCEPT ![c] = [parent |-> p, path |-> PathUnder(p, c), display |-> k]]
    /\ UNCHANGED <<fields, bound, models, vendors, deleting>>

(* UpdateCategory: a move rewrites the category's own path.                *)
UpdateCategory(c, p, k) ==
    LET path == IF p = categories[c].parent THEN Path(c) ELSE PathUnder(p, c)
    IN  /\ c \in Live(categories)
        /\ p \in Live(categories) \cup {NoParent}
        /\ Len(path) <= MaxPath
        /\ ValidDisplayKey(path, k)
        /\ categories[c] # [parent |-> p, path |-> path, display |-> k]
        /\ categories' = [categories EXCEPT ![c] = [parent |-> p, path |-> path, display |-> k]]
        /\ UNCHANGED <<fields, bound, models, vendors, deleting>>

(* DeleteCategory.  Children are counted on the pool and held back by the  *)
(* foreign key in the transaction: the same question, asked once here.     *)
DeleteCategory(c) ==
    /\ c \in Live(categories)
    /\ \A d \in Live(categories) : categories[d].parent # c
    /\ bound' = { p \in bound : p[1] # c }
    /\ categories' = [categories EXCEPT ![c] = Absent]
    /\ UNCHANGED <<fields, models, vendors, deleting>>

-----------------------------------------------------------------------------
(* Vendors and models.  The count of models on the pool asks what the      *)
(* foreign key of product_models asks again.                               *)

CreateVendor(v) ==
    /\ v \notin vendors /\ Room
    /\ vendors' = vendors \cup {v}
    /\ UNCHANGED <<categories, fields, bound, models, deleting>>

DeleteVendor(v) ==
    /\ v \in vendors
    /\ \A m \in Live(models) : models[m] # v
    /\ vendors' = vendors \ {v}
    /\ bound' = { p \in bound : p[1] # v }
    /\ UNCHANGED <<categories, fields, models, deleting>>

CreateModel(m, v) ==
    /\ models[m] = Absent /\ Room
    /\ v \in vendors \cup {NoVendor}
    /\ models' = [models EXCEPT ![m] = v]
    /\ UNCHANGED <<categories, fields, bound, vendors, deleting>>

(* UpdateModel reads the row before the transaction and writes it whole.   *)
(* A stale write gives the model the vendor of an older request, which is  *)
(* a vendor this step may give it as well.                                 *)
UpdateModel(m, v) ==
    /\ m \in Live(models)
    /\ v \in (vendors \cup {NoVendor}) \ {models[m]}
    /\ models' = [models EXCEPT ![m] = v]
    /\ UNCHANGED <<categories, fields, bound, vendors, deleting>>

DeleteModel(m) ==
    /\ m \in Live(models)
    /\ models' = [models EXCEPT ![m] = Absent]
    /\ bound' = { p \in bound : p[1] # m }
    /\ UNCHANGED <<categories, fields, vendors, deleting>>

-----------------------------------------------------------------------------
(* The computed fields among fs can be put in order, and what each reads   *)
(* is among the keys given or computed.                                    *)
Computable(fs, given) ==
    LET comp == fs \cap Computed
    IN  /\ \A f \in comp : fields[f].reads \subseteq given \cup Keys(comp)
        /\ \A S \in SUBSET comp : S # {} => \E f \in S : fields[f].reads \cap Keys(S) = {}

-----------------------------------------------------------------------------
(* The lists of fields and sets of targets a request may bind.             *)
Batches == { fs \in UNION { [1..n -> Live(fields)] : n \in 1..MaxBatch } :
                \A i, j \in DOMAIN fs : fs[i] = fs[j] => i = j }

TargetSets == { ts \in SUBSET Targets : Cardinality(ts) <= MaxBatch }

Next ==
    \/ \E ts \in TargetSets :
          \/ \E f \in Field \ Live(fields), required \in BOOLEAN, reads \in Template \cup {{}} :
                CreateField(f, required, reads, ts)
          \/ \E fs \in Batches : Bind(fs, ts)
    \/ \E f \in Field, required \in BOOLEAN, reads \in Template \cup {{}} :
          UpdateField(f, required, reads)
    \/ \E f \in Field :
          \/ \E c \in Category : Unbind(c, f)
          \/ \E t \in Model \cup Vendor : UnbindDevice(t, f)
          \/ DeleteFieldCheck(f)
    \/ DeleteFieldCommit \/ DeleteFieldRefuse
    \/ \E c \in Category :
          \/ \E p \in Category \cup {NoParent}, k \in Key \cup {NoKey} :
                CreateCategory(c, p, k) \/ UpdateCategory(c, p, k)
          \/ DeleteCategory(c)
    \/ \E v \in Vendor : CreateVendor(v) \/ DeleteVendor(v)
    \/ \E m \in Model :
          \/ \E v \in Vendor \cup {NoVendor} : CreateModel(m, v) \/ UpdateModel(m, v)
          \/ DeleteModel(m)

Spec == Init /\ [][Next]_vars

-----------------------------------------------------------------------------
(* Properties                                                              *)

(* Every variable has its type.                                            *)
TypeOK ==
    /\ categories \in [Category -> CategoryRow \cup {Absent}]
    /\ fields \in [Field -> FieldRow \cup {Absent}]
    /\ bound \subseteq Target \X Field
    /\ models \in [Model -> Vendor \cup {NoVendor, Absent}]
    /\ vendors \subseteq Vendor
    /\ deleting \in Field \cup {Idle}

(* docs/rules/schema.md: a field hangs on categories or on the device side *)
(* and never on both, and neither do two fields with one key, whichever of *)
(* the three tables a request writes and however many fields and targets   *)
(* it names.                                                               *)
SidesExclude ==
    \A p, q \in bound : p[1] \in Category /\ q[1] \notin Category => KeyOf[p[2]] # KeyOf[q[2]]

(* Each prefix of a path is the path of the category it ends in.           *)
PathsProper ==
    \A c \in Live(categories) : \A i \in DOMAIN Path(c) :
        /\ Path(c)[i] \in Live(categories)
        /\ Path(Path(c)[i]) = SubSeq(Path(c), 1, i)

(* No device, of whatever category and model, those yet to be created      *)
(* included, has two fields for one key.                                   *)
KeysDistinct ==
    \A path \in { Path(c) : c \in Live(categories) } \cup {<<>>} :
        /\ Resolvable(bound, path)
        /\ \A m \in Live(models) \cup {NoModel} :
              LET fs == FieldsForAsset(bound, path, m)
              IN  \A f, g \in fs : KeyOf[f] = KeyOf[g] => f = g

(* What a computed field reads is bound on the same chain, is required     *)
(* unless it is computed too, and there is an order to compute them in.    *)
InputsBound ==
    \A c \in Live(categories) :
        LET fs == Resolve(bound, Path(c))
        IN  /\ Computable(fs, Keys(fs))
            /\ \A f \in fs \cap Computed, g \in fs \ Computed :
                  KeyOf[g] \in fields[f].reads => fields[g].required

(* A category is named by a unique field of its own chain.                 *)
DisplayKeysUsable ==
    \A c \in Live(categories) : categories[c].display # NoKey =>
        \E f \in Resolve(bound, Path(c)) : KeyOf[f] = categories[c].display /\ f \in Unique

(* A key has one meaning as far as templates go: a computed field shares   *)
(* its key with no other field.                                            *)
OneMeaning ==
    \A f, g \in Live(fields) : KeyOf[f] = KeyOf[g] /\ f # g => f \notin Computed /\ g \notin Computed

(* The steps that are known to get round the gates.                        *)
CategoryMoves   == \E c \in Live(categories) : categories'[c] # Absent /\ categories'[c].path # Path(c)
VendorChanges   == \E m \in Live(models) : models'[m] # Absent /\ models'[m] # models[m]
RequiredDropped == \E f \in Live(fields) : fields'[f] # Absent /\ fields[f].required /\ ~ fields'[f].required
StaleDeletion   ==
    \E f \in Live(fields) : fields'[f] = Absent /\ (ReferrersOf(f) # {} \/ CategoriesUsingDisplayKey(f) # {})

(* Only a move of a category or a model's change of vendor can give one    *)
(* device two fields for one key: the gates of the three kinds of binding, *)
(* of groups and of creation together let nothing else do it.              *)
KeysStayDistinct ==
    [][~ KeysDistinct' /\ KeysDistinct /\ PathsProper => CategoryMoves \/ VendorChanges]_vars

(* deps.go: no category reaches a state where a bound field can never be   *)
(* evaluated.  It takes a move, a required flag taken back, or a deletion  *)
(* whose checks are out of date.                                           *)
InputsStayBound ==
    [][~ InputsBound' /\ InputsBound /\ OneMeaning /\ OneMeaning' /\ KeysDistinct /\ PathsProper =>
          CategoryMoves \/ RequiredDropped \/ StaleDeletion]_vars

(* Assets keep a name: neither unbinding nor deleting nor renumbering      *)
(* leaves a category with a display key that its chain does not have.      *)
DisplayKeysStayUsable ==
    [][~ DisplayKeysUsable' /\ DisplayKeysUsable /\ PathsProper =>
          CategoryMoves \/ StaleDeletion]_vars

(* spec.md FR-020: what a category asks for is what its ancestors ask for  *)
(* and what it adds.                                                       *)
FieldsComeFromAncestors ==
    \A c \in Live(categories) : categories[c].parent # NoParent =>
        Resolve(bound, Path(c)) =
            Resolve(bound, Path(categories[c].parent)) \cup { f \in Field : <<c, f>> \in bound }
=============================================================================
