----------------------- MODULE AttributeStore_proofs -----------------------
(***************************************************************************)
(* Theorems about what the assets record, for any number of assets, of     *)
(* requests under way and of changes of the schema.                        *)
(***************************************************************************)
EXTENDS AttributeStore, SchemaTree_proofs, FiniteSetTheorems

-----------------------------------------------------------------------------
(* What the pipeline makes                                                 *)

(* The entries of a write say what the write says, and none is blank.      *)
Faithful(w) ==
    /\ \A u \in w.unique : u.value = w.attrs[u.key] /\ u.value # Nothing
    /\ \A h \in w.search : h[2] = w.attrs[h[1]] /\ h[2] # Nothing

(* Only Configure changes the schema, by a step of the schema.             *)
LEMMA StoreSteps ==
    ASSUME [StoreNext]_storeVars
    PROVE  (Configure /\ Next) \/ schemaVars' = schemaVars
<1>1. ASSUME NEW s \in Session, NEW a \in Asset, NEW c \in Live(categories), NEW m \in Models,
             NEW typed \in Forms(FieldsOf(c, m)), Prepare(s, a, c, m, typed)
      PROVE  schemaVars' = schemaVars
  BY <1>1 DEF Prepare
<1>2. ASSUME NEW s \in Session, Persist(s) \/ Refuse(s)
      PROVE  schemaVars' = schemaVars
  BY <1>2 DEF Persist, Refuse
<1>3. ASSUME NEW c \in Live(categories), NEW new \in SUBSET (Asset \ Assets) \ {{}},
             NEW lines \in [new -> Lines(c)], Import(c, lines)
      PROVE  schemaVars' = schemaVars
  BY <1>3 DEF Import
<1>4. ASSUME NEW as \in SUBSET Asset, Delete(as)
      PROVE  schemaVars' = schemaVars
  BY <1>4 DEF Delete
<1>5. ASSUME NEW c \in Category, RecomputeCategory(c) \/ PlanRecompute(c)
      PROVE  schemaVars' = schemaVars
  BY <1>5 DEF RecomputeCategory, PlanRecompute
<1>6. ASSUME NEW f \in Field, RecomputeField(f) \/ SwitchSearch(f)
      PROVE  schemaVars' = schemaVars
  BY <1>6 DEF RecomputeField, SwitchSearch
<1>7. CASE WriteRecomputed \/ StopRecompute
  BY <1>7 DEF WriteRecomputed, StopRecompute
<1>8. CASE Configure
  BY <1>8 DEF Configure
<1>9. CASE UNCHANGED storeVars
  BY <1>9 DEF storeVars
<1> QED
  BY <1>1, <1>2, <1>3, <1>4, <1>5, <1>6, <1>7, <1>8, <1>9 DEF StoreNext

LEMMA SchemaSteps == [StoreNext]_storeVars => [Next]_vars
BY StoreSteps DEF schemaVars, vars

LEMMA EvaluatedGives ==
    ASSUME NEW fs, NEW given, NEW attrs \in Evaluated(fs, given)
    PROVE  /\ attrs \in Attrs
           /\ \A k \in Key \ Keys(fs \cap Computed) : attrs[k] = given[k]
BY DEF Evaluated

LEMMA KeysTyped ==
    ASSUME NEW fs \in SUBSET Field
    PROVE  Keys(fs) \subseteq Key
BY SchemaAssumption DEF Keys

(* A field of the device is bound on its chain, or to a model or a vendor. *)
LEMMA FieldsBound ==
    ASSUME TypeOK, NEW c \in Live(categories), NEW m \in Models, NEW f \in FieldsOf(c, m)
    PROVE  /\ f \in Field
           /\ f \in Resolve(bound, Path(c)) \/ BoundTo(bound, Model \cup Vendor, f) # {}
<1>1. f \in Field
  BY DEF FieldsOf, FieldsForAsset, Resolve
<1>2. ASSUME m # NoModel, <<m, f>> \in bound \/ <<models[m], f>> \in bound
      PROVE  BoundTo(bound, Model \cup Vendor, f) # {}
  <2>1. m \in Model /\ models[m] \in Vendor \cup {NoVendor}
    BY <1>2, LiveRows DEF Models
  <2>2. CASE <<m, f>> \in bound
    BY <2>1, <2>2 DEF BoundTo
  <2>3. CASE <<models[m], f>> \in bound
    <3>1. models[m] \in Target
      BY <2>3 DEF TypeOK
    <3>2. models[m] \in Vendor
      BY <2>1, <3>1, SchemaAssumption
    <3> QED
      BY <2>3, <3>2 DEF BoundTo
  <2> QED
    BY <1>2, <2>2, <2>3
<1> QED
  BY <1>1, <1>2 DEF FieldsOf, FieldsForAsset

(* One that is bound on the chain has its reach there.                     *)
LEMMA ScopeOnChain ==
    ASSUME TypeOK, NEW c \in Live(categories), NEW f \in Resolve(bound, Path(c)),
           BoundTo(bound, Model \cup Vendor, f) = {}
    PROVE  Scope(f, c) \in AncestorIDs(Path(c)) /\ <<Scope(f, c), f>> \in bound
<1>1. \E d \in AncestorIDs(Path(c)) : <<d, f>> \in bound
  BY DEF Resolve
<1> QED
  BY <1>1 DEF Scope

LEMMA ScopeTyped ==
    ASSUME TypeOK, NEW c \in Live(categories), NEW m \in Models, NEW f \in FieldsOf(c, m)
    PROVE  Scope(f, c) \in Category \cup Field
<1>1. CASE BoundTo(bound, Model \cup Vendor, f) # {}
  BY <1>1, FieldsBound DEF Scope
<1>2. CASE BoundTo(bound, Model \cup Vendor, f) = {}
  <2>1. Scope(f, c) \in AncestorIDs(Path(c))
    BY <1>2, FieldsBound, ScopeOnChain
  <2> QED
    BY <2>1, LiveRows DEF AncestorIDs
<1> QED
  BY <1>1, <1>2

(* What is prepared for a device is well typed and faithful.               *)
LEMMA PreparedTyped ==
    ASSUME TypeOK, searched \subseteq Field, NEW c \in Live(categories), NEW m \in Models,
           NEW fs \in SUBSET FieldsOf(c, m), NEW attrs \in Attrs
    PROVE  /\ UniqueValues(fs, attrs, c) \subseteq Slot
           /\ SearchValues(fs, attrs) \subseteq Hit
           /\ Prepared(fs, attrs, c) \in Write
           /\ Faithful(Prepared(fs, attrs, c))
<1>1. \A f \in fs : f \in Field /\ KeyOf[f] \in Key /\ Scope(f, c) \in Category \cup Field
  BY FieldsBound, ScopeTyped, SchemaAssumption
<1>2. \A f \in fs : attrs[KeyOf[f]] # Nothing => attrs[KeyOf[f]] \in Value
  BY <1>1 DEF Attrs
<1>3. UniqueValues(fs, attrs, c) \subseteq Slot
  BY <1>1, <1>2 DEF UniqueValues, Slot
<1>4. SearchValues(fs, attrs) \subseteq Hit
  BY <1>1, <1>2 DEF SearchValues, Hit
<1>5. Prepared(fs, attrs, c) \in Write
  BY <1>3, <1>4 DEF Prepared, Write
<1>6. \A u \in UniqueValues(fs, attrs, c) : u.value = attrs[u.key] /\ u.value # Nothing
  BY DEF UniqueValues
<1>7. \A h \in SearchValues(fs, attrs) : h[2] = attrs[h[1]] /\ h[2] # Nothing
  BY DEF SearchValues
<1>8. /\ Prepared(fs, attrs, c).attrs = attrs
      /\ Prepared(fs, attrs, c).unique = UniqueValues(fs, attrs, c)
      /\ Prepared(fs, attrs, c).search = SearchValues(fs, attrs)
  BY DEF Prepared
<1>9. Faithful(Prepared(fs, attrs, c))
  BY <1>6, <1>7, <1>8 DEF Faithful
<1> QED
  BY <1>3, <1>4, <1>5, <1>9

(* The category and the model of an asset are there as long as it is.      *)
Placed == \A a \in Assets : rows[a].cat \in Live(categories) /\ rows[a].model \in Models

(* What a recomputation would write, where it gets as far as a plan.       *)
LEMMA ProposedTyped ==
    ASSUME StoreTypeOK, Placed, NEW c, Plannable(c), NEW a \in Under(c)
    PROVE  /\ Proposed(a) \in Write
           /\ Faithful(Proposed(a))
           /\ \A k \in Key \ Keys(Computed) : Proposed(a).attrs[k] = rows[a].attrs[k]
<1> DEFINE attrs == CHOOSE v \in Evaluated(ChainFields(a), rows[a].attrs) : TRUE
<1>1. attrs \in Evaluated(ChainFields(a), rows[a].attrs)
  BY DEF Plannable
<1>2. a \in Assets /\ rows[a].cat \in Live(categories)
  BY DEF Under, Placed
<1>3. NoModel \in Models /\ ChainFields(a) \in SUBSET FieldsOf(rows[a].cat, NoModel)
  BY DEF Models, ChainFields, FieldsOf, FieldsForAsset, PathOf
<1>4. Proposed(a) = Prepared(ChainFields(a), attrs, rows[a].cat)
  BY DEF Proposed
<1> HIDE DEF attrs
<1> DEFINE fs == ChainFields(a)
           given == rows[a].attrs
<1>5. /\ attrs \in Attrs
      /\ \A k \in Key \ Keys(fs \cap Computed) : attrs[k] = given[k]
  <2>1. attrs \in Evaluated(fs, given)
    BY <1>1
  <2> HIDE DEF fs, given
  <2> QED
    BY <2>1, EvaluatedGives
<1>6. Keys(ChainFields(a) \cap Computed) \subseteq Keys(Computed)
  BY DEF Keys
<1>7. Proposed(a) \in Write /\ Faithful(Proposed(a))
  <2>1. TypeOK /\ searched \subseteq Field
    BY DEF StoreTypeOK
  <2>2. /\ Prepared(ChainFields(a), attrs, rows[a].cat) \in Write
        /\ Faithful(Prepared(ChainFields(a), attrs, rows[a].cat))
    BY <1>2, <1>3, <1>5, <2>1, PreparedTyped
  <2> QED
    BY <1>4, <2>2
<1>8. Proposed(a).attrs = attrs
  BY <1>4 DEF Prepared
<1> QED
  BY <1>5, <1>6, <1>7, <1>8

-----------------------------------------------------------------------------
(* Type correctness                                                        *)

LEMMA StoreInit1 == StoreInit => StoreTypeOK /\ Placed
<1> SUFFICES ASSUME StoreInit
             PROVE  StoreTypeOK /\ Placed
  OBVIOUS
<1>1. TypeOK
  BY TypeInit DEF StoreInit
<1>2. StoreTypeOK
  BY <1>1, AttributeAssumption DEF StoreInit, StoreTypeOK
<1>3. Placed
  BY DEF StoreInit, Placed, Assets
<1> QED
  BY <1>2, <1>3

(* The save that Prepare leaves.                                           *)
LEMMA PrepareMakes ==
    ASSUME StoreTypeOK, NEW s \in Session, NEW a \in Asset, NEW c \in Live(categories), NEW m \in Models,
           NEW typed \in Forms(FieldsOf(c, m)), Prepare(s, a, c, m, typed)
    PROVE  \E p \in Save :
               /\ saves' = [saves EXCEPT ![s] = p]
               /\ p.asset = a /\ Faithful(p.write)
               /\ p.version = IF rows[a] = Absent THEN 0 ELSE rows[a].version
               /\ \A k \in Key \ Keys(p.fields) : p.write.attrs[k] = Nothing
<1> DEFINE fs == FieldsOf(c, m)
           version == IF rows[a] = Absent THEN 0 ELSE rows[a].version
<1>1. PICK attrs \in Evaluated(fs, Validated(typed)) :
          saves' = [saves EXCEPT ![s] = [ asset |-> a, cat |-> c, model |-> m, fields |-> fs,
                                          version |-> version, write |-> Prepared(fs, attrs, c) ]]
  BY DEF Prepare
<1>2. /\ attrs \in Attrs
      /\ \A k \in Key \ Keys(fs \cap Computed) : attrs[k] = Validated(typed)[k]
  <2> HIDE DEF fs
  <2> QED
    BY <1>1, EvaluatedGives
<1>3. TypeOK /\ searched \subseteq Field
  BY DEF StoreTypeOK
<1>4. Prepared(fs, attrs, c) \in Write /\ Faithful(Prepared(fs, attrs, c))
  BY <1>2, <1>3, PreparedTyped
<1>5. fs \in SUBSET Field /\ c \in Category /\ m \in Model \cup {NoModel}
  BY <1>3, FieldsBound, LiveRows DEF Models
<1>6. version \in 0..(MaxVersion - 1)
  <2>1. CASE rows[a] = Absent
    BY <2>1, AttributeAssumption
  <2>2. CASE rows[a] # Absent
    <3>1. rows[a] \in Row /\ rows[a].version < MaxVersion
      BY <2>2 DEF StoreTypeOK, Prepare, Fresh
    <3> QED
      BY <2>2, <3>1, AttributeAssumption DEF Row
  <2> QED
    BY <2>1, <2>2
<1>7. ASSUME NEW k \in Key \ Keys(fs)
      PROVE  attrs[k] = Nothing
  <2>1. k \notin Keys(fs \cap Computed) /\ k \notin Keys(fs \ Computed)
    BY <1>7 DEF Keys
  <2>2. DOMAIN typed = Keys(fs \ Computed)
    BY DEF Forms
  <2> HIDE DEF fs
  <2> QED
    BY <1>2, <2>1, <2>2 DEF Validated
<1> DEFINE p == [ asset |-> a, cat |-> c, model |-> m, fields |-> fs, version |-> version,
                  write |-> Prepared(fs, attrs, c) ]
<1>8. p \in Save
  <2> HIDE DEF fs, version
  <2> QED
    BY <1>4, <1>5, <1>6 DEF Save
<1>9. p.write.attrs = attrs
  BY DEF Prepared
<1>10. p.asset = a /\ p.version = version /\ p.fields = fs /\ p.write = Prepared(fs, attrs, c)
  OBVIOUS
<1>11. saves' = [saves EXCEPT ![s] = p]
  BY <1>1
<1> HIDE DEF p
<1>12. Faithful(p.write)
  BY <1>4, <1>10
<1>13. \A k \in Key \ Keys(p.fields) : p.write.attrs[k] = Nothing
  BY <1>7, <1>9, <1>10
<1> QED
  BY <1>8, <1>10, <1>11, <1>12, <1>13

(* The row that Persist writes.                                            *)
LEMMA PersistMakes ==
    ASSUME StoreTypeOK, NEW s \in Session, Persist(s)
    PROVE  /\ saves[s] \in Save
           /\ \E row \in Row :
                 /\ rows' = [rows EXCEPT ![saves[s].asset] = row]
                 /\ row.cat \in Live(categories) /\ row.cat = saves[s].cat
                 /\ row.model \in Models /\ row.model = saves[s].model
                 /\ row.version = saves[s].version + 1
                 /\ \A k \in Key : saves[s].write.attrs[k] # Nothing =>
                        row.attrs[k] = saves[s].write.attrs[k]
                 /\ \A k \in Key \cap Keys(saves[s].fields) : row.attrs[k] = saves[s].write.attrs[k]
                 /\ rows[saves[s].asset] # Absent =>
                        \A k \in Key \ Keys(saves[s].fields) :
                            saves[s].write.attrs[k] = Nothing => row.attrs[k] = rows[saves[s].asset].attrs[k]
<1> DEFINE p == saves[s]
           a == p.asset
           attrs == IF rows[a] = Absent THEN p.write.attrs
                    ELSE CarryOrphans(p.fields, rows[a].attrs, p.write.attrs)
           row == [ cat |-> p.cat, model |-> p.model, attrs |-> attrs, version |-> p.version + 1 ]
<1>1. p \in Save
  BY DEF StoreTypeOK, Persist
<1>2. p.write.attrs \in Attrs /\ a \in Asset
  BY <1>1 DEF Save, Write
<1>3. rows[a] # Absent => rows[a].attrs \in Attrs
  BY <1>2 DEF StoreTypeOK, Row
<1>4. attrs \in Attrs
  BY <1>2, <1>3 DEF CarryOrphans, Attrs
<1>5. p.version + 1 \in 1..MaxVersion
  BY <1>1, AttributeAssumption DEF Save
<1>6. row \in Row
  <2>1. p.cat \in Category /\ p.model \in Model \cup {NoModel}
    BY <1>1 DEF Save
  <2> HIDE DEF attrs, p
  <2> QED
    BY <1>4, <1>5, <2>1 DEF Row
<1>7. rows' = [rows EXCEPT ![a] = row] /\ p.cat \in Live(categories) /\ p.model \in Models
  BY DEF Persist
<1>8. /\ \A k \in Key : p.write.attrs[k] # Nothing => attrs[k] = p.write.attrs[k]
      /\ \A k \in Key \cap Keys(p.fields) : attrs[k] = p.write.attrs[k]
  BY DEF CarryOrphans
<1>9. rows[a] # Absent =>
          \A k \in Key \ Keys(p.fields) : p.write.attrs[k] = Nothing => attrs[k] = rows[a].attrs[k]
  BY DEF CarryOrphans
<1>10. row.cat = p.cat /\ row.model = p.model /\ row.attrs = attrs /\ row.version = p.version + 1
  OBVIOUS
<1> HIDE DEF row, attrs
<1> QED
  BY <1>1, <1>6, <1>7, <1>8, <1>9, <1>10

(* An asset that an import brings in.                                      *)
Imported(c, a, w) ==
    /\ Faithful(w)
    /\ rows'[a] \in Row /\ rows'[a].cat = c /\ rows'[a].model \in Models /\ rows'[a].attrs = w.attrs
    /\ slots'[a] = w.unique /\ found'[a] = w.search

LEMMA ImportMakes ==
    ASSUME StoreTypeOK, NEW c \in Live(categories), NEW new \in SUBSET (Asset \ Assets) \ {{}},
           NEW lines \in [new -> Lines(c)], Import(c, lines)
    PROVE  /\ \A a \in new : Fresh(a) /\ \E w \in Write : Imported(c, a, w)
           /\ \A a \in Asset \ new : rows'[a] = rows[a] /\ slots'[a] = slots[a] /\ found'[a] = found[a]
           /\ DOMAIN rows' = Asset /\ DOMAIN slots' = Asset /\ DOMAIN found' = Asset
<1> DEFINE fs == [ a \in new |-> FieldsOf(c, lines[a].model) ]
           attrs == [ a \in new |-> CHOOSE v \in Evaluated(fs[a], Validated(lines[a].typed)) : TRUE ]
<1>1. DOMAIN lines = new
  OBVIOUS
<1>2. rows' = [ a \in Asset |->
              IF a \in new THEN [ cat |-> c, model |-> lines[a].model, attrs |-> attrs[a], version |-> 1 ]
              ELSE rows[a] ]
  BY <1>1 DEF Import
<1>3. slots' = [ a \in Asset |-> IF a \in new THEN UniqueValues(fs[a], attrs[a], c) ELSE slots[a] ]
  BY <1>1 DEF Import
<1>4. found' = [ a \in Asset |-> IF a \in new THEN SearchValues(fs[a], attrs[a]) ELSE found[a] ]
  BY <1>1 DEF Import
<1>5. \A a \in new : Fresh(a) /\ Evaluated(fs[a], Validated(lines[a].typed)) # {}
  BY <1>1 DEF Import
<1>6. TypeOK /\ searched \subseteq Field
  BY DEF StoreTypeOK
<1>7. ASSUME NEW a \in new
      PROVE  \E w \in Write : Imported(c, a, w)
  <2>1. attrs[a] \in Evaluated(fs[a], Validated(lines[a].typed))
    BY <1>5
  <2>2. attrs[a] \in Attrs
    <3> HIDE DEF fs, attrs
    <3> QED
      BY <2>1, EvaluatedGives
  <2>3. lines[a].model \in Models
    BY DEF Lines
  <2>4. fs[a] \in SUBSET FieldsOf(c, lines[a].model)
    OBVIOUS
  <2>5. lines[a].model \in Model \cup {NoModel} /\ c \in Category
    BY <1>6, <2>3, LiveRows DEF Models
  <2> DEFINE w == Prepared(fs[a], attrs[a], c)
  <2> HIDE DEF fs, attrs
  <2>6. w \in Write /\ Faithful(w)
    BY <1>6, <2>2, <2>3, <2>4, PreparedTyped
  <2>7. w.attrs = attrs[a] /\ w.unique = UniqueValues(fs[a], attrs[a], c) /\ w.search = SearchValues(fs[a], attrs[a])
    BY DEF Prepared
  <2>8. rows'[a] = [ cat |-> c, model |-> lines[a].model, attrs |-> attrs[a], version |-> 1 ]
    BY <1>2
  <2>9. rows'[a] \in Row
    BY <2>2, <2>5, <2>8, AttributeAssumption DEF Row
  <2>10. slots'[a] = w.unique /\ found'[a] = w.search
    BY <1>3, <1>4, <2>7
  <2>11. rows'[a].cat = c /\ rows'[a].model \in Models /\ rows'[a].attrs = w.attrs
    BY <2>3, <2>7, <2>8
  <2> QED
    BY <2>6, <2>9, <2>10, <2>11 DEF Imported
<1>8. \A a \in Asset \ new : rows'[a] = rows[a] /\ slots'[a] = slots[a] /\ found'[a] = found[a]
  BY <1>2, <1>3, <1>4
<1> QED
  BY <1>2, <1>3, <1>4, <1>5, <1>7, <1>8

(* A recomputation that has no plan at the moment.                         *)
Planless == renumbering' = Idle \/ \E todo \in SUBSET Category : renumbering' = Pending(todo)

LEMMA OnwardsPlanless ==
    ASSUME NEW todo \in SUBSET Category, renumbering' = Onwards(todo)
    PROVE  Planless
BY DEF Onwards, Planless

(* The plan that PlanRecompute leaves, if any.                             *)
LEMMA PlanMakes ==
    ASSUME StoreTypeOK, Placed, NEW c \in Category, PlanRecompute(c)
    PROVE  \/ Planless
           \/ \E todo \in SUBSET Category, as \in SUBSET Assets : \E plan \in [as -> Change] :
                 /\ renumbering' = [ todo |-> todo, plan |-> plan, wiped |-> {} ]
                 /\ \A a \in as :
                       /\ plan[a].version = rows[a].version /\ Faithful(plan[a].write)
                       /\ \A k \in Key \ Keys(Computed) : plan[a].write.attrs[k] = rows[a].attrs[k]
<1> DEFINE todo == renumbering.todo \ {c}
           plan == [ a \in Changed(c) |-> [ version |-> rows[a].version, write |-> Proposed(a) ] ]
<1>1. todo \in SUBSET Category
  BY DEF StoreTypeOK, PlanRecompute
<1>2. CASE renumbering' = Onwards(todo)
  BY <1>1, <1>2, OnwardsPlanless
<1>3. CASE renumbering' = [ todo |-> todo, plan |-> plan, wiped |-> {} ]
  <2>1. Changed(c) \in SUBSET Assets
    BY DEF Changed, Under
  <2>2. ASSUME NEW a \in Changed(c)
        PROVE  /\ Proposed(a) \in Write /\ Faithful(Proposed(a))
               /\ \A k \in Key \ Keys(Computed) : Proposed(a).attrs[k] = rows[a].attrs[k]
    BY ProposedTyped DEF Changed, PlanRecompute
  <2>3. ASSUME NEW a \in Changed(c)
        PROVE  /\ plan[a] = [ version |-> rows[a].version, write |-> Proposed(a) ]
               /\ plan[a] \in Change
    <3>1. rows[a].version \in 1..MaxVersion
      BY <2>1 DEF StoreTypeOK, Assets, Row
    <3> QED
      BY <2>2, <3>1 DEF Change
  <2>4. plan \in [Changed(c) -> Change]
    BY <2>3
  <2>5. \A a \in Changed(c) :
            /\ plan[a].version = rows[a].version /\ Faithful(plan[a].write)
            /\ \A k \in Key \ Keys(Computed) : plan[a].write.attrs[k] = rows[a].attrs[k]
    <3> SUFFICES ASSUME NEW a \in Changed(c)
                 PROVE  /\ plan[a].version = rows[a].version /\ Faithful(plan[a].write)
                        /\ \A k \in Key \ Keys(Computed) : plan[a].write.attrs[k] = rows[a].attrs[k]
      OBVIOUS
    <3>1. plan[a].version = rows[a].version /\ plan[a].write = Proposed(a)
      OBVIOUS
    <3> HIDE DEF plan
    <3> QED
      BY <2>2, <3>1
  <2> HIDE DEF plan, todo
  <2> QED
    BY <1>1, <1>3, <2>1, <2>4, <2>5
<1>4. renumbering' = Onwards(todo) \/ renumbering' = [ todo |-> todo, plan |-> plan, wiped |-> {} ]
  BY DEF PlanRecompute
<1> QED
  BY <1>2, <1>3, <1>4

(* What the writing of a plan makes of an asset.                           *)
LEMMA WriteMakes ==
    ASSUME StoreTypeOK, WriteRecomputed
    PROVE  /\ Planless
           /\ DOMAIN rows' = Asset /\ DOMAIN slots' = Asset /\ DOMAIN found' = Asset
           /\ \A a \in Asset \ (DOMAIN renumbering.plan \cap Assets) :
                 rows'[a] = rows[a] /\ slots'[a] = slots[a] /\ found'[a] = found[a]
           /\ \A a \in DOMAIN renumbering.plan \cap Assets :
                 /\ rows'[a] \in Row /\ rows'[a].cat = rows[a].cat /\ rows'[a].model = rows[a].model
                 /\ rows'[a].version = rows[a].version + 1
                 /\ rows'[a].attrs = renumbering.plan[a].write.attrs
                 /\ renumbering.plan[a].write \in Write
                 /\ slots'[a] = renumbering.plan[a].write.unique
                 /\ found'[a] = renumbering.plan[a].write.search
<1> DEFINE plan == renumbering.plan
           as == DOMAIN plan \cap Assets
<1>1. rows' = [ a \in Asset |->
            IF a \in as THEN [rows[a] EXCEPT !.attrs = plan[a].write.attrs, !.version = @ + 1] ELSE rows[a] ]
  BY DEF WriteRecomputed
<1>2. /\ slots' = [ a \in Asset |-> IF a \in as THEN plan[a].write.unique ELSE slots[a] ]
      /\ found' = [ a \in Asset |-> IF a \in as THEN plan[a].write.search ELSE found[a] ]
  BY DEF WriteRecomputed
<1>3. Planless
  BY OnwardsPlanless DEF WriteRecomputed, StoreTypeOK
<1>4. ASSUME NEW a \in as
      PROVE  /\ plan[a].write \in Write
             /\ rows'[a] \in Row /\ rows'[a].cat = rows[a].cat /\ rows'[a].model = rows[a].model
             /\ rows'[a].version = rows[a].version + 1
             /\ rows'[a].attrs = plan[a].write.attrs
  <2>1. plan[a].write \in Write /\ plan[a].write.attrs \in Attrs
    BY DEF StoreTypeOK, WriteRecomputed, Change, Write
  <2>2. rows[a] \in Row /\ rows[a].version < MaxVersion
    BY DEF StoreTypeOK, Assets, WriteRecomputed
  <2>3. rows'[a] = [rows[a] EXCEPT !.attrs = plan[a].write.attrs, !.version = @ + 1]
    BY <1>1 DEF Assets
  <2>4. rows'[a] = [ cat |-> rows[a].cat, model |-> rows[a].model, attrs |-> plan[a].write.attrs,
                     version |-> rows[a].version + 1 ]
    BY <2>2, <2>3 DEF Row
  <2>5. rows[a].cat \in Category /\ rows[a].model \in Model \cup {NoModel}
        /\ rows[a].version + 1 \in 1..MaxVersion
    BY <2>2, AttributeAssumption DEF Row
  <2>6. rows'[a] \in Row
    BY <2>1, <2>4, <2>5 DEF Row
  <2> QED
    BY <2>1, <2>4, <2>6
<1>5. \A a \in Asset \ as : rows'[a] = rows[a] /\ slots'[a] = slots[a] /\ found'[a] = found[a]
  BY <1>1, <1>2
<1>6. \A a \in as : slots'[a] = plan[a].write.unique /\ found'[a] = plan[a].write.search
  BY <1>2 DEF Assets
<1>7. DOMAIN rows' = Asset /\ DOMAIN slots' = Asset /\ DOMAIN found' = Asset
  BY <1>1, <1>2
<1> QED
  BY <1>3, <1>4, <1>5, <1>6, <1>7

(* What a change of the schema makes of the assets.                        *)
LEMMA ConfigureMakes ==
    ASSUME StoreTypeOK, Configure
    PROVE  /\ Keys(FieldsGone) \subseteq Key
           /\ DOMAIN rows' = Asset
           /\ \A a \in Asset : rows[a] = Absent => rows'[a] = Absent
           /\ \A a \in Assets :
                 /\ rows'[a] \in Row /\ rows'[a].cat = rows[a].cat /\ rows'[a].model = rows[a].model
                 /\ rows'[a].version = rows[a].version
                 /\ \A k \in Key :
                       rows'[a].attrs[k] = IF k \in Keys(FieldsGone) THEN Nothing ELSE rows[a].attrs[k]
<1> DEFINE gone == Keys(FieldsGone)
<1>1. gone \subseteq Key
  BY SchemaAssumption DEF Keys, FieldsGone
<1>2. rows' = [ a \in Asset |-> IF rows[a] = Absent THEN Absent ELSE Stripped(rows[a], gone) ]
  BY DEF Configure
<1> HIDE DEF gone
<1>3. ASSUME NEW a \in Assets
      PROVE  /\ rows'[a] \in Row /\ rows'[a].cat = rows[a].cat /\ rows'[a].model = rows[a].model
             /\ rows'[a].version = rows[a].version
             /\ \A k \in Key : rows'[a].attrs[k] = IF k \in gone THEN Nothing ELSE rows[a].attrs[k]
  <2> DEFINE attrs == [ k \in Key |-> IF k \in gone THEN Nothing ELSE rows[a].attrs[k] ]
  <2>1. rows[a] \in Row
    BY DEF StoreTypeOK, Assets
  <2>2. attrs \in Attrs
    BY <2>1 DEF Row, Attrs
  <2>3. Stripped(rows[a], gone) = [rows[a] EXCEPT !.attrs = attrs]
    BY DEF Stripped
  <2>4. rows'[a] = [ cat |-> rows[a].cat, model |-> rows[a].model, attrs |-> attrs,
                     version |-> rows[a].version ]
    BY <1>2, <2>1, <2>3 DEF Assets, Row
  <2>5. /\ rows'[a].cat = rows[a].cat /\ rows'[a].model = rows[a].model
        /\ rows'[a].version = rows[a].version /\ rows'[a].attrs = attrs
    BY <2>4
  <2>6. rows'[a] \in Row
    BY <2>1, <2>2, <2>4 DEF Row
  <2> QED
    BY <2>5, <2>6
<1>4. DOMAIN rows' = Asset /\ \A a \in Asset : rows[a] = Absent => rows'[a] = Absent
  BY <1>2
<1> QED
  BY <1>1, <1>3, <1>4 DEF gone

(* The parts of StoreTypeOK that no step of the schema is about.           *)
RecomputationOK(r) ==
    r # Idle =>
        /\ r = [ todo |-> r.todo, plan |-> r.plan, wiped |-> r.wiped ]
        /\ r.todo \subseteq Category /\ r.wiped \subseteq Key
        /\ DOMAIN r.plan \subseteq Asset
        /\ \A a \in DOMAIN r.plan : r.plan[a] \in Change

LEMMA PlanlessTyped ==
    ASSUME Planless
    PROVE  RecomputationOK(renumbering')
<1>1. ASSUME NEW todo \in SUBSET Category, renumbering' = Pending(todo)
      PROVE  RecomputationOK(renumbering')
  BY <1>1 DEF RecomputationOK, Pending, NoPlan
<1> QED
  BY <1>1 DEF Planless, RecomputationOK

LEMMA StoreTypeStep == StoreTypeOK /\ Placed /\ [StoreNext]_storeVars => StoreTypeOK'
<1> SUFFICES ASSUME StoreTypeOK, Placed, [StoreNext]_storeVars
             PROVE  StoreTypeOK'
  OBVIOUS
<1>1. TypeOK'
  BY SchemaSteps, TypeStep DEF StoreTypeOK
<1>2. RecomputationOK(renumbering)
  BY DEF StoreTypeOK, RecomputationOK
<1>3. SUFFICES /\ searched' \subseteq Field
               /\ rows' \in [Asset -> Row \cup {Absent}]
               /\ slots' \in [Asset -> SUBSET Slot] /\ found' \in [Asset -> SUBSET Hit]
               /\ saves' \in [Session -> Save \cup {Idle}]
               /\ RecomputationOK(renumbering')
               /\ edits' \in 0..MaxEdits
  BY <1>1 DEF StoreTypeOK, RecomputationOK
<1>4. /\ searched \subseteq Field
      /\ rows \in [Asset -> Row \cup {Absent}]
      /\ slots \in [Asset -> SUBSET Slot] /\ found \in [Asset -> SUBSET Hit]
      /\ saves \in [Session -> Save \cup {Idle}]
      /\ edits \in 0..MaxEdits
  BY DEF StoreTypeOK
<1>5. ASSUME NEW s \in Session, NEW a \in Asset, NEW c \in Live(categories), NEW m \in Models,
             NEW typed \in Forms(FieldsOf(c, m)), Prepare(s, a, c, m, typed)
      PROVE  saves' \in [Session -> Save \cup {Idle}]
  BY <1>4, <1>5, PrepareMakes
<1>6. ASSUME NEW s \in Session, NEW a \in Asset, NEW c \in Live(categories), NEW m \in Models,
             NEW typed \in Forms(FieldsOf(c, m)), Prepare(s, a, c, m, typed)
      PROVE  <1>3!1
  <2>1. UNCHANGED <<searched, tables, renumbering, edits>>
    BY <1>6 DEF Prepare
  <2> QED
    BY <1>2, <1>4, <1>5, <1>6, <2>1 DEF tables
<1>7. ASSUME NEW s \in Session, Persist(s)
      PROVE  <1>3!1
  <2>1. saves[s] \in Save
    BY <1>7, PersistMakes
  <2>2. saves[s].write.unique \subseteq Slot /\ saves[s].write.search \subseteq Hit
    BY <2>1 DEF Save, Write
  <2>3. rows' \in [Asset -> Row \cup {Absent}]
    BY <1>4, <1>7, PersistMakes
  <2>4. /\ slots' = [slots EXCEPT ![saves[s].asset] = saves[s].write.unique]
        /\ found' = [found EXCEPT ![saves[s].asset] = saves[s].write.search]
        /\ saves' = [saves EXCEPT ![s] = Idle]
        /\ UNCHANGED <<searched, renumbering, edits>>
    BY <1>7 DEF Persist
  <2> QED
    BY <1>2, <1>4, <2>2, <2>3, <2>4
<1>8. ASSUME NEW s \in Session, Refuse(s)
      PROVE  <1>3!1
  BY <1>2, <1>4, <1>8 DEF Refuse, tables
<1>9. ASSUME NEW c \in Live(categories), NEW new \in SUBSET (Asset \ Assets) \ {{}},
             NEW lines \in [new -> Lines(c)], Import(c, lines)
      PROVE  <1>3!1
  <2>1. UNCHANGED <<searched, saves, renumbering, edits>>
    BY <1>9 DEF Import
  <2>2. \A a \in new : rows'[a] \in Row /\ slots'[a] \subseteq Slot /\ found'[a] \subseteq Hit
    BY <1>9, ImportMakes DEF Imported, Write
  <2>3. /\ \A a \in Asset \ new : rows'[a] = rows[a] /\ slots'[a] = slots[a] /\ found'[a] = found[a]
        /\ DOMAIN rows' = Asset /\ DOMAIN slots' = Asset /\ DOMAIN found' = Asset
    BY <1>9, ImportMakes
  <2>4. rows' \in [Asset -> Row \cup {Absent}]
    <3>1. rows' = [ a \in Asset |-> rows'[a] ]
      BY <1>9 DEF Import
    <3>2. \A a \in Asset : rows'[a] \in Row \cup {Absent}
      BY <1>4, <2>2, <2>3
    <3> QED
      BY <3>1, <3>2
  <2>5. slots' = [ a \in Asset |-> slots'[a] ] /\ found' = [ a \in Asset |-> found'[a] ]
    BY <1>9 DEF Import
  <2>6. \A a \in Asset : slots'[a] \subseteq Slot /\ found'[a] \subseteq Hit
    BY <1>4, <2>2, <2>3
  <2>7. slots' \in [Asset -> SUBSET Slot] /\ found' \in [Asset -> SUBSET Hit]
    BY <2>5, <2>6
  <2> QED
    BY <1>2, <1>4, <2>1, <2>4, <2>7
<1>10. ASSUME NEW as \in SUBSET Asset, Delete(as)
       PROVE  <1>3!1
  BY <1>2, <1>4, <1>10 DEF Delete
<1>11. ASSUME NEW c \in Category, RecomputeCategory(c)
       PROVE  <1>3!1
  <2>1. Planless
    BY <1>11 DEF RecomputeCategory, Planless
  <2> QED
    BY <1>4, <1>11, <2>1, PlanlessTyped DEF RecomputeCategory, tables
<1>12. ASSUME NEW c \in Category, PlanRecompute(c)
       PROVE  <1>3!1
  <2>1. ASSUME NEW todo \in SUBSET Category, NEW as \in SUBSET Assets, NEW plan \in [as -> Change],
               renumbering' = [ todo |-> todo, plan |-> plan, wiped |-> {} ]
        PROVE  RecomputationOK(renumbering')
    BY <2>1 DEF RecomputationOK, Assets
  <2>2. RecomputationOK(renumbering')
    BY <1>12, <2>1, PlanMakes, PlanlessTyped
  <2> QED
    BY <1>4, <1>12, <2>2 DEF PlanRecompute, tables
<1>13. ASSUME NEW f \in Field, RecomputeField(f)
       PROVE  <1>3!1
  <2>1. Roots(f) \in SUBSET Category
    BY DEF Roots, BoundTo
  <2>2. Planless
    BY <1>13, <2>1 DEF RecomputeField, Planless
  <2> QED
    BY <1>4, <1>13, <2>2, PlanlessTyped DEF RecomputeField, tables
<1>14. ASSUME NEW f \in Field, SwitchSearch(f)
       PROVE  <1>3!1
  <2>1. \A a \in Asset : Reindexed(a, f) \subseteq Hit
    <3>1. \A b \in Assets : rows[b].attrs \in Attrs
      BY <1>4 DEF Assets, Row
    <3> QED
      BY <3>1, SchemaAssumption DEF Reindexed, Hit, Attrs
  <2>2. found' \in [Asset -> SUBSET Hit]
    BY <1>4, <1>14, <2>1 DEF SwitchSearch
  <2>3. searched' \subseteq Field /\ edits' \in 0..MaxEdits
    BY <1>4, <1>14, AttributeAssumption DEF SwitchSearch
  <2> QED
    BY <1>2, <1>4, <1>14, <2>2, <2>3 DEF SwitchSearch
<1>15. CASE WriteRecomputed
  <2>1. UNCHANGED <<searched, saves, edits>>
    BY <1>15 DEF WriteRecomputed
  <2>2. RecomputationOK(renumbering')
    BY <1>15, WriteMakes, PlanlessTyped
  <2>3. \A a \in Asset : rows'[a] \in Row \cup {Absent} /\ slots'[a] \subseteq Slot /\ found'[a] \subseteq Hit
    BY <1>4, <1>15, WriteMakes DEF Write
  <2>4. /\ rows' = [ a \in Asset |-> rows'[a] ]
        /\ slots' = [ a \in Asset |-> slots'[a] ] /\ found' = [ a \in Asset |-> found'[a] ]
    BY <1>15 DEF WriteRecomputed
  <2>5. rows' \in [Asset -> Row \cup {Absent}]
    BY <2>3, <2>4
  <2>6. slots' \in [Asset -> SUBSET Slot] /\ found' \in [Asset -> SUBSET Hit]
    BY <2>3, <2>4
  <2> QED
    BY <1>4, <2>1, <2>2, <2>5, <2>6
<1>16. CASE StopRecompute
  BY <1>4, <1>16 DEF StopRecompute, RecomputationOK, tables
<1>17. CASE Configure
  <2>1. searched' \subseteq Field
    BY <1>17 DEF Configure
  <2>2. \A a \in Asset : rows'[a] \in Row \cup {Absent}
    BY <1>17, ConfigureMakes DEF Assets
  <2>3. rows' = [ a \in Asset |-> rows'[a] ]
    BY <1>17 DEF Configure
  <2>4. rows' \in [Asset -> Row \cup {Absent}]
    BY <2>2, <2>3
  <2>5. RecomputationOK(renumbering')
    <3>1. Keys(FieldsGone) \subseteq Key
      BY <1>17, ConfigureMakes
    <3>2. renumbering' = IF renumbering = Idle THEN Idle
                         ELSE [ renumbering EXCEPT !.wiped = @ \cup Keys(FieldsGone) ]
      BY <1>17 DEF Configure
    <3>3. CASE renumbering # Idle
      <4>1. renumbering' = [ todo |-> renumbering.todo, plan |-> renumbering.plan,
                             wiped |-> renumbering.wiped \cup Keys(FieldsGone) ]
        BY <1>2, <3>2, <3>3 DEF RecomputationOK
      <4> QED
        BY <1>2, <3>1, <3>3, <4>1 DEF RecomputationOK
    <3>4. CASE renumbering = Idle
      BY <3>2, <3>4 DEF RecomputationOK
    <3> QED
      BY <3>3, <3>4
  <2>6. edits' \in 0..MaxEdits /\ UNCHANGED <<slots, found, saves>>
    BY <1>4, <1>17, AttributeAssumption DEF Configure
  <2> QED
    BY <1>4, <2>1, <2>4, <2>5, <2>6
<1>18. CASE UNCHANGED storeVars
  BY <1>2, <1>4, <1>18 DEF storeVars, tables
<1> QED
  BY <1>6, <1>7, <1>8, <1>9, <1>10, <1>11, <1>12, <1>13, <1>14, <1>15, <1>16, <1>17, <1>18 DEF StoreNext

LEMMA PlacedStep == StoreTypeOK /\ Placed /\ [StoreNext]_storeVars => Placed'
<1> SUFFICES ASSUME StoreTypeOK, Placed, [StoreNext]_storeVars, NEW a \in Assets'
             PROVE  rows'[a].cat \in Live(categories') /\ rows'[a].model \in Models'
  BY DEF Placed
<1>1. a \in Asset /\ rows'[a] # Absent
  BY DEF Assets
<1>2. TypeOK /\ TypeOK'
  BY SchemaSteps, TypeStep DEF StoreTypeOK
<1>3. CASE Configure
  <2>1. a \in Assets /\ rows'[a].cat = rows[a].cat /\ rows'[a].model = rows[a].model
    BY <1>1, <1>3, ConfigureMakes DEF Assets
  <2>2. rows[a].cat \in Live(categories) /\ rows[a].model \in Models
    BY <2>1 DEF Placed
  <2>3. a \in Under(rows[a].cat)
    <3>1. PathOf(a) = Path(rows[a].cat) /\ PathOf(a) \in Seq(Category)
      BY <1>2, <2>2, LiveRows DEF PathOf
    <3>2. IsDescendantOf(PathOf(a), PathOf(a))
      BY <3>1 DEF IsDescendantOf
    <3> QED
      BY <2>1, <3>1, <3>2 DEF Under
  <2>4. categories'[rows[a].cat] # Absent
    BY <1>3, <2>2, <2>3 DEF Configure, HeldBack
  <2>5. rows[a].model # NoModel => models'[rows[a].model] # Absent
    BY <1>3, <2>1 DEF Configure, HeldBack
  <2> QED
    BY <1>2, <2>1, <2>2, <2>4, <2>5 DEF Live, Models, TypeOK
<1>4. CASE rows'[a] = rows[a] /\ schemaVars' = schemaVars
  <2>1. a \in Assets
    BY <1>1, <1>4 DEF Assets
  <2> QED
    BY <1>4, <2>1 DEF Placed, schemaVars, Models
<1>5. ASSUME schemaVars' = schemaVars, rows'[a].cat \in Live(categories), rows'[a].model \in Models
      PROVE  rows'[a].cat \in Live(categories') /\ rows'[a].model \in Models'
  BY <1>5 DEF schemaVars, Models
<1>6. ASSUME NEW s \in Session, Persist(s)
      PROVE  rows'[a].cat \in Live(categories') /\ rows'[a].model \in Models'
  <2>1. PICK row \in Row : /\ rows' = [rows EXCEPT ![saves[s].asset] = row]
                           /\ row.cat \in Live(categories) /\ row.model \in Models
    BY <1>6, PersistMakes
  <2>2. rows'[a] = row \/ rows'[a] = rows[a]
    BY <1>1, <2>1 DEF StoreTypeOK
  <2>3. schemaVars' = schemaVars
    BY <1>6 DEF Persist
  <2> QED
    BY <1>4, <1>5, <2>1, <2>2, <2>3
<1>7. ASSUME NEW c \in Live(categories), NEW new \in SUBSET (Asset \ Assets) \ {{}},
             NEW lines \in [new -> Lines(c)], Import(c, lines)
      PROVE  rows'[a].cat \in Live(categories') /\ rows'[a].model \in Models'
  <2>1. schemaVars' = schemaVars
    BY <1>7 DEF Import
  <2>2. a \in new => rows'[a].cat = c /\ rows'[a].model \in Models
    BY <1>7, ImportMakes DEF Imported
  <2>3. a \notin new => rows'[a] = rows[a]
    BY <1>1, <1>7, ImportMakes
  <2> QED
    BY <1>4, <1>5, <2>1, <2>2, <2>3
<1>8. ASSUME NEW as \in SUBSET Asset, Delete(as)
      PROVE  rows'[a].cat \in Live(categories') /\ rows'[a].model \in Models'
  BY <1>1, <1>4, <1>8 DEF Delete
<1>9. CASE WriteRecomputed
  <2>1. schemaVars' = schemaVars
    BY <1>9 DEF WriteRecomputed
  <2>2. CASE a \in DOMAIN renumbering.plan \cap Assets
    <3>1. rows'[a].cat = rows[a].cat /\ rows'[a].model = rows[a].model
      BY <1>9, <2>2, WriteMakes
    <3> QED
      BY <1>5, <2>1, <2>2, <3>1 DEF Placed
  <2>3. CASE a \notin DOMAIN renumbering.plan \cap Assets
    BY <1>1, <1>4, <1>9, <2>1, <2>3, WriteMakes
  <2> QED
    BY <2>2, <2>3
<1>10. CASE UNCHANGED <<schemaVars, rows>>
  BY <1>4, <1>10
<1>11. CASE UNCHANGED storeVars
  BY <1>10, <1>11 DEF storeVars, tables
<1>12. ASSUME NEW s \in Session, NEW b \in Asset, NEW c \in Live(categories), NEW m \in Models,
              NEW typed \in Forms(FieldsOf(c, m)), Prepare(s, b, c, m, typed)
       PROVE  UNCHANGED <<schemaVars, rows>>
  BY <1>12 DEF Prepare, tables
<1>13. ASSUME NEW s \in Session, Refuse(s)
       PROVE  UNCHANGED <<schemaVars, rows>>
  BY <1>13 DEF Refuse, tables
<1>14. ASSUME NEW c \in Category, RecomputeCategory(c) \/ PlanRecompute(c)
       PROVE  UNCHANGED <<schemaVars, rows>>
  BY <1>14 DEF RecomputeCategory, PlanRecompute, tables
<1>15. ASSUME NEW f \in Field, RecomputeField(f) \/ SwitchSearch(f)
       PROVE  UNCHANGED <<schemaVars, rows>>
  BY <1>15 DEF RecomputeField, SwitchSearch, tables
<1>16. CASE StopRecompute
  BY <1>10, <1>16 DEF StopRecompute, tables
<1> QED
  BY <1>3, <1>6, <1>7, <1>8, <1>9, <1>10, <1>11, <1>12, <1>13, <1>14, <1>15, <1>16 DEF StoreNext

(* The asset of every value, of every entry and of every prepared write is *)
(* an asset, its keys are keys and its values are in their normal form.    *)
THEOREM StoreStaysTyped == StoreSpec => []StoreTypeOK
<1>1. StoreTypeOK /\ Placed /\ [StoreNext]_storeVars => (StoreTypeOK /\ Placed)'
  BY StoreTypeStep, PlacedStep
<1> QED
  BY <1>1, StoreInit1, PTL DEF StoreSpec

-----------------------------------------------------------------------------
(* What is prepared and planned                                            *)

WritesFaithful ==
    /\ \A s \in Session : saves[s] # Idle =>
          /\ Faithful(saves[s].write)
          /\ \A k \in Key \ Keys(saves[s].fields) : saves[s].write.attrs[k] = Nothing
    /\ renumbering # Idle => \A a \in DOMAIN renumbering.plan : Faithful(renumbering.plan[a].write)

LEMMA FaithfulStep == StoreTypeOK /\ Placed /\ WritesFaithful /\ [StoreNext]_storeVars => WritesFaithful'
<1> SUFFICES ASSUME StoreTypeOK, Placed, WritesFaithful, [StoreNext]_storeVars
             PROVE  WritesFaithful'
  OBVIOUS
<1> DEFINE OfSaves == \A s \in Session : saves[s] # Idle =>
               /\ Faithful(saves[s].write)
               /\ \A k \in Key \ Keys(saves[s].fields) : saves[s].write.attrs[k] = Nothing
           OfPlan == renumbering # Idle =>
               \A a \in DOMAIN renumbering.plan : Faithful(renumbering.plan[a].write)
<1> SUFFICES OfSaves' /\ OfPlan'
  BY DEF WritesFaithful
<1>1. OfSaves /\ OfPlan
  BY DEF WritesFaithful
<1>2. saves' = saves => OfSaves'
  BY <1>1
<1>3. renumbering' = renumbering => OfPlan'
  BY <1>1
<1>4. Planless => OfPlan'
  BY DEF Planless, Pending, NoPlan
<1>5. ASSUME NEW s \in Session, saves' = [saves EXCEPT ![s] = Idle]
      PROVE  OfSaves'
  BY <1>1, <1>5 DEF StoreTypeOK
<1>6. ASSUME NEW s \in Session, NEW a \in Asset, NEW c \in Live(categories), NEW m \in Models,
             NEW typed \in Forms(FieldsOf(c, m)), Prepare(s, a, c, m, typed)
      PROVE  OfSaves' /\ OfPlan'
  <2>1. PICK p \in Save : /\ saves' = [saves EXCEPT ![s] = p] /\ Faithful(p.write)
                          /\ \A k \in Key \ Keys(p.fields) : p.write.attrs[k] = Nothing
    BY <1>6, PrepareMakes
  <2>2. OfSaves'
    <3> SUFFICES ASSUME NEW t \in Session, saves'[t] # Idle
                 PROVE  /\ Faithful(saves'[t].write)
                        /\ \A k \in Key \ Keys(saves'[t].fields) : saves'[t].write.attrs[k] = Nothing
      OBVIOUS
    <3>1. saves'[t] = IF t = s THEN p ELSE saves[t]
      BY <2>1 DEF StoreTypeOK
    <3> QED
      BY <1>1, <2>1, <3>1
  <2> QED
    BY <1>3, <1>6, <2>2 DEF Prepare
<1>7. ASSUME NEW c \in Category, PlanRecompute(c)
      PROVE  OfSaves' /\ OfPlan'
  <2>1. ASSUME NEW todo \in SUBSET Category, NEW as \in SUBSET Assets, NEW plan \in [as -> Change],
               renumbering' = [ todo |-> todo, plan |-> plan, wiped |-> {} ],
               \A a \in as : Faithful(plan[a].write)
        PROVE  OfPlan'
    <3>1. renumbering'.plan = plan /\ DOMAIN plan = as
      BY <2>1
    <3> QED
      BY <2>1, <3>1
  <2>2. OfPlan'
    BY <1>4, <1>7, <2>1, PlanMakes
  <2> QED
    BY <1>2, <1>7, <2>2 DEF PlanRecompute
<1>8. CASE Configure
  <2>1. renumbering' # Idle => renumbering # Idle /\ renumbering'.plan = renumbering.plan
    BY <1>8 DEF Configure, StoreTypeOK
  <2>2. OfPlan'
    BY <1>1, <2>1
  <2> QED
    BY <1>2, <1>8, <2>2 DEF Configure
<1>9. ASSUME NEW s \in Session, Persist(s) \/ Refuse(s)
      PROVE  OfSaves' /\ OfPlan'
  BY <1>3, <1>5, <1>9 DEF Persist, Refuse
<1>10. ASSUME NEW c \in Live(categories), NEW new \in SUBSET (Asset \ Assets) \ {{}},
              NEW lines \in [new -> Lines(c)], Import(c, lines)
       PROVE  OfSaves' /\ OfPlan'
  BY <1>2, <1>3, <1>10 DEF Import
<1>11. ASSUME NEW as \in SUBSET Asset, Delete(as)
       PROVE  OfSaves' /\ OfPlan'
  BY <1>2, <1>3, <1>11 DEF Delete
<1>12. ASSUME NEW c \in Category, RecomputeCategory(c)
       PROVE  OfSaves' /\ OfPlan'
  <2>1. Planless /\ saves' = saves
    BY <1>12 DEF RecomputeCategory, Planless
  <2> QED
    BY <1>2, <1>4, <2>1
<1>13. ASSUME NEW f \in Field, RecomputeField(f)
       PROVE  OfSaves' /\ OfPlan'
  <2>1. Planless /\ saves' = saves
    BY <1>13 DEF RecomputeField, Planless, Roots, BoundTo
  <2> QED
    BY <1>2, <1>4, <2>1
<1>14. ASSUME NEW f \in Field, SwitchSearch(f)
       PROVE  OfSaves' /\ OfPlan'
  BY <1>2, <1>3, <1>14 DEF SwitchSearch
<1>15. CASE WriteRecomputed
  BY <1>2, <1>4, <1>15, WriteMakes DEF WriteRecomputed
<1>16. CASE StopRecompute
  <2>1. Planless /\ saves' = saves
    BY <1>16 DEF StopRecompute, Planless
  <2> QED
    BY <1>2, <1>4, <2>1
<1>17. CASE UNCHANGED storeVars
  BY <1>2, <1>3, <1>17 DEF storeVars
<1> QED
  BY <1>6, <1>7, <1>8, <1>9, <1>10, <1>11, <1>12, <1>13, <1>14, <1>15, <1>16, <1>17 DEF StoreNext

WritesInv == StoreTypeOK /\ Placed /\ WritesFaithful

LEMMA WritesInit == StoreInit => WritesInv
<1> SUFFICES ASSUME StoreInit
             PROVE  WritesFaithful
  BY StoreInit1 DEF WritesInv
<1> QED
  BY DEF StoreInit, WritesFaithful

LEMMA WritesStep == WritesInv /\ [StoreNext]_storeVars => WritesInv'
BY StoreTypeStep, PlacedStep, FaithfulStep DEF WritesInv

(* Whoever writes the entries of a faithful write with its values leaves   *)
(* indexes that say what the asset says.                                   *)
LEMMA BackedByWrite ==
    ASSUME NEW a, NEW w \in Write, Faithful(w), slots'[a] = w.unique, found'[a] = w.search,
           \A k \in Key : w.attrs[k] # Nothing => rows'[a].attrs[k] = w.attrs[k]
    PROVE  Backed(a)'
<1>1. \A u \in w.unique : u.key \in Key
  BY DEF Write, Slot
<1>2. \A h \in w.search : h[1] \in Key
  BY DEF Write, Hit
<1> QED
  BY <1>1, <1>2 DEF Faithful, Backed

LEMMA BackedUnchanged ==
    ASSUME NEW a, Backed(a), rows'[a] = rows[a], slots'[a] = slots[a], found'[a] = found[a]
    PROVE  Backed(a)'
BY DEF Backed

LEMMA BackedStep ==
    ASSUME WritesInv, [StoreNext]_storeVars, NEW a \in Assets, a \in Assets', Backed(a), FieldsGone = {}
    PROVE  Backed(a)'
<1> USE DEF WritesInv
<1>1. a \in Asset /\ rows[a] # Absent /\ rows'[a] # Absent /\ rows[a] \in Row
  BY DEF Assets, StoreTypeOK
<1>2. ASSUME NEW s \in Session, Persist(s)
      PROVE  Backed(a)'
  <2>1. PICK row \in Row :
            /\ rows' = [rows EXCEPT ![saves[s].asset] = row]
            /\ \A k \in Key : saves[s].write.attrs[k] # Nothing => row.attrs[k] = saves[s].write.attrs[k]
    BY <1>2, PersistMakes
  <2>2. saves[s] \in Save /\ saves[s].write \in Write
    BY <1>2, PersistMakes DEF Save
  <2>3. Faithful(saves[s].write)
    BY <1>2 DEF Persist, WritesFaithful
  <2>4. /\ slots' = [slots EXCEPT ![saves[s].asset] = saves[s].write.unique]
        /\ found' = [found EXCEPT ![saves[s].asset] = saves[s].write.search]
    BY <1>2 DEF Persist
  <2>5. CASE a = saves[s].asset
    <3>1. rows'[a] = row /\ slots'[a] = saves[s].write.unique /\ found'[a] = saves[s].write.search
      BY <1>1, <2>1, <2>4, <2>5 DEF StoreTypeOK
    <3> QED
      BY <2>1, <2>2, <2>3, <3>1, BackedByWrite
  <2>6. CASE a # saves[s].asset
    <3>1. rows'[a] = rows[a] /\ slots'[a] = slots[a] /\ found'[a] = found[a]
      BY <1>1, <2>1, <2>4, <2>6 DEF StoreTypeOK
    <3> QED
      BY <3>1, BackedUnchanged
  <2> QED
    BY <2>5, <2>6
<1>3. ASSUME NEW c \in Live(categories), NEW new \in SUBSET (Asset \ Assets) \ {{}},
             NEW lines \in [new -> Lines(c)], Import(c, lines)
      PROVE  Backed(a)'
  <2>1. rows'[a] = rows[a] /\ slots'[a] = slots[a] /\ found'[a] = found[a]
    BY <1>1, <1>3, ImportMakes
  <2> QED
    BY <2>1, BackedUnchanged
<1>4. ASSUME NEW as \in SUBSET Asset, Delete(as)
      PROVE  Backed(a)'
  <2>1. rows'[a] = rows[a] /\ slots'[a] = slots[a] /\ found'[a] = found[a]
    BY <1>1, <1>4 DEF Delete
  <2> QED
    BY <2>1, BackedUnchanged
<1>5. ASSUME NEW f \in Field, SwitchSearch(f)
      PROVE  Backed(a)'
  <2>1. rows' = rows /\ slots' = slots
    BY <1>5 DEF SwitchSearch
  <2>2. \A h \in found'[a] : h \in found[a] \/ h \in Reindexed(a, f)
    BY <1>1, <1>5 DEF SwitchSearch
  <2>3. \A h \in Reindexed(a, f) : h[2] = rows[a].attrs[h[1]]
    BY DEF Reindexed
  <2> QED
    BY <2>1, <2>2, <2>3 DEF Backed
<1>6. CASE WriteRecomputed
  <2>1. CASE a \in DOMAIN renumbering.plan \cap Assets
    <3>1. /\ renumbering.plan[a].write \in Write
          /\ rows'[a].attrs = renumbering.plan[a].write.attrs
          /\ slots'[a] = renumbering.plan[a].write.unique
          /\ found'[a] = renumbering.plan[a].write.search
      BY <1>6, <2>1, WriteMakes
    <3>2. Faithful(renumbering.plan[a].write)
      BY <1>6, <2>1 DEF WriteRecomputed, WritesFaithful
    <3> QED
      BY <3>1, <3>2, BackedByWrite
  <2>2. CASE a \notin DOMAIN renumbering.plan \cap Assets
    <3>1. rows'[a] = rows[a] /\ slots'[a] = slots[a] /\ found'[a] = found[a]
      BY <1>1, <1>6, <2>2, WriteMakes
    <3> QED
      BY <3>1, BackedUnchanged
  <2> QED
    BY <2>1, <2>2
<1>7. CASE Configure
  <2>1. Keys(FieldsGone) = {}
    BY DEF Keys
  <2>2. \A k \in Key : rows'[a].attrs[k] = rows[a].attrs[k]
    BY <1>7, <2>1, ConfigureMakes
  <2>3. slots' = slots /\ found' = found
    BY <1>7 DEF Configure
  <2>4. (\A u \in slots[a] : u.key \in Key) /\ (\A h \in found[a] : h[1] \in Key)
    BY <1>1 DEF StoreTypeOK, Slot, Hit
  <2> QED
    BY <2>2, <2>3, <2>4 DEF Backed
<1>8. CASE UNCHANGED tables
  BY <1>8, BackedUnchanged DEF tables
<1>9. CASE UNCHANGED storeVars
  BY <1>8, <1>9 DEF storeVars
<1>10. ASSUME NEW s \in Session, NEW b \in Asset, NEW c \in Live(categories), NEW m \in Models,
              NEW typed \in Forms(FieldsOf(c, m)), Prepare(s, b, c, m, typed)
       PROVE  UNCHANGED tables
  BY <1>10 DEF Prepare
<1>11. ASSUME NEW s \in Session, Refuse(s)
       PROVE  UNCHANGED tables
  BY <1>11 DEF Refuse
<1>12. ASSUME NEW c \in Category, RecomputeCategory(c) \/ PlanRecompute(c)
       PROVE  UNCHANGED tables
  BY <1>12 DEF RecomputeCategory, PlanRecompute
<1>13. ASSUME NEW f \in Field, RecomputeField(f)
       PROVE  UNCHANGED tables
  BY <1>13 DEF RecomputeField
<1>14. CASE StopRecompute
  BY <1>8, <1>14 DEF StopRecompute
<1> QED
  BY <1>2, <1>3, <1>4, <1>5, <1>6, <1>7, <1>8, <1>9, <1>10, <1>11, <1>12, <1>13, <1>14 DEF StoreNext

(* No write of an asset, by whichever request, leaves a scanner or a       *)
(* search an entry that the asset does not carry: only the deletion of a   *)
(* field, which leaves both tables alone, may.                             *)
THEOREM IndexesStayBackedAlways == StoreSpec => IndexesStayBacked
<1>1. ASSUME WritesInv, [StoreNext]_storeVars
      PROVE  [\A a \in Assets : Backed(a) /\ a \in Assets' /\ ~ Backed(a)' => FieldsGone # {}]_storeVars
  BY <1>1, BackedStep
<1> QED
  BY <1>1, WritesInit, WritesStep, PTL DEF StoreSpec, IndexesStayBacked

-----------------------------------------------------------------------------
(* What a plan knows of the rows it is about                               *)

(* Who creates an asset is the only one to know of it.                     *)
FreshFor(s) ==
    /\ rows[saves[s].asset] = Absent
    /\ renumbering # Idle => saves[s].asset \notin DOMAIN renumbering.plan
    /\ \A t \in Session \ {s} : saves[t] # Idle => saves[t].asset # saves[s].asset

CreationsFresh == \A s \in Session : saves[s] # Idle /\ saves[s].version = 0 => FreshFor(s)

LEMMA CreationsStep == WritesInv /\ CreationsFresh /\ [StoreNext]_storeVars => CreationsFresh'
<1> SUFFICES ASSUME WritesInv, CreationsFresh, [StoreNext]_storeVars,
                    NEW t \in Session, saves'[t] # Idle, saves'[t].version = 0
             PROVE  FreshFor(t)'
  BY DEF CreationsFresh
<1> USE DEF WritesInv
<1>1. \A s \in Session : saves[s] # Idle => saves[s] \in Save
  BY DEF StoreTypeOK
<1>2. \A a \in Asset : rows[a] # Absent => rows[a] \in Row /\ rows[a].version \in 1..MaxVersion
  BY DEF StoreTypeOK, Row
<1>3. ASSUME saves[t] # Idle, saves'[t] = saves[t],
             rows'[saves[t].asset] = Absent,
             renumbering' # Idle => saves[t].asset \notin DOMAIN renumbering'.plan,
             \A u \in Session \ {t} : saves'[u] = Idle \/ saves'[u] = saves[u]
      PROVE  FreshFor(t)'
  BY <1>3 DEF CreationsFresh, FreshFor
<1>4. ASSUME saves' = saves, rows'[saves[t].asset] = Absent,
             renumbering' # Idle => saves[t].asset \notin DOMAIN renumbering'.plan
      PROVE  FreshFor(t)'
  BY <1>3, <1>4
<1>5. saves[t] # Idle /\ saves[t].version = 0 => saves[t].asset \in Asset /\ FreshFor(t)
  BY <1>1 DEF Save, CreationsFresh
<1>6. Planless => (renumbering' # Idle => DOMAIN renumbering'.plan = {})
  BY DEF Planless, Pending, NoPlan
<1>7. ASSUME NEW s \in Session, NEW a \in Asset, NEW c \in Live(categories), NEW m \in Models,
             NEW typed \in Forms(FieldsOf(c, m)), Prepare(s, a, c, m, typed)
      PROVE  FreshFor(t)'
  <2>1. PICK p \in Save : /\ saves' = [saves EXCEPT ![s] = p] /\ p.asset = a
                          /\ p.version = IF rows[a] = Absent THEN 0 ELSE rows[a].version
    BY <1>7, PrepareMakes
  <2>2. /\ rows' = rows /\ renumbering' = renumbering
        /\ rows[a] = Absent => Fresh(a)
    BY <1>7 DEF Prepare, tables
  <2>3. \A u \in Session : saves'[u] = IF u = s THEN p ELSE saves[u]
    BY <2>1 DEF StoreTypeOK
  <2>4. CASE t = s
    <3>1. rows[a] = Absent /\ Fresh(a)
      BY <1>2, <2>1, <2>2, <2>3, <2>4
    <3> QED
      BY <2>1, <2>2, <2>3, <2>4, <3>1 DEF Fresh, FreshFor
  <2>5. CASE t # s
    <3>1. saves'[t] = saves[t] /\ FreshFor(t) /\ saves[t].asset \in Asset
      BY <1>5, <2>3, <2>5
    <3>2. a # saves[t].asset
      BY <2>2, <2>5, <3>1 DEF Fresh, FreshFor
    <3> QED
      BY <2>1, <2>2, <2>3, <3>1, <3>2 DEF FreshFor
  <2> QED
    BY <2>4, <2>5
<1>8. ASSUME NEW s \in Session, Persist(s)
      PROVE  FreshFor(t)'
  <2>1. PICK row \in Row : rows' = [rows EXCEPT ![saves[s].asset] = row]
    BY <1>8, PersistMakes
  <2>2. saves' = [saves EXCEPT ![s] = Idle] /\ renumbering' = renumbering /\ saves[s] # Idle
    BY <1>8 DEF Persist
  <2>3. \A u \in Session : saves'[u] = IF u = s THEN Idle ELSE saves[u]
    BY <2>2 DEF StoreTypeOK
  <2>4. t # s /\ saves[t] # Idle /\ FreshFor(t) /\ saves[t].asset \in Asset
    BY <1>5, <2>3
  <2>5. rows'[saves[t].asset] = Absent
    BY <2>1, <2>2, <2>4 DEF FreshFor
  <2> QED
    BY <1>3, <2>2, <2>3, <2>4, <2>5 DEF FreshFor
<1>9. ASSUME NEW s \in Session, Refuse(s)
      PROVE  FreshFor(t)'
  <2>1. \A u \in Session : saves'[u] = IF u = s THEN Idle ELSE saves[u]
    BY <1>9 DEF Refuse, StoreTypeOK
  <2>2. rows' = rows /\ renumbering' = renumbering
    BY <1>9 DEF Refuse, tables
  <2> QED
    BY <1>3, <1>5, <2>1, <2>2 DEF FreshFor
<1>10. ASSUME NEW c \in Live(categories), NEW new \in SUBSET (Asset \ Assets) \ {{}},
              NEW lines \in [new -> Lines(c)], Import(c, lines)
       PROVE  FreshFor(t)'
  <2>1. saves' = saves /\ renumbering' = renumbering
    BY <1>10 DEF Import
  <2>2. saves[t].asset \notin new
    BY <1>10, <2>1, ImportMakes DEF Fresh
  <2>3. rows'[saves[t].asset] = rows[saves[t].asset]
    BY <1>5, <1>10, <2>1, <2>2, ImportMakes
  <2> QED
    BY <1>4, <1>5, <2>1, <2>3 DEF FreshFor
<1>11. ASSUME NEW as \in SUBSET Asset, Delete(as)
       PROVE  FreshFor(t)'
  BY <1>4, <1>5, <1>11 DEF Delete, FreshFor
<1>12. ASSUME NEW c \in Category, PlanRecompute(c)
       PROVE  FreshFor(t)'
  <2>1. saves' = saves /\ rows' = rows
    BY <1>12 DEF PlanRecompute, tables
  <2>2. ASSUME NEW todo \in SUBSET Category, NEW as \in SUBSET Assets, NEW plan \in [as -> Change],
               renumbering' = [ todo |-> todo, plan |-> plan, wiped |-> {} ]
        PROVE  saves[t].asset \notin DOMAIN renumbering'.plan
    <3>1. DOMAIN renumbering'.plan = as
      BY <2>2
    <3> QED
      BY <1>5, <2>1, <3>1 DEF FreshFor, Assets
  <2>3. renumbering' # Idle => saves[t].asset \notin DOMAIN renumbering'.plan
    BY <1>6, <1>12, <2>2, PlanMakes
  <2> QED
    BY <1>4, <1>5, <2>1, <2>3 DEF FreshFor
<1>13. CASE WriteRecomputed
  <2>1. saves' = saves /\ Planless
    BY <1>13, WriteMakes DEF WriteRecomputed
  <2>2. rows'[saves[t].asset] = Absent
    BY <1>5, <1>13, <2>1, WriteMakes DEF FreshFor, Assets
  <2> QED
    BY <1>4, <1>6, <2>1, <2>2
<1>14. CASE Configure
  <2>1. saves' = saves
    BY <1>14 DEF Configure
  <2>2. renumbering' # Idle => renumbering # Idle /\ renumbering'.plan = renumbering.plan
    BY <1>14 DEF Configure, StoreTypeOK
  <2>3. rows'[saves[t].asset] = Absent
    BY <1>5, <1>14, <2>1, ConfigureMakes DEF FreshFor
  <2> QED
    BY <1>4, <1>5, <2>1, <2>2, <2>3 DEF FreshFor
<1>15. ASSUME saves' = saves, rows' = rows, Planless
       PROVE  FreshFor(t)'
  BY <1>4, <1>5, <1>6, <1>15 DEF FreshFor
<1>16. ASSUME NEW c \in Category, RecomputeCategory(c)
       PROVE  FreshFor(t)'
  BY <1>15, <1>16 DEF RecomputeCategory, Planless, tables
<1>17. ASSUME NEW f \in Field, RecomputeField(f)
       PROVE  FreshFor(t)'
  BY <1>15, <1>17 DEF RecomputeField, Planless, Roots, BoundTo, tables
<1>18. ASSUME NEW f \in Field, SwitchSearch(f)
       PROVE  FreshFor(t)'
  BY <1>4, <1>5, <1>18 DEF SwitchSearch, FreshFor
<1>19. CASE StopRecompute
  BY <1>15, <1>19 DEF StopRecompute, Planless, tables
<1>20. CASE UNCHANGED storeVars
  BY <1>4, <1>5, <1>20 DEF storeVars, tables, FreshFor
<1> QED
  BY <1>7, <1>8, <1>9, <1>10, <1>11, <1>12, <1>13, <1>14, <1>16, <1>17, <1>18, <1>19, <1>20 DEF StoreNext

(* A plan is of the row as it is, or of an older version of it.  Of the    *)
(* row as it is it keeps what is not computed, as far as it is still there.*)
Knows(a) ==
    LET change == renumbering.plan[a]
    IN  /\ change.version <= rows[a].version
        /\ change.version = rows[a].version =>
              \A k \in Key \ (Keys(Computed) \cup renumbering.wiped) : change.write.attrs[k] = rows[a].attrs[k]

PlansKnow == renumbering # Idle => \A a \in DOMAIN renumbering.plan \cap Assets : Knows(a)

LEMMA PlansStep ==
    WritesInv /\ CreationsFresh /\ PlansKnow /\ [StoreNext]_storeVars => PlansKnow'
<1> SUFFICES ASSUME WritesInv, CreationsFresh, PlansKnow, [StoreNext]_storeVars, renumbering' # Idle,
                    NEW a \in DOMAIN renumbering'.plan, a \in Assets'
             PROVE  Knows(a)'
  BY DEF PlansKnow
<1> USE DEF WritesInv
<1>1. a \in Asset /\ rows'[a] # Absent
  BY DEF Assets
<1>2. ~ Planless
  BY DEF Planless, Pending, NoPlan
<1>3. ASSUME renumbering' = renumbering, rows'[a] = rows[a]
      PROVE  Knows(a)'
  BY <1>1, <1>3 DEF PlansKnow, Knows, Assets
<1>4. ASSUME NEW s \in Session, NEW b \in Asset, NEW c \in Live(categories), NEW m \in Models,
             NEW typed \in Forms(FieldsOf(c, m)), Prepare(s, b, c, m, typed)
      PROVE  Knows(a)'
  BY <1>3, <1>4 DEF Prepare, tables
<1>5. ASSUME NEW s \in Session, Persist(s)
      PROVE  Knows(a)'
  <2>1. PICK row \in Row : rows' = [rows EXCEPT ![saves[s].asset] = row] /\ row.version = saves[s].version + 1
    BY <1>5, PersistMakes
  <2>2. /\ renumbering' = renumbering /\ saves[s] # Idle
        /\ IF rows[saves[s].asset] = Absent THEN saves[s].version = 0
           ELSE rows[saves[s].asset].version = saves[s].version
    BY <1>5 DEF Persist
  <2>3. CASE a = saves[s].asset
    <3>1. rows[a] # Absent
      BY <2>2, <2>3 DEF CreationsFresh, FreshFor
    <3>2. rows'[a].version = rows[a].version + 1
      BY <1>1, <2>1, <2>2, <2>3, <3>1 DEF StoreTypeOK
    <3>3. renumbering.plan[a].version <= rows[a].version
      BY <1>1, <2>2, <3>1 DEF PlansKnow, Knows, Assets
    <3>4. renumbering.plan[a].version \in Nat /\ rows[a].version \in Nat
      <4>1. renumbering.plan[a] \in Change
        BY <2>2 DEF StoreTypeOK
      <4>2. rows[a] \in Row
        BY <1>1, <3>1 DEF StoreTypeOK
      <4> QED
        BY <4>1, <4>2 DEF Change, Row
    <3> QED
      BY <2>2, <3>2, <3>3, <3>4 DEF Knows
  <2>4. CASE a # saves[s].asset
    BY <1>1, <1>3, <2>1, <2>2, <2>4 DEF StoreTypeOK
  <2> QED
    BY <2>3, <2>4
<1>6. ASSUME NEW s \in Session, Refuse(s)
      PROVE  Knows(a)'
  BY <1>3, <1>6 DEF Refuse, tables
<1>7. ASSUME NEW c \in Live(categories), NEW new \in SUBSET (Asset \ Assets) \ {{}},
             NEW lines \in [new -> Lines(c)], Import(c, lines)
      PROVE  Knows(a)'
  <2>1. renumbering' = renumbering
    BY <1>7 DEF Import
  <2>2. a \notin new
    BY <1>7, <2>1, ImportMakes DEF Fresh
  <2> QED
    BY <1>1, <1>3, <1>7, <2>1, <2>2, ImportMakes
<1>8. ASSUME NEW as \in SUBSET Asset, Delete(as)
      PROVE  Knows(a)'
  BY <1>1, <1>3, <1>8 DEF Delete
<1>9. ASSUME NEW c \in Category, RecomputeCategory(c)
      PROVE  FALSE
  BY <1>2, <1>9 DEF RecomputeCategory, Planless
<1>10. ASSUME NEW c \in Category, PlanRecompute(c)
       PROVE  Knows(a)'
  <2>1. PICK todo \in SUBSET Category, as \in SUBSET Assets : \E plan \in [as -> Change] :
            /\ renumbering' = [ todo |-> todo, plan |-> plan, wiped |-> {} ]
            /\ \A b \in as :
                  /\ plan[b].version = rows[b].version
                  /\ \A k \in Key \ Keys(Computed) : plan[b].write.attrs[k] = rows[b].attrs[k]
    BY <1>2, <1>10, PlanMakes
  <2>2. PICK plan \in [as -> Change] :
            /\ renumbering' = [ todo |-> todo, plan |-> plan, wiped |-> {} ]
            /\ \A b \in as :
                  /\ plan[b].version = rows[b].version
                  /\ \A k \in Key \ Keys(Computed) : plan[b].write.attrs[k] = rows[b].attrs[k]
    BY <2>1
  <2>3. renumbering'.plan = plan /\ a \in as /\ rows' = rows
    <3>1. renumbering'.plan = plan /\ DOMAIN plan = as
      BY <2>2
    <3>2. rows' = rows
      BY <1>10 DEF PlanRecompute, tables
    <3> QED
      BY <3>1, <3>2
  <2>4. rows[a].version \in Nat
    BY <1>1, <2>3 DEF StoreTypeOK, Row
  <2>5. plan[a].version = rows[a].version
        /\ \A k \in Key \ Keys(Computed) : plan[a].write.attrs[k] = rows[a].attrs[k]
    BY <2>2, <2>3
  <2> QED
    BY <2>3, <2>4, <2>5 DEF Knows
<1>11. ASSUME NEW f \in Field, RecomputeField(f)
       PROVE  FALSE
  BY <1>2, <1>11 DEF RecomputeField, Planless, Roots, BoundTo
<1>12. ASSUME NEW f \in Field, SwitchSearch(f)
       PROVE  Knows(a)'
  BY <1>3, <1>12 DEF SwitchSearch
<1>13. CASE WriteRecomputed
  BY <1>2, <1>13, WriteMakes
<1>14. CASE StopRecompute
  BY <1>14 DEF StopRecompute
<1>15. CASE Configure
  <2>1. /\ renumbering # Idle /\ renumbering'.plan = renumbering.plan
        /\ renumbering'.wiped = renumbering.wiped \cup Keys(FieldsGone)
    BY <1>15 DEF Configure, StoreTypeOK
  <2>2. a \in Assets
    BY <1>1, <1>15, ConfigureMakes DEF Assets
  <2>3. Knows(a)
    BY <2>1, <2>2 DEF PlansKnow
  <2>4. /\ rows'[a].version = rows[a].version
        /\ \A k \in Key \ Keys(FieldsGone) : rows'[a].attrs[k] = rows[a].attrs[k]
    BY <1>15, <2>2, ConfigureMakes
  <2> DEFINE gone == Keys(FieldsGone)
  <2> HIDE DEF gone
  <2>5. renumbering'.wiped = renumbering.wiped \cup gone /\ \A k \in Key \ gone : rows'[a].attrs[k] = rows[a].attrs[k]
    BY <2>1, <2>4 DEF gone
  <2> QED
    BY <2>1, <2>3, <2>4, <2>5 DEF Knows
<1>16. CASE UNCHANGED storeVars
  BY <1>3, <1>16 DEF storeVars, tables
<1> QED
  BY <1>4, <1>5, <1>6, <1>7, <1>8, <1>9, <1>10, <1>11, <1>12, <1>13, <1>14, <1>15, <1>16 DEF StoreNext

PlanInv == WritesInv /\ CreationsFresh /\ PlansKnow

LEMMA PlanInvInit == StoreInit => PlanInv
<1> SUFFICES ASSUME StoreInit
             PROVE  CreationsFresh /\ PlansKnow
  BY WritesInit DEF PlanInv
<1> QED
  BY DEF StoreInit, CreationsFresh, PlansKnow

LEMMA PlanInvStep == PlanInv /\ [StoreNext]_storeVars => PlanInv'
BY WritesStep, CreationsStep, PlansStep DEF PlanInv

-----------------------------------------------------------------------------
(* Why values change                                                       *)

(* A form that is saved asked for the value.                               *)
AskedFor(a, k) ==
    \E s \in Session : saves[s] # Idle /\ saves'[s] = Idle /\ saves[s].asset = a
                       /\ k \in Keys(saves[s].fields)

(* A recomputation writes it, with a reason.                               *)
Recomputed(a, k) ==
    /\ renumbering # Idle /\ a \in DOMAIN renumbering.plan
    /\ \/ k \in Keys(Computed)
       \/ renumbering.plan[a].version # rows[a].version
       \/ k \in renumbering.wiped

LEMMA ValuesStep ==
    ASSUME PlanInv, [StoreNext]_storeVars, NEW a \in Assets, NEW k \in Key, a \in Assets',
           rows'[a].attrs[k] # rows[a].attrs[k]
    PROVE  AskedFor(a, k) \/ k \in Keys(FieldsGone) \/ Recomputed(a, k)
<1> USE DEF PlanInv, WritesInv
<1>1. a \in Asset /\ rows[a] # Absent /\ rows'[a] # Absent /\ rows'[a] # rows[a]
  BY DEF Assets
<1>2. ASSUME NEW s \in Session, Persist(s)
      PROVE  AskedFor(a, k)
  <2>1. PICK row \in Row :
            /\ rows' = [rows EXCEPT ![saves[s].asset] = row]
            /\ rows[saves[s].asset] # Absent =>
                   \A l \in Key \ Keys(saves[s].fields) :
                       saves[s].write.attrs[l] = Nothing => row.attrs[l] = rows[saves[s].asset].attrs[l]
    BY <1>2, PersistMakes
  <2>2. a = saves[s].asset /\ rows'[a] = row
    BY <1>1, <2>1 DEF StoreTypeOK
  <2>3. saves[s] # Idle /\ saves'[s] = Idle
    BY <1>2 DEF Persist, StoreTypeOK
  <2>4. \A l \in Key \ Keys(saves[s].fields) : saves[s].write.attrs[l] = Nothing
    BY <2>3 DEF WritesFaithful
  <2>5. k \in Keys(saves[s].fields)
    BY <1>1, <2>1, <2>2, <2>4
  <2> QED
    BY <2>2, <2>3, <2>5 DEF AskedFor
<1>3. ASSUME NEW c \in Live(categories), NEW new \in SUBSET (Asset \ Assets) \ {{}},
             NEW lines \in [new -> Lines(c)], Import(c, lines)
      PROVE  FALSE
  BY <1>1, <1>3, ImportMakes
<1>4. ASSUME NEW as \in SUBSET Asset, Delete(as)
      PROVE  FALSE
  BY <1>1, <1>4 DEF Delete
<1>5. CASE WriteRecomputed
  <2>1. a \in DOMAIN renumbering.plan
    BY <1>1, <1>5, WriteMakes
  <2>2. rows'[a].attrs = renumbering.plan[a].write.attrs
    BY <1>5, <2>1, WriteMakes
  <2>3. renumbering # Idle
    BY <1>5 DEF WriteRecomputed
  <2>4. Knows(a)
    BY <2>1, <2>3 DEF PlansKnow
  <2> QED
    BY <2>1, <2>2, <2>3, <2>4 DEF Knows, Recomputed
<1>6. CASE Configure
  BY <1>6, ConfigureMakes
<1>7. ASSUME NEW s \in Session, NEW b \in Asset, NEW c \in Live(categories), NEW m \in Models,
             NEW typed \in Forms(FieldsOf(c, m)), Prepare(s, b, c, m, typed)
      PROVE  FALSE
  BY <1>1, <1>7 DEF Prepare, tables
<1>8. ASSUME NEW s \in Session, Refuse(s)
      PROVE  FALSE
  BY <1>1, <1>8 DEF Refuse, tables
<1>9. ASSUME NEW c \in Category, RecomputeCategory(c) \/ PlanRecompute(c)
      PROVE  FALSE
  BY <1>1, <1>9 DEF RecomputeCategory, PlanRecompute, tables
<1>10. ASSUME NEW f \in Field, RecomputeField(f) \/ SwitchSearch(f)
       PROVE  FALSE
  BY <1>1, <1>10 DEF RecomputeField, SwitchSearch, tables
<1>11. CASE StopRecompute \/ UNCHANGED storeVars
  BY <1>1, <1>11 DEF StopRecompute, storeVars, tables
<1> QED
  BY <1>2, <1>3, <1>4, <1>5, <1>6, <1>7, <1>8, <1>9, <1>10, <1>11 DEF StoreNext

(* docs/rules/schema.md: no value of an asset goes or comes unasked.  The  *)
(* form that is saved asked for it, it is computed, its field is deleted,  *)
(* or a recomputation goes over a later save or over a deletion.           *)
THEOREM ValuesChangeOnlyWhenAsked == StoreSpec => ValuesChangeWhenAsked
<1> DEFINE Explained ==
        \A a \in Assets, k \in Key : a \in Assets' /\ rows'[a].attrs[k] # rows[a].attrs[k] =>
              \/ \E s \in Session : saves[s] # Idle /\ saves'[s] = Idle /\ saves[s].asset = a
                                  /\ k \in Keys(saves[s].fields)
              \/ k \in Keys(FieldsGone)
              \/ /\ renumbering # Idle /\ a \in DOMAIN renumbering.plan
                 /\ \/ k \in Keys(Computed)
                    \/ renumbering.plan[a].version # rows[a].version
                    \/ k \in renumbering.wiped
<1>1. ASSUME PlanInv, [StoreNext]_storeVars
      PROVE  Explained
  BY <1>1, ValuesStep DEF AskedFor, Recomputed
<1>2. PlanInv /\ [StoreNext]_storeVars => [Explained]_storeVars
  BY <1>1
<1> QED
  BY <1>2, PlanInvInit, PlanInvStep, PTL DEF StoreSpec, ValuesChangeWhenAsked

-----------------------------------------------------------------------------
(* Unique values                                                           *)

(* Twins, in the rows of a table.                                          *)
Meet(f, c, d) ==
    \/ BoundTo(bound, Model \cup Vendor, f) # {}
    \/ Binders(f, c) \cap Binders(f, d) # {}

Share(table, f, a, b) ==
    /\ f \in Unique
    /\ f \in FieldsOf(table[a].cat, table[a].model) /\ f \in FieldsOf(table[b].cat, table[b].model)
    /\ table[a].attrs[KeyOf[f]] # Nothing
    /\ table[a].attrs[KeyOf[f]] = table[b].attrs[KeyOf[f]]
    /\ Meet(f, table[a].cat, table[b].cat)

TwinsIn(table, a, b) ==
    /\ table[a] # Absent /\ table[b] # Absent
    /\ \E f \in Field : Share(table, f, a, b)

LEMMA TwinsNow ==
    ASSUME NEW a \in Asset, NEW b \in Asset
    PROVE  Twins(a, b) <=> TwinsIn(rows, a, b)
BY SchemaAssumption DEF Twins, TwinsIn, Share, Meet, Assets

LEMMA TwinsNext ==
    ASSUME NEW a \in Asset, NEW b \in Asset, schemaVars' = schemaVars, Twins(a, b)'
    PROVE  TwinsIn(rows', a, b)
<1>1. bound' = bound /\ categories' = categories /\ models' = models
  BY DEF schemaVars
<1>2. ASSUME NEW f, NEW x \in Asset, (f \in FieldsOf(rows[x].cat, rows[x].model))'
      PROVE  f \in FieldsOf(rows'[x].cat, rows'[x].model)
  BY <1>1, <1>2 DEF FieldsOf, FieldsForAsset, Resolve, AncestorIDs, Path
<1>3. ASSUME NEW f, (Meet(f, rows[a].cat, rows[b].cat))'
      PROVE  Meet(f, rows'[a].cat, rows'[b].cat)
  BY <1>1, <1>3 DEF Meet, Binders, BoundTo, AncestorIDs, Path
<1>4. PICK f \in Unique :
          /\ (f \in FieldsOf(rows[a].cat, rows[a].model))' /\ (f \in FieldsOf(rows[b].cat, rows[b].model))'
          /\ rows'[a].attrs[KeyOf[f]] # Nothing
          /\ rows'[a].attrs[KeyOf[f]] = rows'[b].attrs[KeyOf[f]]
          /\ (Meet(f, rows[a].cat, rows[b].cat))'
  BY DEF Twins, Meet
<1>5. rows'[a] # Absent /\ rows'[b] # Absent
  BY DEF Twins, Assets
<1>6. Share(rows', f, a, b)
  BY <1>2, <1>3, <1>4 DEF Share
<1> QED
  BY <1>5, <1>6, SchemaAssumption DEF TwinsIn

LEMMA TwinsAlike ==
    ASSUME NEW table, NEW a, NEW b, TwinsIn(table, a, b)
    PROVE  TwinsIn(table, b, a)
BY DEF TwinsIn, Share, Meet

(* Two devices that one unique field can tell apart have it in one scope.  *)
LEMMA OneScope ==
    ASSUME TypeOK, NEW f \in Field, NEW c \in Live(categories), NEW d \in Live(categories),
           NEW m \in Models, NEW n \in Models, f \in FieldsOf(c, m), f \in FieldsOf(d, n),
           Resolvable(bound, Path(c)), Resolvable(bound, Path(d)), Meet(f, c, d)
    PROVE  Scope(f, c) = Scope(f, d)
<1>1. CASE BoundTo(bound, Model \cup Vendor, f) # {}
  BY <1>1 DEF Scope
<1>2. CASE BoundTo(bound, Model \cup Vendor, f) = {}
  <2>1. PICK t : t \in Binders(f, c) /\ t \in Binders(f, d)
    BY <1>2 DEF Meet
  <2>2. ASSUME NEW e \in Live(categories), NEW k \in Models, f \in FieldsOf(e, k),
               Resolvable(bound, Path(e)), t \in Binders(f, e)
        PROVE  Scope(f, e) = t
    <3>1. Scope(f, e) \in AncestorIDs(Path(e)) /\ <<Scope(f, e), f>> \in bound
      BY <1>2, <2>2, FieldsBound, ScopeOnChain
    <3>2. t \in AncestorIDs(Path(e)) /\ <<t, f>> \in bound
      BY <2>2 DEF Binders, BoundTo
    <3>3. PICK i \in DOMAIN Path(e), j \in DOMAIN Path(e) : Path(e)[i] = Scope(f, e) /\ Path(e)[j] = t
      BY <3>1, <3>2 DEF AncestorIDs
    <3>4. i = j
      BY <2>2, <3>1, <3>2, <3>3 DEF Resolvable
    <3> QED
      BY <3>3, <3>4
  <2> QED
    BY <2>1, <2>2
<1> QED
  BY <1>1, <1>2

(* The entry of an asset's value of a unique field.                        *)
Entry(f, value, c) == [ key |-> KeyOf[f], value |-> value, scope |-> Scope(f, c) ]

LEMMA EntryIn ==
    ASSUME NEW fs, NEW attrs, NEW c, NEW f \in fs, f \in Unique, attrs[KeyOf[f]] # Nothing
    PROVE  Entry(f, attrs[KeyOf[f]], c) \in UniqueValues(fs, attrs, c)
BY DEF UniqueValues, Entry

LEMMA GuardedEntry ==
    ASSUME NEW a \in Assets, Guarded(a), NEW f \in Unique, f \in FieldsOf(rows[a].cat, rows[a].model),
           rows[a].attrs[KeyOf[f]] # Nothing
    PROVE  /\ Resolvable(bound, Path(rows[a].cat))
           /\ Entry(f, rows[a].attrs[KeyOf[f]], rows[a].cat) \in slots[a]
<1>1. /\ Resolvable(bound, Path(rows[a].cat))
      /\ UniqueValues(FieldsOf(rows[a].cat, rows[a].model), rows[a].attrs, rows[a].cat) \subseteq slots[a]
  BY DEF Guarded, PathOf
<1>2. Entry(f, rows[a].attrs[KeyOf[f]], rows[a].cat)
          \in UniqueValues(FieldsOf(rows[a].cat, rows[a].model), rows[a].attrs, rows[a].cat)
  BY EntryIn
<1> QED
  BY <1>1, <1>2

LEMMA PersistMeets ==
    ASSUME WritesInv, NEW s \in Session, Persist(s), NEW x \in Asset, x = saves[s].asset,
           NEW y \in Asset \ {x}, TwinsIn(rows', x, y), Guarded(y), ~ Outdated(x)
    PROVE  FALSE
<1> USE DEF WritesInv
<1> DEFINE p == saves[s]
<1>1. p \in Save /\ p # Idle
  BY PersistMakes DEF Persist
<1>2. PICK row \in Row :
          /\ rows' = [rows EXCEPT ![x] = row]
          /\ row.cat = p.cat /\ row.model = p.model /\ p.cat \in Live(categories) /\ p.model \in Models
          /\ \A k \in Key \cap Keys(p.fields) : row.attrs[k] = p.write.attrs[k]
  BY PersistMakes
<1>3. rows'[x] = row /\ rows'[y] = rows[y]
  BY <1>2 DEF StoreTypeOK
<1>4. PICK f \in Field : Share(rows', f, x, y)
  BY DEF TwinsIn
<1>5. /\ Resolvable(bound, Path(p.cat))
      /\ p.fields = FieldsOf(p.cat, p.model)
      /\ p.write.unique = UniqueValues(p.fields, p.write.attrs, p.cat)
  BY <1>1, <1>2 DEF Outdated
<1> HIDE DEF p
<1>6. f \in Unique /\ f \in p.fields /\ KeyOf[f] \in Key \cap Keys(p.fields)
  BY <1>2, <1>3, <1>4, <1>5, SchemaAssumption DEF Share, Keys
<1>7. row.attrs[KeyOf[f]] = p.write.attrs[KeyOf[f]] /\ p.write.attrs[KeyOf[f]] # Nothing
  BY <1>2, <1>3, <1>4, <1>6 DEF Share
<1> DEFINE v == p.write.attrs[KeyOf[f]]
<1>8. Entry(f, v, p.cat) \in p.write.unique
  BY <1>5, <1>6, <1>7, EntryIn
<1>9. /\ y \in Assets /\ f \in FieldsOf(rows[y].cat, rows[y].model) /\ rows[y].attrs[KeyOf[f]] = v
  BY <1>3, <1>4, <1>7 DEF TwinsIn, Share, Assets
<1>10. Resolvable(bound, Path(rows[y].cat)) /\ Entry(f, v, rows[y].cat) \in slots[y]
  BY <1>6, <1>7, <1>9, GuardedEntry
<1>11. Scope(f, p.cat) = Scope(f, rows[y].cat)
  <2>1. rows[y].cat \in Live(categories) /\ rows[y].model \in Models /\ TypeOK
    BY <1>9 DEF Placed, StoreTypeOK
  <2>2. Meet(f, p.cat, rows[y].cat)
    BY <1>2, <1>3, <1>4 DEF Share
  <2>3. f \in FieldsOf(p.cat, p.model)
    BY <1>5, <1>6
  <2> QED
    BY <1>2, <1>5, <1>9, <1>10, <2>1, <2>2, <2>3, OneScope
<1>12. Entry(f, v, p.cat) = Entry(f, v, rows[y].cat)
  BY <1>11 DEF Entry
<1>13. slots[y] \cap p.write.unique = {}
  BY DEF Persist, Free, p
<1> QED
  BY <1>8, <1>10, <1>12, <1>13

(* What an import has seen to.                                             *)
LEMMA ImportGuards ==
    ASSUME StoreTypeOK, NEW c \in Live(categories), NEW new \in SUBSET (Asset \ Assets) \ {{}},
           NEW lines \in [new -> Lines(c)], Import(c, lines), NEW a \in new
    PROVE  /\ Resolvable(bound, Path(c))
           /\ slots'[a] = UniqueValues(FieldsOf(c, rows'[a].model), rows'[a].attrs, c)
           /\ \A b \in Asset \ {a} : slots'[a] \cap slots'[b] = {}
<1> DEFINE fs == [ b \in new |-> FieldsOf(c, lines[b].model) ]
           attrs == [ b \in new |-> CHOOSE v \in Evaluated(fs[b], Validated(lines[b].typed)) : TRUE ]
<1>1. DOMAIN lines = new
  OBVIOUS
<1>2. rows' = [ b \in Asset |->
              IF b \in new THEN [ cat |-> c, model |-> lines[b].model, attrs |-> attrs[b], version |-> 1 ]
              ELSE rows[b] ]
  BY <1>1 DEF Import
<1>3. slots' = [ b \in Asset |-> IF b \in new THEN UniqueValues(fs[b], attrs[b], c) ELSE slots[b] ]
  BY <1>1 DEF Import
<1>4. Resolvable(bound, Path(c)) /\ Free(slots', a, slots'[a])
  BY <1>1 DEF Import
<1> HIDE DEF attrs
<1>5. rows'[a] = [ cat |-> c, model |-> lines[a].model, attrs |-> attrs[a], version |-> 1 ]
  BY <1>2
<1>6. rows'[a].model = lines[a].model /\ rows'[a].attrs = attrs[a]
  BY <1>5
<1>7. slots'[a] = UniqueValues(FieldsOf(c, lines[a].model), attrs[a], c)
  BY <1>3
<1> QED
  BY <1>4, <1>6, <1>7 DEF Free

LEMMA ImportMeets ==
    ASSUME WritesInv, NEW c \in Live(categories), NEW new \in SUBSET (Asset \ Assets) \ {{}},
           NEW lines \in [new -> Lines(c)], Import(c, lines), NEW x \in new,
           NEW y \in Asset \ {x}, TwinsIn(rows', x, y), Guarded(y)
    PROVE  FALSE
<1> USE DEF WritesInv
<1>1. PICK f \in Field : Share(rows', f, x, y)
  BY DEF TwinsIn
<1> DEFINE v == rows'[x].attrs[KeyOf[f]]
<1>2. ASSUME NEW z \in new, f \in FieldsOf(rows'[z].cat, rows'[z].model), rows'[z].attrs[KeyOf[f]] = v
      PROVE  /\ rows'[z].cat = c /\ rows'[z].model \in Models /\ Resolvable(bound, Path(c))
             /\ Entry(f, v, c) \in slots'[z]
  <2>1. rows'[z].cat = c /\ rows'[z].model \in Models
    BY ImportMakes DEF Imported
  <2>2. f \in FieldsOf(c, rows'[z].model) /\ f \in Unique /\ rows'[z].attrs[KeyOf[f]] # Nothing
    BY <1>1, <1>2, <2>1 DEF Share
  <2>3. Entry(f, rows'[z].attrs[KeyOf[f]], c)
            \in UniqueValues(FieldsOf(c, rows'[z].model), rows'[z].attrs, c)
    BY <2>2, EntryIn
  <2> QED
    BY <1>2, <2>1, <2>3, ImportGuards
<1>3. /\ rows'[x].cat = c /\ rows'[x].model \in Models /\ Resolvable(bound, Path(c))
      /\ Entry(f, v, c) \in slots'[x]
  BY <1>1, <1>2 DEF Share
<1>4. f \in FieldsOf(rows'[y].cat, rows'[y].model) /\ rows'[y].attrs[KeyOf[f]] = v /\ v # Nothing
  BY <1>1 DEF Share
<1>5. slots'[x] \cap slots'[y] = {}
  BY ImportGuards
<1>6. CASE y \in new
  BY <1>2, <1>3, <1>4, <1>5, <1>6
<1>7. CASE y \notin new
  <2>1. rows'[y] = rows[y] /\ slots'[y] = slots[y] /\ y \in Assets
    BY <1>7, ImportMakes DEF TwinsIn, Assets
  <2>2. Resolvable(bound, Path(rows[y].cat)) /\ Entry(f, v, rows[y].cat) \in slots[y]
    BY <1>1, <1>4, <2>1, GuardedEntry DEF Share
  <2>3. Scope(f, c) = Scope(f, rows[y].cat)
    <3>1. rows[y].cat \in Live(categories) /\ rows[y].model \in Models /\ TypeOK
      BY <2>1 DEF Placed, StoreTypeOK
    <3>2. Meet(f, c, rows[y].cat) /\ f \in FieldsOf(c, rows'[x].model)
      BY <1>1, <1>3, <2>1 DEF Share
    <3> QED
      BY <1>3, <1>4, <2>1, <2>2, <3>1, <3>2, OneScope
  <2>4. Entry(f, v, c) = Entry(f, v, rows[y].cat)
    BY <2>3 DEF Entry
  <2> QED
    BY <1>3, <1>5, <2>1, <2>2, <2>4
<1> QED
  BY <1>6, <1>7

(* A plan that is of the rows as they are keeps the values of the fields   *)
(* that no category of the asset binds, and enters those of the others.    *)
LEMMA PlannedEntry ==
    ASSUME WritesInv, SidesExclude, WriteRecomputed, NEW z \in DOMAIN renumbering.plan \cap Assets,
           ~ Outdated(z), NEW f \in Field
    PROVE  /\ BoundTo(bound, Model \cup Vendor, f) # {} =>
                  rows'[z].attrs[KeyOf[f]] = rows[z].attrs[KeyOf[f]]
           /\ f \in ChainFields(z) /\ f \in Unique /\ rows'[z].attrs[KeyOf[f]] # Nothing =>
                  Entry(f, rows'[z].attrs[KeyOf[f]], rows[z].cat) \in renumbering.plan[z].write.unique
<1> USE DEF WritesInv
<1> DEFINE fs == ChainFields(z)
           attrs == CHOOSE v \in Evaluated(fs, rows[z].attrs) : TRUE
           w == renumbering.plan[z].write
           given == rows[z].attrs
<1>1. renumbering # Idle /\ z \in DOMAIN renumbering.plan /\ z \in Asset
  BY DEF WriteRecomputed, StoreTypeOK
<1>2. Evaluated(fs, rows[z].attrs) # {} /\ w = Proposed(z)
  BY <1>1 DEF Outdated
<1>3. w = Prepared(fs, attrs, rows[z].cat)
  BY <1>2 DEF Proposed
<1>4. w.attrs = attrs /\ w.unique = UniqueValues(fs, attrs, rows[z].cat)
  BY <1>3 DEF Prepared
<1>5. rows'[z].attrs = w.attrs
  BY WriteMakes
<1>6. attrs \in Evaluated(fs, rows[z].attrs)
  BY <1>2
<1> HIDE DEF attrs, w
<1>7. ASSUME BoundTo(bound, Model \cup Vendor, f) # {}
      PROVE  rows'[z].attrs[KeyOf[f]] = rows[z].attrs[KeyOf[f]]
  <2>1. PICK t \in Model \cup Vendor : <<t, f>> \in bound
    BY <1>7 DEF BoundTo
  <2>2. t \notin Category
    BY SchemaAssumption
  <2>3. ASSUME NEW g \in fs
        PROVE  KeyOf[g] # KeyOf[f]
    <3>1. PICK d \in AncestorIDs(PathOf(z)) : <<d, g>> \in bound
      BY DEF ChainFields, Resolve
    <3>2. d \in Category
      <4>1. rows[z].cat \in Live(categories) /\ TypeOK
        BY DEF Placed, StoreTypeOK
      <4> QED
        BY <4>1, LiveRows DEF AncestorIDs, PathOf
    <3>3. <<d, g>>[1] = d /\ <<d, g>>[2] = g /\ <<t, f>>[1] = t /\ <<t, f>>[2] = f
      OBVIOUS
    <3> QED
      BY <2>1, <2>2, <3>1, <3>2, <3>3 DEF SidesExclude
  <2>4. KeyOf[f] \in Key \ Keys(fs \cap Computed)
    BY <2>3, SchemaAssumption DEF Keys
  <2>5. \A k \in Key \ Keys(fs \cap Computed) : attrs[k] = given[k]
    <3>1. attrs \in Evaluated(fs, given)
      BY <1>6
    <3> HIDE DEF fs, given
    <3> QED
      BY <3>1, EvaluatedGives
  <2> HIDE DEF fs
  <2>6. attrs[KeyOf[f]] = rows[z].attrs[KeyOf[f]]
    BY <2>4, <2>5
  <2> QED
    BY <1>4, <1>5, <2>6
<1> HIDE DEF fs
<1>8. ASSUME f \in fs, f \in Unique, rows'[z].attrs[KeyOf[f]] # Nothing
      PROVE  Entry(f, rows'[z].attrs[KeyOf[f]], rows[z].cat) \in w.unique
  BY <1>4, <1>5, <1>8, EntryIn
<1> QED
  BY <1>7, <1>8 DEF fs, w

(* Two assets that are written, or one that is and one that is not, have   *)
(* no entry in common: whichever comes later has found the other's.        *)
LEMMA OrderMeets ==
    ASSUME StoreTypeOK, WriteRecomputed, NEW x \in DOMAIN renumbering.plan \cap Assets,
           NEW y \in Assets \ {x}, NEW u \in renumbering.plan[x].write.unique,
           u \in IF y \in DOMAIN renumbering.plan THEN renumbering.plan[y].write.unique ELSE slots[y]
    PROVE  FALSE
<1> DEFINE plan == renumbering.plan
           before(order, i) == [ b \in Asset |-> IF \E j \in 1..(i - 1) : order[j] = b
                                                 THEN plan[b].write.unique ELSE slots[b] ]
<1>1. PICK order \in Orders(DOMAIN plan) : Writable(plan, order)
  BY DEF WriteRecomputed
<1>2. DOMAIN plan \subseteq Asset /\ x \in Asset /\ y \in Asset
  BY DEF StoreTypeOK, WriteRecomputed, Assets
<1>3. Cardinality(DOMAIN plan) \in Nat
  BY <1>2, AttributeAssumption, FS_Subset, FS_CardinalityType
<1> DEFINE n == Cardinality(DOMAIN plan)
<1> HIDE DEF n, plan
<1>4. /\ DOMAIN order = 1..n /\ n \in Nat
      /\ \A i \in 1..n : order[i] \in DOMAIN plan
      /\ \A a \in DOMAIN plan : \E i \in 1..n : order[i] = a
  BY <1>1, <1>3 DEF Orders, n
<1>5. \A i \in 1..n : Free(before(order, i), order[i], plan[order[i]].write.unique)
  BY <1>1, <1>4 DEF Writable
<1>6. ASSUME NEW i \in 1..n, NEW b \in Asset \ {order[i]}
      PROVE  before(order, i)[b] \cap plan[order[i]].write.unique = {}
  BY <1>5 DEF Free
<1>7. PICK i \in 1..n : order[i] = x
  BY <1>4 DEF plan
<1>8. CASE y \in DOMAIN plan
  <2>1. PICK j \in 1..n : order[j] = y
    BY <1>4, <1>8
  <2>2. i < j \/ j < i
    BY <1>4, <1>7, <2>1
  <2>3. CASE i < j
    <3>1. i \in 1..(j - 1)
      BY <1>4, <2>3
    <3>2. before(order, j)[x] = plan[x].write.unique
      BY <1>2, <1>7, <3>1
    <3>3. before(order, j)[x] \cap plan[order[j]].write.unique = {}
      BY <1>2, <1>6, <2>1
    <3> QED
      BY <1>8, <2>1, <3>2, <3>3 DEF plan
  <2>4. CASE j < i
    <3>1. j \in 1..(i - 1)
      BY <1>4, <2>4
    <3>2. before(order, i)[y] = plan[y].write.unique
      BY <1>2, <2>1, <3>1
    <3>3. before(order, i)[y] \cap plan[order[i]].write.unique = {}
      BY <1>2, <1>6, <1>7
    <3> QED
      BY <1>7, <1>8, <3>2, <3>3 DEF plan
  <2> QED
    BY <2>2, <2>3, <2>4
<1>9. CASE y \notin DOMAIN plan
  <2>1. \A j \in 1..(i - 1) : order[j] # y
    BY <1>4, <1>9
  <2>2. before(order, i)[y] = slots[y]
    BY <1>2, <2>1
  <2>3. before(order, i)[y] \cap plan[order[i]].write.unique = {}
    BY <1>2, <1>6, <1>7
  <2> QED
    BY <1>7, <1>9, <2>2, <2>3 DEF plan
<1> QED
  BY <1>8, <1>9

LEMMA WriteMeets ==
    ASSUME WritesInv, SidesExclude, WriteRecomputed, NEW x \in DOMAIN renumbering.plan \cap Assets,
           NEW y \in Asset \ {x}, TwinsIn(rows', x, y), ~ TwinsIn(rows, x, y),
           Guarded(x), Guarded(y), ~ Outdated(x), ~ Outdated(y)
    PROVE  FALSE
<1> USE DEF WritesInv
<1> DEFINE plan == renumbering.plan
<1>1. PICK f \in Field : Share(rows', f, x, y)
  BY DEF TwinsIn
<1> DEFINE v == rows'[x].attrs[KeyOf[f]]
<1>2. y \in Assets /\ (y \notin DOMAIN plan => rows'[y] = rows[y])
  BY WriteMakes DEF TwinsIn, Assets
<1>3. /\ rows'[x].cat = rows[x].cat /\ rows'[x].model = rows[x].model
      /\ rows'[y].cat = rows[y].cat /\ rows'[y].model = rows[y].model
  BY <1>2, WriteMakes
<1>4. /\ f \in Unique /\ v # Nothing /\ rows'[y].attrs[KeyOf[f]] = v
      /\ f \in FieldsOf(rows[x].cat, rows[x].model) /\ f \in FieldsOf(rows[y].cat, rows[y].model)
      /\ Meet(f, rows[x].cat, rows[y].cat)
  BY <1>1, <1>3 DEF Share
<1>5. /\ rows[x].cat \in Live(categories) /\ rows[x].model \in Models
      /\ rows[y].cat \in Live(categories) /\ rows[y].model \in Models /\ TypeOK
  BY <1>2 DEF Placed, StoreTypeOK
<1> HIDE DEF v
<1>6. CASE BoundTo(bound, Model \cup Vendor, f) # {}
  <2>1. rows[x].attrs[KeyOf[f]] = v
    BY <1>6, PlannedEntry DEF v
  <2>2. rows[y].attrs[KeyOf[f]] = v
    BY <1>2, <1>4, <1>6, PlannedEntry
  <2>3. Share(rows, f, x, y)
    BY <1>4, <2>1, <2>2 DEF Share
  <2> QED
    BY <1>2, <2>3 DEF TwinsIn, Assets
<1>7. CASE BoundTo(bound, Model \cup Vendor, f) = {}
  <2>1. f \in ChainFields(x) /\ f \in ChainFields(y)
    BY <1>4, <1>5, <1>7, FieldsBound DEF ChainFields, PathOf
  <2>2. Resolvable(bound, Path(rows[x].cat)) /\ Resolvable(bound, Path(rows[y].cat))
    BY <1>2 DEF Guarded, PathOf
  <2>3. Scope(f, rows[x].cat) = Scope(f, rows[y].cat)
    BY <1>4, <1>5, <2>2, OneScope
  <2>4. Entry(f, v, rows[x].cat) = Entry(f, v, rows[y].cat)
    BY <2>3 DEF Entry
  <2>5. Entry(f, v, rows[x].cat) \in plan[x].write.unique
    BY <1>4, <2>1, PlannedEntry DEF v
  <2>6. CASE y \in DOMAIN plan
    <3>1. Entry(f, v, rows[y].cat) \in plan[y].write.unique
      BY <1>2, <1>4, <2>1, <2>6, PlannedEntry
    <3> QED
      BY <1>2, <2>4, <2>5, <2>6, <3>1, OrderMeets
  <2>7. CASE y \notin DOMAIN plan
    <3>1. Entry(f, v, rows[y].cat) \in slots[y]
      BY <1>2, <1>4, <2>7, GuardedEntry
    <3> QED
      BY <1>2, <2>4, <2>5, <2>7, <3>1, OrderMeets
  <2> QED
    BY <2>6, <2>7
<1> QED
  BY <1>6, <1>7

LEMMA TwinsStep ==
    ASSUME WritesInv, SidesExclude, [StoreNext]_storeVars, NEW a \in Asset, NEW b \in Asset, a # b,
           Twins(a, b)', ~ Twins(a, b), schemaVars' = schemaVars,
           Guarded(a), Guarded(b), ~ Outdated(a), ~ Outdated(b)
    PROVE  FALSE
<1> USE DEF WritesInv
<1>1. TwinsIn(rows', a, b) /\ TwinsIn(rows', b, a)
  BY TwinsNext, TwinsAlike
<1>2. ~ TwinsIn(rows, a, b) /\ ~ TwinsIn(rows, b, a)
  BY TwinsNow, TwinsAlike
<1>3. ASSUME rows'[a] = rows[a], rows'[b] = rows[b]
      PROVE  FALSE
  BY <1>1, <1>2, <1>3 DEF TwinsIn, Share
<1>4. ASSUME NEW s \in Session, NEW x \in Asset, NEW c \in Live(categories), NEW m \in Models,
             NEW typed \in Forms(FieldsOf(c, m)), Prepare(s, x, c, m, typed)
      PROVE  FALSE
  BY <1>3, <1>4 DEF Prepare, tables
<1>5. ASSUME NEW s \in Session, Persist(s)
      PROVE  FALSE
  <2>1. CASE saves[s].asset = a
    BY <1>1, <1>5, <2>1, PersistMeets
  <2>2. CASE saves[s].asset = b
    BY <1>1, <1>5, <2>2, PersistMeets
  <2>3. CASE saves[s].asset # a /\ saves[s].asset # b
    <3>1. PICK row \in Row : rows' = [rows EXCEPT ![saves[s].asset] = row]
      BY <1>5, PersistMakes
    <3>2. rows'[a] = rows[a] /\ rows'[b] = rows[b]
      BY <2>3, <3>1 DEF StoreTypeOK
    <3> QED
      BY <1>3, <3>2
  <2> QED
    BY <2>1, <2>2, <2>3
<1>6. ASSUME NEW s \in Session, Refuse(s)
      PROVE  FALSE
  BY <1>3, <1>6 DEF Refuse, tables
<1>7. ASSUME NEW c \in Live(categories), NEW new \in SUBSET (Asset \ Assets) \ {{}},
             NEW lines \in [new -> Lines(c)], Import(c, lines)
      PROVE  FALSE
  <2>1. CASE a \in new
    BY <1>1, <1>7, <2>1, ImportMeets
  <2>2. CASE b \in new
    BY <1>1, <1>7, <2>2, ImportMeets
  <2>3. CASE a \notin new /\ b \notin new
    BY <1>3, <1>7, <2>3, ImportMakes
  <2> QED
    BY <2>1, <2>2, <2>3
<1>8. ASSUME NEW as \in SUBSET Asset, Delete(as)
      PROVE  FALSE
  <2>1. \A x \in Asset : rows'[x] = IF x \in as THEN Absent ELSE rows[x]
    BY <1>8 DEF Delete
  <2>2. a \notin as /\ b \notin as
    BY <1>1, <2>1 DEF TwinsIn
  <2> QED
    BY <1>3, <2>1, <2>2
<1>9. ASSUME NEW c \in Category, RecomputeCategory(c)
      PROVE  FALSE
  BY <1>3, <1>9 DEF RecomputeCategory, tables
<1>10. ASSUME NEW c \in Category, PlanRecompute(c)
       PROVE  FALSE
  BY <1>3, <1>10 DEF PlanRecompute, tables
<1>11. ASSUME NEW f \in Field, RecomputeField(f)
       PROVE  FALSE
  BY <1>3, <1>11 DEF RecomputeField, tables
<1>12. ASSUME NEW f \in Field, SwitchSearch(f)
       PROVE  FALSE
  BY <1>3, <1>12 DEF SwitchSearch
<1>13. CASE WriteRecomputed
  <2>1. CASE a \in DOMAIN renumbering.plan \cap Assets
    BY <1>1, <1>2, <1>13, <2>1, WriteMeets
  <2>2. CASE b \in DOMAIN renumbering.plan \cap Assets
    BY <1>1, <1>2, <1>13, <2>2, WriteMeets
  <2>3. CASE a \notin DOMAIN renumbering.plan \cap Assets /\ b \notin DOMAIN renumbering.plan \cap Assets
    BY <1>3, <1>13, <2>3, WriteMakes
  <2> QED
    BY <2>1, <2>2, <2>3
<1>14. CASE StopRecompute
  BY <1>3, <1>14 DEF StopRecompute, tables
<1>15. CASE Configure
  <2>1. Keys(FieldsGone) = {}
    BY DEF Keys, FieldsGone, schemaVars
  <2>2. a \in Assets /\ b \in Assets
    BY <1>1, <1>15, ConfigureMakes DEF TwinsIn, Assets
  <2>3. ASSUME NEW x \in Assets
        PROVE  /\ rows'[x].cat = rows[x].cat /\ rows'[x].model = rows[x].model
               /\ \A k \in Key : rows'[x].attrs[k] = rows[x].attrs[k]
    BY <1>15, <2>1, ConfigureMakes
  <2>4. PICK f \in Field : Share(rows', f, a, b)
    BY <1>1 DEF TwinsIn
  <2>5. KeyOf[f] \in Key
    BY SchemaAssumption
  <2>6. Share(rows, f, a, b)
    BY <2>2, <2>3, <2>4, <2>5 DEF Share
  <2> QED
    BY <1>2, <2>2, <2>6 DEF TwinsIn, Assets
<1>16. CASE UNCHANGED storeVars
  BY <1>3, <1>16 DEF storeVars, tables
<1> QED
  BY <1>4, <1>5, <1>6, <1>7, <1>8, <1>9, <1>10, <1>11, <1>12, <1>13, <1>14, <1>15, <1>16 DEF StoreNext

LEMMA UniqueInit == StoreInit => WritesInv /\ SidesExclude
BY WritesInit, SidesInit DEF StoreInit

LEMMA UniqueStep == WritesInv /\ SidesExclude /\ [StoreNext]_storeVars => (WritesInv /\ SidesExclude)'
BY WritesStep, SidesStep, SchemaSteps DEF WritesInv, StoreTypeOK

(* persist.go, recompute.go: two assets in the reach of one unique field   *)
(* come to share a value only by a change of the schema, by a write that   *)
(* rests on an older state of things, or if an entry was lost before.      *)
THEOREM TwinsAlwaysExplained == StoreSpec => TwinsAreExplained
<1> DEFINE Explained ==
        \A a, b \in Asset : a # b /\ Twins(a, b)' /\ ~ Twins(a, b) =>
            schemaVars' # schemaVars \/ ~ (Guarded(a) /\ Guarded(b)) \/ Outdated(a) \/ Outdated(b)
<1>1. WritesInv /\ SidesExclude /\ [StoreNext]_storeVars => [Explained]_storeVars
  BY TwinsStep
<1> QED
  BY <1>1, UniqueInit, UniqueStep, PTL DEF StoreSpec, TwinsAreExplained
=============================================================================
