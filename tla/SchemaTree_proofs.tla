------------------------- MODULE SchemaTree_proofs -------------------------
(***************************************************************************)
(* Theorems about the schema, for any library, any number of categories,   *)
(* models and vendors, and any number of fields and targets in a request.  *)
(***************************************************************************)
EXTENDS SchemaTree, TLAPS

-----------------------------------------------------------------------------
(* Type correctness                                                        *)

LEMMA LiveRows ==
    ASSUME TypeOK
    PROVE  /\ \A c \in Live(categories) : c \in Category /\ categories[c] \in CategoryRow
                                          /\ Path(c) \in Seq(Category)
           /\ Live(fields) \subseteq Field
           /\ \A m \in Live(models) : m \in Model /\ models[m] \in Vendor \cup {NoVendor}
           /\ Targets \subseteq Target
BY DEF TypeOK, Live, CategoryRow, Path, Targets, Target

(* A request to bind names fields and targets.                             *)
Request(fs, ts) ==
    /\ ts \subseteq Targets
    /\ \A i \in DOMAIN fs : fs[i] \in Field
    /\ \E n \in Nat : DOMAIN fs = 1..n

LEMMA BindRequest ==
    ASSUME TypeOK, NEW fs \in Batches, NEW ts \in TargetSets
    PROVE  Request(fs, ts)
<1>1. PICK n \in 1..MaxBatch : fs \in [1..n -> Live(fields)]
  BY DEF Batches
<1>2. ts \subseteq Targets
  BY DEF TargetSets
<1> QED
  BY <1>1, <1>2, LiveRows, SchemaAssumption DEF Request

LEMMA CreateRequest ==
    ASSUME TypeOK, NEW f \in Field, NEW ts \in TargetSets
    PROVE  Request(<<f>>, ts)
BY DEF Request, TargetSets

LEMMA PairsTyped ==
    ASSUME TypeOK, NEW fs, NEW ts, Request(fs, ts)
    PROVE  AllPairs(fs, ts) \subseteq Target \X Field
BY LiveRows DEF AllPairs, Request

LEMMA PathTyped ==
    ASSUME TypeOK, NEW c \in Category, NEW p \in Live(categories) \cup {NoParent}
    PROVE  PathUnder(p, c) \in Seq(Category)
BY LiveRows DEF PathUnder, BuildPath

LEMMA TypeInit == Init => TypeOK
BY DEF Init, TypeOK

LEMMA TypeStep == TypeOK /\ [Next]_vars => TypeOK'
<1> SUFFICES ASSUME TypeOK, [Next]_vars
             PROVE  TypeOK'
  OBVIOUS
<1> USE DEF TypeOK
<1>1. ASSUME NEW ts \in TargetSets, NEW f \in Field, NEW required \in BOOLEAN,
             NEW reads \in Template \cup {{}}, CreateField(f, required, reads, ts)
      PROVE  TypeOK'
  <2>1. [required |-> required, reads |-> reads] \in FieldRow
    BY <1>1, SchemaAssumption DEF FieldRow
  <2>2. AllPairs(<<f>>, ts) \subseteq Target \X Field
    BY CreateRequest, PairsTyped
  <2> QED
    BY <1>1, <2>1, <2>2 DEF CreateField
<1>2. ASSUME NEW ts \in TargetSets, NEW fs \in Batches, Bind(fs, ts)
      PROVE  TypeOK'
  BY <1>2, BindRequest, PairsTyped DEF Bind
<1>3. ASSUME NEW f \in Field, NEW required \in BOOLEAN, NEW reads \in Template \cup {{}},
             UpdateField(f, required, reads)
      PROVE  TypeOK'
  <2>1. [required |-> required, reads |-> reads] \in FieldRow
    BY <1>3, SchemaAssumption DEF FieldRow
  <2> QED
    BY <1>3, <2>1 DEF UpdateField
<1>4. ASSUME NEW f \in Field, NEW c \in Category, Unbind(c, f)
      PROVE  TypeOK'
  BY <1>4 DEF Unbind
<1>5. ASSUME NEW f \in Field, NEW t \in Model \cup Vendor, UnbindDevice(t, f)
      PROVE  TypeOK'
  BY <1>5 DEF UnbindDevice
<1>6. ASSUME NEW f \in Field, DeleteFieldCheck(f)
      PROVE  TypeOK'
  BY <1>6 DEF DeleteFieldCheck
<1>7. CASE DeleteFieldCommit
  BY <1>7 DEF DeleteFieldCommit
<1>8. CASE DeleteFieldRefuse
  BY <1>8 DEF DeleteFieldRefuse
<1>9. ASSUME NEW c \in Category, NEW p \in Category \cup {NoParent}, NEW k \in Key \cup {NoKey},
             CreateCategory(c, p, k)
      PROVE  TypeOK'
  <2>1. [parent |-> p, path |-> PathUnder(p, c), display |-> k] \in CategoryRow
    BY <1>9, PathTyped DEF CreateCategory, CategoryRow
  <2> QED
    BY <1>9, <2>1 DEF CreateCategory
<1>10. ASSUME NEW c \in Category, NEW p \in Category \cup {NoParent}, NEW k \in Key \cup {NoKey},
              UpdateCategory(c, p, k)
       PROVE  TypeOK'
  <2> DEFINE path == IF p = categories[c].parent THEN Path(c) ELSE PathUnder(p, c)
  <2>1. path \in Seq(Category)
    BY <1>10, PathTyped, LiveRows DEF UpdateCategory
  <2>2. [parent |-> p, path |-> path, display |-> k] \in CategoryRow
    BY <2>1 DEF CategoryRow
  <2> QED
    BY <1>10, <2>2 DEF UpdateCategory
<1>11. ASSUME NEW c \in Category, DeleteCategory(c)
       PROVE  TypeOK'
  BY <1>11 DEF DeleteCategory
<1>12. ASSUME NEW v \in Vendor, CreateVendor(v) \/ DeleteVendor(v)
       PROVE  TypeOK'
  BY <1>12 DEF CreateVendor, DeleteVendor
<1>13. ASSUME NEW m \in Model, NEW v \in Vendor \cup {NoVendor}, CreateModel(m, v) \/ UpdateModel(m, v)
       PROVE  TypeOK'
  BY <1>13 DEF CreateModel, UpdateModel
<1>14. ASSUME NEW m \in Model, DeleteModel(m)
       PROVE  TypeOK'
  BY <1>14 DEF DeleteModel
<1>15. CASE UNCHANGED vars
  BY <1>15 DEF vars
<1> QED
  BY <1>1, <1>2, <1>3, <1>4, <1>5, <1>6, <1>7, <1>8, <1>9, <1>10, <1>11, <1>12, <1>13, <1>14, <1>15
     DEF Next

(* Every variable of the schema has its type, whatever is bound to what.   *)
THEOREM TypeCorrect == Spec => []TypeOK
BY TypeInit, TypeStep, PTL DEF Spec

-----------------------------------------------------------------------------
(* One gate for all the ways to bind                                       *)

(* What the gate of p's target has seen when it let p in: all of b and     *)
(* perhaps more.                                                           *)
LetIn(F, b, p) == \E B \in SUBSET (Target \X Field) : b \in B /\ MayBind(F, B, p[1], p[2])

(* Of two pairs one was bound in the presence of the other, unless both    *)
(* were there before the request.                                          *)
LEMMA PairOrder ==
    ASSUME TypeOK, NEW F, NEW fs, NEW ts, Request(fs, ts), MayBindAll(F, fs, ts),
           NEW p \in bound \cup AllPairs(fs, ts), NEW q \in bound \cup AllPairs(fs, ts), p # q
    PROVE  \/ p \in bound /\ q \in bound
           \/ LetIn(F, q, p)
           \/ LetIn(F, p, q)
<1> DEFINE Seen(i, t) == bound \cup { <<u, fs[j]>> : u \in ts, j \in 1..(i - 1) }
                               \cup { <<u, fs[i]>> : u \in ts \ {t} }
<1>1. ASSUME NEW i \in DOMAIN fs, NEW t \in ts, NEW y \in Seen(i, t)
      PROVE  LetIn(F, y, <<t, fs[i]>>)
  <2>1. \A j \in 1..(i - 1) : fs[j] \in Field
    BY <1>1 DEF Request
  <2>2. Seen(i, t) \in SUBSET (Target \X Field)
    BY <1>1, <2>1, LiveRows DEF Request, TypeOK
  <2>3. MayBind(F, Seen(i, t), t, fs[i])
    BY <1>1 DEF MayBindAll
  <2> HIDE DEF Seen
  <2>4. <<t, fs[i]>>[1] = t /\ <<t, fs[i]>>[2] = fs[i]
    OBVIOUS
  <2>5. \E B \in SUBSET (Target \X Field) :
            y \in B /\ MayBind(F, B, <<t, fs[i]>>[1], <<t, fs[i]>>[2])
    BY <1>1, <2>2, <2>3, <2>4
  <2> QED
    BY <2>5 DEF LetIn
<1>2. ASSUME NEW x \in AllPairs(fs, ts), NEW y \in bound
      PROVE  LetIn(F, y, x)
  <2>1. PICK t \in ts, i \in DOMAIN fs : x = <<t, fs[i]>>
    BY <1>2 DEF AllPairs
  <2>2. y \in Seen(i, t)
    BY <1>2
  <2> QED
    BY <1>1, <2>1, <2>2
<1>3. ASSUME p \in AllPairs(fs, ts), q \in AllPairs(fs, ts)
      PROVE  LetIn(F, q, p) \/ LetIn(F, p, q)
  <2>1. PICK t \in ts, i \in DOMAIN fs : p = <<t, fs[i]>>
    BY <1>3 DEF AllPairs
  <2>2. PICK u \in ts, j \in DOMAIN fs : q = <<u, fs[j]>>
    BY <1>3 DEF AllPairs
  <2>3. i \in Nat \ {0} /\ j \in Nat \ {0}
    BY DEF Request
  <2>4. CASE i = j
    <3>1. q \in Seen(i, t)
      BY <2>1, <2>2, <2>4
    <3> QED
      BY <1>1, <2>1, <3>1
  <2>5. CASE j < i
    <3>1. j \in 1..(i - 1)
      BY <2>3, <2>5
    <3>2. q \in { <<v, fs[l]>> : v \in ts, l \in 1..(i - 1) }
      BY <2>2, <3>1
    <3>3. q \in Seen(i, t)
      BY <3>2
    <3> QED
      BY <1>1, <2>1, <3>3
  <2>6. CASE i < j
    <3>1. i \in 1..(j - 1)
      BY <2>3, <2>6
    <3>2. p \in { <<v, fs[l]>> : v \in ts, l \in 1..(j - 1) }
      BY <2>1, <3>1
    <3>3. p \in Seen(j, u)
      BY <3>2
    <3> QED
      BY <1>1, <2>2, <3>3
  <2> QED
    BY <2>3, <2>4, <2>5, <2>6
<1> QED
  BY <1>2, <1>3

(* Each kind of gate keeps its field's key off the other side.             *)
LEMMA GateKeepsSides ==
    ASSUME NEW F, NEW p \in Target \X Field, NEW q \in Target \X Field,
           KeyOf[p[2]] = KeyOf[q[2]], LetIn(F, q, p)
    PROVE  p[1] \in Category <=> q[1] \in Category
<1>1. PICK B \in SUBSET (Target \X Field) : q \in B /\ MayBind(F, B, p[1], p[2])
  BY DEF LetIn
<1>2. q = <<q[1], q[2]>> /\ q[1] \in Target
  OBVIOUS
<1>3. CASE p[1] \in Category /\ MayBindCategory(F, B, p[1], p[2])
  BY <1>1, <1>2, <1>3 DEF MayBindCategory, BoundTo, Target
<1>4. CASE p[1] \in Model /\ MayBindModel(B, p[1], p[2])
  BY <1>1, <1>2, <1>4, SchemaAssumption DEF MayBindModel, KeyFreeForDevice, BoundTo
<1>5. CASE p[1] \in Vendor /\ MayBindVendor(B, p[1], p[2])
  BY <1>1, <1>2, <1>5, SchemaAssumption DEF MayBindVendor, KeyFreeForDevice, BoundTo
<1> QED
  BY <1>1, <1>3, <1>4, <1>5 DEF MayBind

(* The steps that bind.                                                    *)
Binds(F, fs, ts) ==
    /\ Request(fs, ts) /\ MayBindAll(F, fs, ts)
    /\ bound' = bound \cup AllPairs(fs, ts)
    /\ UNCHANGED <<categories, models>>

LEMMA BindingSteps ==
    ASSUME TypeOK, [Next]_vars
    PROVE  bound' \subseteq bound \/ \E F, fs, ts : Binds(F, fs, ts)
<1>1. ASSUME NEW ts \in TargetSets, NEW f \in Field, NEW required \in BOOLEAN,
             NEW reads \in Template \cup {{}}, CreateField(f, required, reads, ts)
      PROVE  \E F, gs, us : Binds(F, gs, us)
  <2> DEFINE F == [fields EXCEPT ![f] = [required |-> required, reads |-> reads]]
  <2>1. Binds(F, <<f>>, ts)
    BY <1>1, CreateRequest DEF CreateField, Binds
  <2> QED
    BY <2>1
<1>2. ASSUME NEW ts \in TargetSets, NEW fs \in Batches, Bind(fs, ts)
      PROVE  \E F, gs, us : Binds(F, gs, us)
  <2>1. Binds(fields, fs, ts)
    BY <1>2, BindRequest DEF Bind, Binds
  <2> QED
    BY <2>1
<1>3. ASSUME NEW f \in Field, NEW c \in Category, Unbind(c, f)
      PROVE  bound' \subseteq bound
  BY <1>3 DEF Unbind
<1>4. ASSUME NEW f \in Field, NEW t \in Model \cup Vendor, UnbindDevice(t, f)
      PROVE  bound' \subseteq bound
  BY <1>4 DEF UnbindDevice
<1> QED
  BY <1>1, <1>2, <1>3, <1>4
     DEF Next, vars, UpdateField, DeleteFieldCheck, DeleteFieldCommit, DeleteFieldRefuse,
         CreateCategory, UpdateCategory, DeleteCategory, CreateVendor, DeleteVendor, CreateModel,
         UpdateModel, DeleteModel

LEMMA SidesInit == Init => SidesExclude
BY DEF Init, SidesExclude

LEMMA SidesStep == TypeOK /\ SidesExclude /\ [Next]_vars => SidesExclude'
<1> SUFFICES ASSUME TypeOK, SidesExclude, [Next]_vars
             PROVE  SidesExclude'
  OBVIOUS
<1>1. ASSUME NEW F, NEW fs, NEW ts, Binds(F, fs, ts)
      PROVE  SidesExclude'
  <2> SUFFICES ASSUME NEW p \in bound', NEW q \in bound', KeyOf[p[2]] = KeyOf[q[2]],
                      p[1] \in Category, q[1] \notin Category
               PROVE  FALSE
    BY DEF SidesExclude
  <2>1. p \in Target \X Field /\ q \in Target \X Field
    BY <1>1, PairsTyped DEF Binds, TypeOK
  <2>2. (p \in bound /\ q \in bound) \/ LetIn(F, q, p) \/ LetIn(F, p, q)
    BY <1>1, PairOrder DEF Binds
  <2> QED
    BY <2>1, <2>2, GateKeepsSides DEF SidesExclude
<1>2. CASE bound' \subseteq bound
  BY <1>2 DEF SidesExclude
<1> QED
  BY <1>1, <1>2, BindingSteps

(* docs/rules/schema.md: no key is asked for by a category and by a model  *)
(* or a vendor, whichever of the requests of the three kinds, of groups    *)
(* and of creation come in whatever order.                                 *)
THEOREM SidesExcludeEachOther == Spec => []SidesExclude
<1>1. Init => TypeOK /\ SidesExclude
  BY TypeInit, SidesInit
<1>2. TypeOK /\ SidesExclude /\ [Next]_vars => (TypeOK /\ SidesExclude)'
  BY TypeStep, SidesStep
<1> QED
  BY <1>1, <1>2, PTL DEF Spec

-----------------------------------------------------------------------------
(* What devices are asked for                                              *)

(* What is bound hangs on a row that is there, and no model and no vendor  *)
(* by itself has two fields for one key.                                   *)
BoundLive == \A p \in bound : p[1] \in Targets

OwnKeys ==
    \A p, q \in bound :
        p[1] = q[1] /\ p[1] \notin Category /\ KeyOf[p[2]] = KeyOf[q[2]] => p[2] = q[2]

BoundInv == TypeOK /\ SidesExclude /\ BoundLive /\ OwnKeys

LEMMA BoundLiveStep == TypeOK /\ BoundLive /\ [Next]_vars => BoundLive'
<1> SUFFICES ASSUME TypeOK, BoundLive, [Next]_vars
             PROVE  BoundLive'
  OBVIOUS
<1> USE DEF BoundLive, Targets, Live
<1>1. ASSUME NEW ts \in TargetSets, NEW f \in Field, NEW required \in BOOLEAN,
             NEW reads \in Template \cup {{}}, CreateField(f, required, reads, ts)
      PROVE  BoundLive'
  BY <1>1 DEF CreateField, TargetSets, AllPairs
<1>2. ASSUME NEW ts \in TargetSets, NEW fs \in Batches, Bind(fs, ts)
      PROVE  BoundLive'
  BY <1>2 DEF Bind, TargetSets, AllPairs
<1>3. ASSUME NEW f \in Field, NEW required \in BOOLEAN, NEW reads \in Template \cup {{}},
             UpdateField(f, required, reads)
      PROVE  BoundLive'
  BY <1>3 DEF UpdateField
<1>4. ASSUME NEW f \in Field, NEW c \in Category, Unbind(c, f)
      PROVE  BoundLive'
  BY <1>4 DEF Unbind
<1>5. ASSUME NEW f \in Field, NEW t \in Model \cup Vendor, UnbindDevice(t, f)
      PROVE  BoundLive'
  BY <1>5 DEF UnbindDevice
<1>6. ASSUME NEW f \in Field, DeleteFieldCheck(f)
      PROVE  BoundLive'
  BY <1>6 DEF DeleteFieldCheck
<1>7. CASE DeleteFieldCommit \/ DeleteFieldRefuse
  BY <1>7 DEF DeleteFieldCommit, DeleteFieldRefuse
<1>8. ASSUME NEW c \in Category, NEW p \in Category \cup {NoParent}, NEW k \in Key \cup {NoKey},
             CreateCategory(c, p, k)
      PROVE  BoundLive'
  BY <1>8 DEF CreateCategory, TypeOK
<1>9. ASSUME NEW c \in Category, NEW p \in Category \cup {NoParent}, NEW k \in Key \cup {NoKey},
             UpdateCategory(c, p, k)
      PROVE  BoundLive'
  <2> DEFINE path == IF p = categories[c].parent THEN Path(c) ELSE PathUnder(p, c)
  <2>1. path \in Seq(Category)
    BY <1>9, PathTyped, LiveRows DEF UpdateCategory
  <2>2. [parent |-> p, path |-> path, display |-> k] # Absent
    BY <2>1, SchemaAssumption DEF CategoryRow
  <2> QED
    BY <1>9, <2>2 DEF UpdateCategory, TypeOK
<1>10. ASSUME NEW c \in Category, DeleteCategory(c)
       PROVE  BoundLive'
  BY <1>10, SchemaAssumption DEF DeleteCategory, TypeOK
<1>11. ASSUME NEW v \in Vendor, CreateVendor(v) \/ DeleteVendor(v)
       PROVE  BoundLive'
  BY <1>11, SchemaAssumption DEF CreateVendor, DeleteVendor
<1>12. ASSUME NEW m \in Model, NEW v \in Vendor \cup {NoVendor}, CreateModel(m, v) \/ UpdateModel(m, v)
       PROVE  BoundLive'
  BY <1>12, SchemaAssumption DEF CreateModel, UpdateModel, TypeOK
<1>13. ASSUME NEW m \in Model, DeleteModel(m)
       PROVE  BoundLive'
  BY <1>13, SchemaAssumption DEF DeleteModel, TypeOK
<1>14. CASE UNCHANGED vars
  BY <1>14 DEF vars
<1> QED
  BY <1>1, <1>2, <1>3, <1>4, <1>5, <1>6, <1>7, <1>8, <1>9, <1>10, <1>11, <1>12, <1>13, <1>14
     DEF Next

(* The gates of models and of vendors let no second field of a key in, on  *)
(* one target or on the two that one device has.                           *)
LEMMA GateKeepsDevice ==
    ASSUME TypeOK, NEW F, NEW p \in Target \X Field, NEW q \in Target \X Field,
           KeyOf[p[2]] = KeyOf[q[2]], LetIn(F, q, p), p[1] \notin Category,
           \/ q[1] = p[1]
           \/ p[1] \in Model /\ q[1] = models[p[1]]
           \/ q[1] \in Live(models) /\ p[1] = models[q[1]]
    PROVE  p[2] = q[2]
<1>1. PICK B \in SUBSET (Target \X Field) : q \in B /\ MayBind(F, B, p[1], p[2])
  BY DEF LetIn
<1>2. CASE p[1] \in Model /\ MayBindModel(B, p[1], p[2])
  <2>1. ~ (q[1] \in Live(models) /\ p[1] = models[q[1]])
    BY <1>2, LiveRows, SchemaAssumption DEF Target
  <2> QED
    BY <1>1, <1>2, <2>1 DEF MayBindModel, KeyFreeForDevice
<1>3. CASE p[1] \in Vendor /\ MayBindVendor(B, p[1], p[2])
  <2>1. p[1] \notin Model
    BY <1>3, SchemaAssumption
  <2> QED
    BY <1>1, <1>3, <2>1 DEF MayBindVendor, KeyFreeForDevice
<1> QED
  BY <1>1, <1>2, <1>3 DEF MayBind

LEMMA OwnKeysStep == TypeOK /\ OwnKeys /\ [Next]_vars => OwnKeys'
<1> SUFFICES ASSUME TypeOK, OwnKeys, [Next]_vars
             PROVE  OwnKeys'
  OBVIOUS
<1>1. ASSUME NEW F, NEW fs, NEW ts, Binds(F, fs, ts)
      PROVE  OwnKeys'
  <2> SUFFICES ASSUME NEW p \in bound', NEW q \in bound', KeyOf[p[2]] = KeyOf[q[2]],
                      p[1] = q[1], p[1] \notin Category, p[2] # q[2]
               PROVE  FALSE
    BY DEF OwnKeys
  <2>1. p \in Target \X Field /\ q \in Target \X Field
    BY <1>1, PairsTyped DEF Binds, TypeOK
  <2>2. (p \in bound /\ q \in bound) \/ LetIn(F, q, p) \/ LetIn(F, p, q)
    BY <1>1, PairOrder DEF Binds
  <2> QED
    BY <2>1, <2>2, GateKeepsDevice DEF OwnKeys
<1>2. CASE bound' \subseteq bound
  BY <1>2 DEF OwnKeys
<1> QED
  BY <1>1, <1>2, BindingSteps

LEMMA BoundInvInit == Init => BoundInv
BY TypeInit, SidesInit DEF Init, BoundInv, BoundLive, OwnKeys

LEMMA BoundInvStep == BoundInv /\ [Next]_vars => BoundInv'
BY TypeStep, SidesStep, BoundLiveStep, OwnKeysStep DEF BoundInv

-----------------------------------------------------------------------------
(* One field for one key                                                   *)

LEMMA PrefixesOnOneChain ==
    ASSUME NEW path \in Seq(Category), NEW i \in DOMAIN path, NEW j \in DOMAIN path
    PROVE  OnOneChain(SubSeq(path, 1, i), SubSeq(path, 1, j))
<1>1. ASSUME NEW k \in DOMAIN path, NEW l \in DOMAIN path, k <= l
      PROVE  IsDescendantOf(SubSeq(path, 1, l), SubSeq(path, 1, k))
  <2>1. Len(SubSeq(path, 1, k)) = k /\ Len(SubSeq(path, 1, l)) = l
    OBVIOUS
  <2>2. SubSeq(SubSeq(path, 1, l), 1, k) = SubSeq(path, 1, k)
    BY <1>1
  <2> QED
    BY <1>1, <2>1, <2>2 DEF IsDescendantOf
<1>2. i <= j \/ j <= i
  OBVIOUS
<1> QED
  BY <1>1, <1>2 DEF OnOneChain

(* A category has no place twice on a path.                                *)
LEMMA PlacesDiffer ==
    ASSUME TypeOK, PathsProper, NEW c \in Live(categories),
           NEW i \in DOMAIN Path(c), NEW j \in DOMAIN Path(c), Path(c)[i] = Path(c)[j]
    PROVE  i = j
<1>1. SubSeq(Path(c), 1, i) = SubSeq(Path(c), 1, j)
  BY DEF PathsProper
<1>2. Path(c) \in Seq(Category)
  BY LiveRows
<1>3. Len(SubSeq(Path(c), 1, i)) = i /\ Len(SubSeq(Path(c), 1, j)) = j
  BY <1>2
<1> QED
  BY <1>1, <1>3

(* The gate of categories lets no second field of a key onto a path.       *)
LEMMA GateKeepsPath ==
    ASSUME TypeOK, PathsProper, NEW c \in Live(categories),
           NEW i \in DOMAIN Path(c), NEW j \in DOMAIN Path(c),
           NEW F, NEW p \in Target \X Field, NEW q \in Target \X Field,
           KeyOf[p[2]] = KeyOf[q[2]], LetIn(F, q, p),
           p[1] = Path(c)[i], q[1] = Path(c)[j]
    PROVE  p = q
<1>1. PICK B \in SUBSET (Target \X Field) : q \in B /\ MayBind(F, B, p[1], p[2])
  BY DEF LetIn
<1>2. Path(c) \in Seq(Category) /\ p[1] \in Category /\ q[1] \in Category
  BY LiveRows
<1>3. MayBindCategory(F, B, p[1], p[2])
  BY <1>1, <1>2, SchemaAssumption DEF MayBind
<1>4. OnOneChain(Path(p[1]), Path(q[1]))
  BY <1>2, PrefixesOnOneChain DEF PathsProper
<1>5. p = <<p[1], p[2]>>
  OBVIOUS
<1> QED
  BY <1>1, <1>2, <1>3, <1>4, <1>5 DEF MayBindCategory

(* Pairs that are met on one path, or on one model and its vendor, and not *)
(* on both.                                                                *)
OnPath(path, p) == \E i \in DOMAIN path : p[1] = path[i]
OnDevice(M, m, p) == m # NoModel /\ (p[1] = m \/ p[1] = M[m])

(* KeysDistinct, in terms of pairs.                                        *)
PathKeys(b, path) ==
    \A i, j \in DOMAIN path, f, g \in Field :
        (<<path[i], f>> \in b /\ <<path[j], g>> \in b /\ KeyOf[f] = KeyOf[g]) => i = j /\ f = g
DeviceKeys(b, M, m) ==
    \A p, q \in b :
        OnDevice(M, m, p) /\ OnDevice(M, m, q) /\ KeyOf[p[2]] = KeyOf[q[2]] => p[2] = q[2]

Paths == { Path(c) : c \in Live(categories) } \cup {<<>>}

PairsDistinct ==
    /\ \A path \in Paths : PathKeys(bound, path)
    /\ \A m \in Live(models) : DeviceKeys(bound, models, m)

LEMMA KeysToPairs ==
    ASSUME TypeOK, KeysDistinct
    PROVE  PairsDistinct
<1>1. \A path \in Paths : PathKeys(bound, path)
  BY DEF KeysDistinct, Paths, PathKeys, Resolvable
<1>2. ASSUME NEW m \in Live(models)
      PROVE  DeviceKeys(bound, models, m)
  <2> SUFFICES ASSUME NEW p \in bound, NEW q \in bound, OnDevice(models, m, p), OnDevice(models, m, q),
                      KeyOf[p[2]] = KeyOf[q[2]]
               PROVE  p[2] = q[2]
    BY DEF DeviceKeys
  <2>1. p = <<p[1], p[2]>> /\ q = <<q[1], q[2]>> /\ p[2] \in Field /\ q[2] \in Field
    BY <1>2 DEF TypeOK
  <2>2. p[2] \in FieldsForAsset(bound, <<>>, m) /\ q[2] \in FieldsForAsset(bound, <<>>, m)
    BY <2>1 DEF FieldsForAsset, OnDevice
  <2> QED
    BY <2>2 DEF KeysDistinct
<1> QED
  BY <1>1, <1>2 DEF PairsDistinct

LEMMA PairsToKeys == TypeOK /\ SidesExclude /\ PairsDistinct => KeysDistinct
<1> SUFFICES ASSUME TypeOK, SidesExclude, PairsDistinct, NEW path \in Paths
             PROVE  /\ Resolvable(bound, path)
                    /\ \A m \in Live(models) \cup {NoModel} :
                          \A f, g \in FieldsForAsset(bound, path, m) : KeyOf[f] = KeyOf[g] => f = g
  BY DEF KeysDistinct, Paths
<1>1. PathKeys(bound, path)
  BY DEF PairsDistinct
<1>2. path \in Seq(Category)
  <2>1. CASE path = <<>>
    BY <2>1
  <2>2. CASE path # <<>>
    BY <2>2, LiveRows DEF Paths
  <2> QED
    BY <2>1, <2>2
<1>3. ASSUME NEW m \in Live(models) \cup {NoModel},
             NEW f \in FieldsForAsset(bound, path, m), NEW g \in FieldsForAsset(bound, path, m),
             KeyOf[f] = KeyOf[g]
      PROVE  f = g
  <2>1. \A h \in FieldsForAsset(bound, path, m) :
            \/ \E i \in DOMAIN path : <<path[i], h>> \in bound
            \/ m # NoModel /\ (<<m, h>> \in bound \/ <<models[m], h>> \in bound)
    BY DEF FieldsForAsset, Resolve, AncestorIDs
  <2>2. f \in Field /\ g \in Field
    BY DEF FieldsForAsset, Resolve
  <2>3. ASSUME NEW h \in Field, NEW k \in Field, NEW i \in DOMAIN path, KeyOf[h] = KeyOf[k],
               <<path[i], h>> \in bound, m # NoModel, <<m, k>> \in bound \/ <<models[m], k>> \in bound
        PROVE  FALSE
    <3>1. path[i] \in Category
      BY <1>2
    <3>2. m \notin Category /\ models[m] \notin Category
      BY <2>3, LiveRows, SchemaAssumption DEF Target
    <3>3. PICK t \in {m, models[m]} : <<t, k>> \in bound
      BY <2>3
    <3>4. <<path[i], h>>[1] = path[i] /\ <<path[i], h>>[2] = h /\ <<t, k>>[1] = t /\ <<t, k>>[2] = k
      OBVIOUS
    <3> QED
      BY <2>3, <3>1, <3>2, <3>3, <3>4 DEF SidesExclude
  <2>4. CASE \E i, j \in DOMAIN path : <<path[i], f>> \in bound /\ <<path[j], g>> \in bound
    BY <1>1, <1>3, <2>2, <2>4 DEF PathKeys
  <2>5. CASE /\ m # NoModel
             /\ <<m, f>> \in bound \/ <<models[m], f>> \in bound
             /\ <<m, g>> \in bound \/ <<models[m], g>> \in bound
    <3>1. PICK t \in {m, models[m]}, u \in {m, models[m]} : <<t, f>> \in bound /\ <<u, g>> \in bound
      BY <2>5
    <3>2. <<t, f>>[1] = t /\ <<t, f>>[2] = f /\ <<u, g>>[1] = u /\ <<u, g>>[2] = g
      OBVIOUS
    <3>3. OnDevice(models, m, <<t, f>>) /\ OnDevice(models, m, <<u, g>>)
      BY <2>5, <3>1, <3>2 DEF OnDevice
    <3> QED
      BY <1>3, <2>5, <3>1, <3>2, <3>3 DEF DeviceKeys, PairsDistinct
  <2> QED
    BY <1>3, <2>1, <2>2, <2>3, <2>4, <2>5
<1> QED
  BY <1>1, <1>3 DEF PathKeys, Resolvable

(* Apart from the steps that are set aside, a step binds, takes away, or   *)
(* adds one category or one model.                                         *)
Shrinks ==
    /\ bound' \subseteq bound
    /\ \A c \in Live(categories)' : c \in Live(categories) /\ Path(c)' = Path(c)
    /\ \A m \in Live(models)' : m \in Live(models) /\ models'[m] = models[m]

LEMMA StepKinds ==
    ASSUME TypeOK, [Next]_vars, ~ CategoryMoves, ~ VendorChanges
    PROVE  \/ Shrinks
           \/ \E F, fs, ts : Binds(F, fs, ts)
           \/ \E c \in Category, p \in Category \cup {NoParent}, k \in Key \cup {NoKey} :
                 CreateCategory(c, p, k)
           \/ \E m \in Model, v \in Vendor \cup {NoVendor} : CreateModel(m, v)
<1> USE DEF Shrinks, Live, Path, TypeOK
<1>1. ASSUME NEW ts \in TargetSets, NEW f \in Field, NEW required \in BOOLEAN,
             NEW reads \in Template \cup {{}}, CreateField(f, required, reads, ts)
      PROVE  \E F, gs, us : Binds(F, gs, us)
  <2> DEFINE F == [fields EXCEPT ![f] = [required |-> required, reads |-> reads]]
  <2>1. Binds(F, <<f>>, ts)
    BY <1>1, CreateRequest DEF CreateField, Binds
  <2> QED
    BY <2>1
<1>2. ASSUME NEW ts \in TargetSets, NEW fs \in Batches, Bind(fs, ts)
      PROVE  \E F, gs, us : Binds(F, gs, us)
  <2>1. Binds(fields, fs, ts)
    BY <1>2, BindRequest DEF Bind, Binds
  <2> QED
    BY <2>1
<1>3. ASSUME NEW f \in Field,
             \/ \E required \in BOOLEAN, reads \in Template \cup {{}} : UpdateField(f, required, reads)
             \/ \E c \in Category : Unbind(c, f)
             \/ \E t \in Model \cup Vendor : UnbindDevice(t, f)
             \/ DeleteFieldCheck(f)
      PROVE  Shrinks
  BY <1>3 DEF UpdateField, Unbind, UnbindDevice, DeleteFieldCheck
<1>4. CASE DeleteFieldCommit \/ DeleteFieldRefuse
  BY <1>4 DEF DeleteFieldCommit, DeleteFieldRefuse
<1>5. ASSUME NEW c \in Category, NEW p \in Category \cup {NoParent}, NEW k \in Key \cup {NoKey},
             UpdateCategory(c, p, k)
      PROVE  Shrinks
  <2>1. DOMAIN categories = Category /\ DOMAIN categories' = Category /\ c \in Live(categories)
    BY <1>5 DEF UpdateCategory
  <2>2. \A d \in Live(categories)' : d \in Live(categories)
    BY <1>5, <2>1 DEF UpdateCategory
  <2>3. \A d \in Live(categories)' : categories'[d].path = categories[d].path
    BY <2>1, <2>2 DEF CategoryMoves
  <2> QED
    BY <1>5, <2>2, <2>3 DEF UpdateCategory
<1>6. ASSUME NEW c \in Category, DeleteCategory(c)
      PROVE  Shrinks
  BY <1>6 DEF DeleteCategory
<1>7. ASSUME NEW v \in Vendor, CreateVendor(v) \/ DeleteVendor(v)
      PROVE  Shrinks
  BY <1>7 DEF CreateVendor, DeleteVendor
<1>8. ASSUME NEW m \in Model, NEW v \in Vendor \cup {NoVendor}, UpdateModel(m, v)
      PROVE  Shrinks
  BY <1>8 DEF UpdateModel, VendorChanges
<1>9. ASSUME NEW m \in Model, DeleteModel(m)
      PROVE  Shrinks
  BY <1>9 DEF DeleteModel
<1>10. CASE UNCHANGED vars
  BY <1>10 DEF vars
<1> QED
  BY <1>1, <1>2, <1>3, <1>4, <1>5, <1>6, <1>7, <1>8, <1>9, <1>10 DEF Next

LEMMA PairsBound ==
    ASSUME BoundInv, PairsDistinct, PathsProper, NEW F, NEW fs, NEW ts, Binds(F, fs, ts)
    PROVE  PairsDistinct'
<1> USE DEF BoundInv
<1>1. ASSUME NEW p \in bound', NEW q \in bound'
      PROVE  /\ p \in Target \X Field /\ q \in Target \X Field
             /\ p = q \/ (p \in bound /\ q \in bound) \/ LetIn(F, q, p) \/ LetIn(F, p, q)
  BY <1>1, PairsTyped, PairOrder DEF Binds, TypeOK
<1>2. Paths' = Paths /\ Live(models)' = Live(models) /\ models' = models
  BY DEF Binds, Paths, Live, Path
<1>3. ASSUME NEW path \in Paths
      PROVE  PathKeys(bound', path)
  <2> SUFFICES ASSUME NEW i \in DOMAIN path, NEW j \in DOMAIN path, NEW f \in Field, NEW g \in Field,
                      <<path[i], f>> \in bound', <<path[j], g>> \in bound', KeyOf[f] = KeyOf[g]
               PROVE  i = j /\ f = g
    BY DEF PathKeys
  <2>1. PICK c \in Live(categories) : path = Path(c)
    BY <1>3 DEF Paths
  <2> DEFINE p == <<path[i], f>>
             q == <<path[j], g>>
  <2>2. p[1] = path[i] /\ p[2] = f /\ q[1] = path[j] /\ q[2] = g
    OBVIOUS
  <2>3. p \in bound' /\ q \in bound'
    OBVIOUS
  <2> HIDE DEF p, q
  <2>4. CASE p \in bound /\ q \in bound
    BY <1>3, <2>4 DEF PairsDistinct, PathKeys, p, q
  <2>5. CASE p = q \/ LetIn(F, q, p) \/ LetIn(F, p, q)
    <3>1. p = q
      BY <1>1, <2>1, <2>2, <2>3, <2>5, GateKeepsPath
    <3> QED
      BY <2>1, <2>2, <3>1, PlacesDiffer
  <2> QED
    BY <1>1, <2>3, <2>4, <2>5
<1>4. ASSUME NEW m \in Live(models)
      PROVE  DeviceKeys(bound', models, m)
  <2> SUFFICES ASSUME NEW p \in bound', NEW q \in bound', OnDevice(models, m, p),
                      OnDevice(models, m, q), KeyOf[p[2]] = KeyOf[q[2]]
               PROVE  p[2] = q[2]
    BY DEF DeviceKeys
  <2>1. p \in Target \X Field /\ q \in Target \X Field
    BY <1>1
  <2>2. m \in Model /\ models[m] \in Vendor \cup {NoVendor}
    BY LiveRows
  <2>3. p[1] \notin Category /\ q[1] \notin Category
    BY <2>1, <2>2, SchemaAssumption DEF OnDevice
  <2>4. CASE p \in bound /\ q \in bound
    BY <2>4 DEF PairsDistinct, DeviceKeys
  <2>5. CASE LetIn(F, q, p) \/ LetIn(F, p, q)
    BY <2>1, <2>2, <2>3, <2>5, GateKeepsDevice DEF OnDevice
  <2> QED
    BY <1>1, <2>4, <2>5
<1> QED
  BY <1>2, <1>3, <1>4 DEF PairsDistinct

LEMMA PairsShrunk ==
    ASSUME PairsDistinct, Shrinks
    PROVE  PairsDistinct'
<1>1. Paths' \subseteq Paths
  BY DEF Paths, Shrinks
<1>2. \A path \in Paths' : PathKeys(bound', path)
  BY <1>1 DEF PairsDistinct, PathKeys, Shrinks
<1>3. ASSUME NEW m \in Live(models)'
      PROVE  DeviceKeys(bound', models', m)
  BY <1>3 DEF PairsDistinct, DeviceKeys, OnDevice, Shrinks
<1> QED
  BY <1>2, <1>3 DEF PairsDistinct

LEMMA PairsNewCategory ==
    ASSUME BoundInv, PairsDistinct, NEW c \in Category, NEW p \in Category \cup {NoParent},
           NEW k \in Key \cup {NoKey}, CreateCategory(c, p, k)
    PROVE  PairsDistinct'
<1> USE DEF BoundInv
<1>1. bound' = bound /\ models' = models /\ Live(models)' = Live(models)
  BY DEF CreateCategory, Live
<1>2. \A q \in bound : q[1] # c
  <2>1. c \notin Targets
    BY SchemaAssumption DEF CreateCategory, Targets, Live, TypeOK
  <2> QED
    BY <2>1 DEF BoundLive
<1>3. ASSUME NEW path \in Paths'
      PROVE  path \in Paths \/ \E above \in Paths \cap Seq(Category) : path = Append(above, c)
  <2>1. PathUnder(p, c) = Append(IF p = NoParent THEN <<>> ELSE Path(p), c)
    BY DEF PathUnder, BuildPath
  <2>2. (IF p = NoParent THEN <<>> ELSE Path(p)) \in Paths
    BY DEF Paths, CreateCategory
  <2>3. (IF p = NoParent THEN <<>> ELSE Path(p)) \in Seq(Category)
    BY LiveRows DEF CreateCategory
  <2>4. CASE path = <<>>
    BY <2>4 DEF Paths
  <2>5. CASE path # <<>>
    <3>1. PICK d \in Live(categories)' : path = categories'[d].path
      BY <1>3, <2>5 DEF Paths, Path
    <3>2. CASE d = c
      <4>1. path = PathUnder(p, c)
        BY <3>1, <3>2 DEF CreateCategory, TypeOK
      <4> QED
        BY <2>1, <2>2, <2>3, <4>1
    <3>3. CASE d # c
      BY <3>1, <3>3 DEF CreateCategory, TypeOK, Live, Paths, Path
    <3> QED
      BY <3>2, <3>3
  <2> QED
    BY <2>4, <2>5
<1>4. ASSUME NEW path \in Paths'
      PROVE  PathKeys(bound, path)
  <2>1. CASE path \in Paths
    BY <2>1 DEF PairsDistinct
  <2>2. ASSUME NEW above \in Paths \cap Seq(Category), path = Append(above, c)
        PROVE  PathKeys(bound, path)
    <3>1. ASSUME NEW i \in DOMAIN path, NEW f \in Field, <<path[i], f>> \in bound
          PROVE  i \in DOMAIN above /\ path[i] = above[i]
      <4>1. <<path[i], f>>[1] = path[i]
        OBVIOUS
      <4>2. path[i] # c
        BY <1>2, <3>1, <4>1
      <4> QED
        BY <2>2, <4>2
    <3>2. PathKeys(bound, above)
      BY DEF PairsDistinct
    <3> QED
      BY <3>1, <3>2 DEF PathKeys
  <2> QED
    BY <1>3, <2>1, <2>2
<1> QED
  BY <1>1, <1>4 DEF PairsDistinct

LEMMA PairsNewModel ==
    ASSUME BoundInv, PairsDistinct, NEW m \in Model, NEW v \in Vendor \cup {NoVendor},
           CreateModel(m, v)
    PROVE  PairsDistinct'
<1> USE DEF BoundInv
<1>1. bound' = bound /\ Paths' = Paths
  BY DEF CreateModel, Paths, Live, Path
<1>2. \A p \in bound : p[1] # m
  <2>1. m \notin Targets
    BY SchemaAssumption DEF CreateModel, Targets, Live, TypeOK
  <2> QED
    BY <2>1 DEF BoundLive
<1>3. ASSUME NEW n \in Live(models)'
      PROVE  DeviceKeys(bound, models', n)
  <2>1. CASE n = m
    <3>1. models'[m] = v /\ v \notin Category
      BY SchemaAssumption DEF CreateModel, TypeOK, Target
    <3>2. \A p \in bound : OnDevice(models', m, p) => p[1] = v
      BY <1>2, <3>1 DEF OnDevice
    <3> QED
      BY <2>1, <3>1, <3>2 DEF DeviceKeys, OwnKeys
  <2>2. CASE n # m
    <3>1. n \in Live(models) /\ models'[n] = models[n]
      BY <1>3, <2>2 DEF CreateModel, TypeOK, Live
    <3> QED
      BY <3>1 DEF PairsDistinct, DeviceKeys, OnDevice
  <2> QED
    BY <2>1, <2>2
<1> QED
  BY <1>1, <1>3 DEF PairsDistinct

(* No request gives a device two fields for one key, whatever it binds,    *)
(* creates or deletes: only the move of a category or a model's change of  *)
(* vendor may, neither of which asks.                                      *)
THEOREM KeysStayDistinctAlways == Spec => KeysStayDistinct
<1>1. BoundInv /\ [Next]_vars =>
          [~ KeysDistinct' /\ KeysDistinct /\ PathsProper => CategoryMoves \/ VendorChanges]_vars
  <2> SUFFICES ASSUME BoundInv, [Next]_vars, KeysDistinct, PathsProper, ~ CategoryMoves, ~ VendorChanges
               PROVE  KeysDistinct'
    OBVIOUS
  <2>1. TypeOK' /\ SidesExclude'
    BY BoundInvStep DEF BoundInv
  <2>2. PairsDistinct
    BY KeysToPairs DEF BoundInv
  <2>3. PairsDistinct'
    BY <2>2, StepKinds, PairsShrunk, PairsBound, PairsNewCategory, PairsNewModel DEF BoundInv
  <2>4. TypeOK' /\ SidesExclude' /\ PairsDistinct' => KeysDistinct'
    BY PairsToKeys, PTL
  <2> QED
    BY <2>1, <2>3, <2>4
<1> QED
  BY <1>1, BoundInvInit, BoundInvStep, PTL DEF Spec, KeysStayDistinct

-----------------------------------------------------------------------------
(* What the tree of categories keeps                                       *)

(* A path ends in its category, behind the parent it was built on.         *)
EndsIn(path, parent, c) ==
    /\ path # <<>> /\ path[Len(path)] = c
    /\ Len(path) > 1 => path[Len(path) - 1] = parent

Rooted == \A c \in Live(categories) : EndsIn(Path(c), categories[c].parent, c)

LEMMA PathEnds ==
    ASSUME TypeOK, Rooted, NEW c \in Category, NEW p \in Live(categories) \cup {NoParent}
    PROVE  EndsIn(PathUnder(p, c), p, c)
<1> DEFINE above == IF p = NoParent THEN <<>> ELSE Path(p)
<1>1. above \in Seq(Category)
  BY LiveRows
<1>2. PathUnder(p, c) = Append(above, c)
  BY DEF PathUnder, BuildPath
<1>3. p # NoParent => above # <<>> /\ above[Len(above)] = p
  BY DEF Rooted, EndsIn
<1>4. p = NoParent => Len(above) = 0
  OBVIOUS
<1> HIDE DEF above
<1>5. /\ Len(Append(above, c)) = Len(above) + 1 /\ Append(above, c)[Len(above) + 1] = c
      /\ \A i \in 1..Len(above) : Append(above, c)[i] = above[i]
      /\ Len(above) \in Nat
  BY <1>1
<1>6. p # NoParent => Append(above, c)[Len(above)] = p
  BY <1>1, <1>3, <1>5
<1> QED
  BY <1>1, <1>2, <1>4, <1>5, <1>6 DEF EndsIn

LEMMA CategorySteps ==
    ASSUME [Next]_vars
    PROVE  \/ categories' = categories
           \/ \E c \in Category, p \in Category \cup {NoParent}, k \in Key \cup {NoKey} :
                 CreateCategory(c, p, k) \/ UpdateCategory(c, p, k)
           \/ \E c \in Category : DeleteCategory(c)
BY DEF Next, vars, CreateField, Bind, UpdateField, Unbind, UnbindDevice, DeleteFieldCheck, DeleteFieldCommit,
       DeleteFieldRefuse, CreateVendor, DeleteVendor, CreateModel, UpdateModel, DeleteModel

LEMMA RootedStep == TypeOK /\ Rooted /\ [Next]_vars => Rooted'
<1> SUFFICES ASSUME TypeOK, Rooted, [Next]_vars, NEW d \in Live(categories)'
             PROVE  EndsIn(categories'[d].path, categories'[d].parent, d)
  BY DEF Rooted, Path
<1>1. DOMAIN categories = Category
  BY DEF TypeOK
<1>2. ASSUME categories' = categories
      PROVE  EndsIn(categories'[d].path, categories'[d].parent, d)
  BY <1>2 DEF Rooted, Live, Path
<1>3. ASSUME NEW c \in Category, NEW p \in Category \cup {NoParent}, NEW k \in Key \cup {NoKey},
             CreateCategory(c, p, k)
      PROVE  EndsIn(categories'[d].path, categories'[d].parent, d)
  <2>1. categories' = [categories EXCEPT ![c] = [parent |-> p, path |-> PathUnder(p, c), display |-> k]]
    BY <1>3 DEF CreateCategory
  <2>2. CASE d = c
    <3>1. categories'[d].path = PathUnder(p, c) /\ categories'[d].parent = p
      BY <1>1, <2>1, <2>2
    <3> QED
      BY <1>3, <2>2, <3>1, PathEnds DEF CreateCategory
  <2>3. CASE d # c
    BY <1>1, <2>1, <2>3 DEF Rooted, Live, Path
  <2> QED
    BY <2>2, <2>3
<1>4. ASSUME NEW c \in Category, NEW p \in Category \cup {NoParent}, NEW k \in Key \cup {NoKey},
             UpdateCategory(c, p, k)
      PROVE  EndsIn(categories'[d].path, categories'[d].parent, d)
  <2> DEFINE path == IF p = categories[c].parent THEN Path(c) ELSE PathUnder(p, c)
  <2>1. /\ categories' = [categories EXCEPT ![c] = [parent |-> p, path |-> path, display |-> k]]
        /\ c \in Live(categories) /\ p \in Live(categories) \cup {NoParent}
    BY <1>4 DEF UpdateCategory
  <2>2. EndsIn(path, p, c)
    BY <2>1, PathEnds DEF Rooted
  <2> HIDE DEF path
  <2>3. CASE d = c
    <3>1. categories'[d].path = path /\ categories'[d].parent = p
      BY <1>1, <2>1, <2>3
    <3> QED
      BY <2>2, <2>3, <3>1
  <2>4. CASE d # c
    BY <1>1, <2>1, <2>4 DEF Rooted, Live, Path
  <2> QED
    BY <2>3, <2>4
<1>5. ASSUME NEW c \in Category, DeleteCategory(c)
      PROVE  EndsIn(categories'[d].path, categories'[d].parent, d)
  <2>1. categories' = [categories EXCEPT ![c] = Absent]
    BY <1>5 DEF DeleteCategory
  <2> QED
    BY <1>1, <2>1 DEF Rooted, Live, Path
<1>6. CASE \/ \E c \in Category, p \in Category \cup {NoParent}, k \in Key \cup {NoKey} :
                 CreateCategory(c, p, k) \/ UpdateCategory(c, p, k)
           \/ \E c \in Category : DeleteCategory(c)
  BY <1>3, <1>4, <1>5, <1>6
<1>7. CASE categories' = categories
  BY <1>2, <1>7
<1> QED
  BY <1>6, <1>7, CategorySteps

(* What is named on a path is there, and above.                            *)
LEMMA AboveOnPath ==
    ASSUME TypeOK, PathsProper, NEW c \in Live(categories), NEW d \in AncestorIDs(Path(c))
    PROVE  d \in Live(categories) /\ d \in Category /\ IsDescendantOf(Path(c), Path(d))
<1>1. PICK i \in DOMAIN Path(c) : d = Path(c)[i]
  BY DEF AncestorIDs
<1>2. d \in Live(categories) /\ Path(d) = SubSeq(Path(c), 1, i)
  BY <1>1 DEF PathsProper
<1>3. Path(c) \in Seq(Category) /\ d \in Category
  BY <1>2, LiveRows
<1>4. i \in 1..Len(Path(c)) /\ Len(Path(d)) = i
  BY <1>1, <1>2, <1>3
<1>5. SubSeq(Path(c), 1, Len(Path(d))) = Path(d)
  BY <1>2, <1>4
<1> QED
  BY <1>2, <1>3, <1>4, <1>5 DEF IsDescendantOf

(* What a path descends from, it names.                                    *)
LEMMA NamedOnPath ==
    ASSUME TypeOK, Rooted, NEW path \in Seq(Category), NEW d \in Live(categories),
           IsDescendantOf(path, Path(d))
    PROVE  d \in AncestorIDs(path)
<1> DEFINE p == Path(d)
           n == Len(p)
<1>1. p \in Seq(Category) /\ p # <<>> /\ p[n] = d
  BY LiveRows DEF Rooted, EndsIn
<1>2. n <= Len(path) /\ SubSeq(path, 1, n) = p
  BY DEF IsDescendantOf
<1> HIDE DEF p
<1>3. n \in 1..n /\ n \in DOMAIN path
  BY <1>1, <1>2
<1>4. SubSeq(path, 1, n)[n] = path[n]
  BY <1>2, <1>3
<1> QED
  BY <1>1, <1>2, <1>3, <1>4 DEF AncestorIDs

(* A category is deleted from the end of every path it is named on.        *)
LEMMA DeletedFromTheEnd ==
    ASSUME TypeOK, Rooted, PathsProper, NEW c \in Category, DeleteCategory(c),
           NEW d \in Live(categories), d # c
    PROVE  c \notin AncestorIDs(Path(d))
<1> SUFFICES ASSUME c \in AncestorIDs(Path(d))
             PROVE  FALSE
  OBVIOUS
<1>1. PICK i \in DOMAIN Path(d) : c = Path(d)[i]
  BY DEF AncestorIDs
<1>2. Path(d) \in Seq(Category) /\ Path(d)[Len(Path(d))] = d
  BY LiveRows DEF Rooted, EndsIn
<1>3. i \in 1..Len(Path(d)) /\ i # Len(Path(d)) /\ Len(Path(d)) \in Nat
  BY <1>1, <1>2
<1>4. i + 1 \in DOMAIN Path(d) /\ i \in Nat \ {0}
  BY <1>2, <1>3
<1> DEFINE e == Path(d)[i + 1]
<1>5. e \in Live(categories) /\ Path(e) = SubSeq(Path(d), 1, i + 1)
  BY <1>4 DEF PathsProper
<1>6. Len(SubSeq(Path(d), 1, i + 1)) = i + 1 /\ SubSeq(Path(d), 1, i + 1)[i] = Path(d)[i]
  BY <1>2, <1>3, <1>4
<1>7. Len(Path(e)) = i + 1 /\ Path(e)[i] = c
  BY <1>1, <1>5, <1>6
<1>8. Len(Path(e)) > 1 /\ Len(Path(e)) - 1 = i
  BY <1>4, <1>7
<1>9. categories[e].parent = c
  BY <1>5, <1>7, <1>8 DEF Rooted, EndsIn
<1> QED
  BY <1>5, <1>9 DEF DeleteCategory

(* Only fields of the library are bound.                                   *)
FieldsLive == \A p \in bound : fields[p[2]] # Absent

LEMMA FieldsLiveStep == TypeOK /\ FieldsLive /\ [Next]_vars => FieldsLive'
<1> SUFFICES ASSUME TypeOK, FieldsLive, [Next]_vars, NEW p \in bound'
             PROVE  fields'[p[2]] # Absent
  BY DEF FieldsLive
<1>1. DOMAIN fields = Field /\ \A q \in bound : q[2] \in Field
  BY DEF TypeOK
<1>2. ASSUME fields' = fields, bound' \subseteq bound
      PROVE  fields'[p[2]] # Absent
  BY <1>2 DEF FieldsLive
<1>3. ASSUME NEW F, NEW fs, NEW ts, MayBindAll(F, fs, ts), bound' = bound \cup AllPairs(fs, ts), fields' = F,
             \A g \in Field : fields[g] # Absent => F[g] # Absent
      PROVE  fields'[p[2]] # Absent
  BY <1>1, <1>3 DEF MayBindAll, AllPairs, FieldsLive
<1>4. ASSUME NEW ts \in TargetSets, NEW f \in Field, NEW required \in BOOLEAN,
             NEW reads \in Template \cup {{}}, CreateField(f, required, reads, ts)
      PROVE  fields'[p[2]] # Absent
  <2> DEFINE F == [fields EXCEPT ![f] = [required |-> required, reads |-> reads]]
  <2>1. MayBindAll(F, <<f>>, ts) /\ bound' = bound \cup AllPairs(<<f>>, ts) /\ fields' = F /\ fields[f] = Absent
    BY <1>4 DEF CreateField
  <2>2. \A g \in Field : fields[g] # Absent => F[g] # Absent
    BY <1>1, <2>1
  <2> QED
    BY <1>3, <2>1, <2>2
<1>5. ASSUME NEW ts \in TargetSets, NEW fs \in Batches, Bind(fs, ts)
      PROVE  fields'[p[2]] # Absent
  BY <1>3, <1>5 DEF Bind
<1>6. ASSUME NEW f \in Field, NEW required \in BOOLEAN, NEW reads \in Template \cup {{}},
             UpdateField(f, required, reads)
      PROVE  fields'[p[2]] # Absent
  <2>1. [required |-> required, reads |-> reads] # Absent
    BY SchemaAssumption DEF FieldRow
  <2>2. bound' = bound /\ fields' = [fields EXCEPT ![f] = [required |-> required, reads |-> reads]]
    BY <1>6 DEF UpdateField
  <2> QED
    BY <1>1, <2>1, <2>2 DEF FieldsLive
<1>7. CASE DeleteFieldCommit
  BY <1>1, <1>7 DEF DeleteFieldCommit, FieldsLive
<1>8. ASSUME NEW f \in Field,
             \/ \E c \in Category : Unbind(c, f)
             \/ \E t \in Model \cup Vendor : UnbindDevice(t, f)
             \/ DeleteFieldCheck(f)
      PROVE  fields'[p[2]] # Absent
  BY <1>2, <1>8 DEF Unbind, UnbindDevice, DeleteFieldCheck
<1> QED
  BY <1>2, <1>4, <1>5, <1>6, <1>7, <1>8
     DEF Next, vars, DeleteFieldRefuse, CreateCategory, UpdateCategory, DeleteCategory, CreateVendor,
         DeleteVendor, CreateModel, UpdateModel, DeleteModel

SchemaInv == BoundInv /\ FieldsLive /\ Rooted

LEMMA SchemaInvInit == Init => SchemaInv
BY BoundInvInit DEF Init, SchemaInv, FieldsLive, Rooted, Live

LEMMA SchemaInvStep == SchemaInv /\ [Next]_vars => SchemaInv'
BY BoundInvStep, FieldsLiveStep, RootedStep DEF SchemaInv, BoundInv

(* How a category loses a field.                                           *)
LEMMA LostByCategory ==
    ASSUME TypeOK, [Next]_vars, NEW c \in Category, NEW f \in Field, <<c, f>> \in bound, <<c, f>> \notin bound'
    PROVE  \/ Unbind(c, f)
           \/ DeleteFieldCommit /\ f = deleting
           \/ DeleteCategory(c)
<1>1. c \notin Model /\ c \notin Vendor
  BY SchemaAssumption
<1>2. ASSUME bound \subseteq bound'
      PROVE  FALSE
  BY <1>2
<1>3. ASSUME NEW d \in Category, NEW g \in Field, Unbind(d, g)
      PROVE  Unbind(c, f)
  BY <1>3 DEF Unbind
<1>4. ASSUME NEW t \in Model \cup Vendor, NEW g \in Field, UnbindDevice(t, g)
      PROVE  FALSE
  BY <1>1, <1>4 DEF UnbindDevice
<1>5. CASE DeleteFieldCommit
  BY <1>5 DEF DeleteFieldCommit
<1>6. ASSUME NEW d \in Category, DeleteCategory(d)
      PROVE  DeleteCategory(c)
  <2>1. c = d
    BY <1>6 DEF DeleteCategory
  <2> QED
    BY <1>6, <2>1
<1>7. ASSUME NEW v \in Vendor, DeleteVendor(v)
      PROVE  FALSE
  BY <1>1, <1>7 DEF DeleteVendor
<1>8. ASSUME NEW m \in Model, DeleteModel(m)
      PROVE  FALSE
  BY <1>1, <1>8 DEF DeleteModel
<1> QED
  BY <1>2, <1>3, <1>4, <1>5, <1>6, <1>7, <1>8
     DEF Next, vars, CreateField, Bind, UpdateField, DeleteFieldCheck, DeleteFieldRefuse, CreateCategory,
         UpdateCategory, CreateVendor, CreateModel, UpdateModel

-----------------------------------------------------------------------------
(* What a category is shown by                                             *)

Named(b, path, k) ==
    \E f \in Field, d \in AncestorIDs(path) : <<d, f>> \in b /\ KeyOf[f] = k /\ f \in Unique

LEMMA DisplayStep ==
    ASSUME SchemaInv, [Next]_vars, DisplayKeysUsable, PathsProper, ~ CategoryMoves, ~ StaleDeletion
    PROVE  DisplayKeysUsable'
<1> USE DEF SchemaInv, BoundInv
<1>1. \A c \in Live(categories) :
          categories[c].display # NoKey => Named(bound, Path(c), categories[c].display)
  BY DEF DisplayKeysUsable, Resolve, Named
<1> SUFFICES ASSUME NEW c \in Live(categories)', categories'[c].display # NoKey
             PROVE  Named(bound', categories'[c].path, categories'[c].display)
  BY SchemaAssumption DEF DisplayKeysUsable, Resolve, Named, AncestorIDs, Path
<1> DEFINE key == categories'[c].display
<1>2. DOMAIN categories = Category
  BY DEF TypeOK
<1>3. ASSUME c \in Live(categories), categories'[c].path = Path(c), key = categories[c].display
      PROVE  Named(bound', categories'[c].path, key)
  <2>1. PICK f \in Field, d \in AncestorIDs(Path(c)) : <<d, f>> \in bound /\ KeyOf[f] = key /\ f \in Unique
    BY <1>1, <1>3 DEF Named
  <2>2. d \in Live(categories) /\ d \in Category /\ IsDescendantOf(Path(c), Path(d))
    BY <1>3, <2>1, AboveOnPath
  <2>3. ASSUME Unbind(d, f)
        PROVE  FALSE
    <3>1. c \in Near(d)
      BY <1>3, <2>2 DEF Near, OnOneChain
    <3> QED
      BY <1>3, <2>1, <2>3, <3>1 DEF Unbind, UnbindSafe
  <2>4. ASSUME DeleteFieldCommit, f = deleting
        PROVE  FALSE
    <3>1. fields[f] # Absent /\ fields'[f] = Absent
      BY <2>1, <2>4 DEF FieldsLive, DeleteFieldCommit, TypeOK
    <3>2. CategoriesUsingDisplayKey(f) = {}
      BY <3>1 DEF StaleDeletion, Live, TypeOK
    <3>3. Path(d) \in BoundPaths(f)
      BY <2>1, <2>2 DEF BoundPaths, BoundTo
    <3>4. c \in CategoriesUsingDisplayKey(f)
      BY <1>3, <2>1, <2>2, <3>3 DEF CategoriesUsingDisplayKey, InScope, OnOneChain
    <3> QED
      BY <3>2, <3>4
  <2>5. ASSUME DeleteCategory(d)
        PROVE  FALSE
    <3>1. c # d
      BY <1>2, <2>2, <2>5 DEF DeleteCategory, Live
    <3> QED
      BY <1>3, <2>1, <2>2, <2>5, <3>1, DeletedFromTheEnd
  <2>6. <<d, f>> \in bound'
    BY <2>1, <2>2, <2>3, <2>4, <2>5, LostByCategory
  <2> QED
    BY <1>3, <2>1, <2>6 DEF Named
<1>4. ASSUME NEW path \in Seq(Category), ValidDisplayKey(path, key), bound' = bound, categories'[c].path = path
      PROVE  Named(bound', categories'[c].path, key)
  <2>1. PICK f \in BoundOnChain(bound, path) : KeyOf[f] = key /\ f \in Unique
    BY <1>4 DEF ValidDisplayKey
  <2>2. PICK d \in Live(categories) : <<d, f>> \in bound /\ IsDescendantOf(path, Path(d))
    BY <2>1 DEF BoundOnChain
  <2>3. d \in AncestorIDs(path)
    BY <2>2, NamedOnPath
  <2> QED
    BY <1>4, <2>1, <2>2, <2>3 DEF Named, BoundOnChain
<1>5. CASE categories' = categories
  BY <1>3, <1>5 DEF Live, Path
<1>6. ASSUME NEW d \in Category, NEW p \in Category \cup {NoParent}, NEW k \in Key \cup {NoKey},
             CreateCategory(d, p, k)
      PROVE  Named(bound', categories'[c].path, key)
  <2>1. /\ categories' = [categories EXCEPT ![d] = [parent |-> p, path |-> PathUnder(p, d), display |-> k]]
        /\ ValidDisplayKey(PathUnder(p, d), k) /\ bound' = bound /\ PathUnder(p, d) \in Seq(Category)
    BY <1>6, PathTyped DEF CreateCategory
  <2>2. CASE c = d
    <3>1. categories'[c].path = PathUnder(p, d) /\ key = k
      BY <1>2, <2>1, <2>2
    <3> QED
      BY <1>4, <2>1, <3>1
  <2>3. CASE c # d
    BY <1>2, <1>3, <2>1, <2>3 DEF Live, Path
  <2> QED
    BY <2>2, <2>3
<1>7. ASSUME NEW d \in Category, NEW p \in Category \cup {NoParent}, NEW k \in Key \cup {NoKey},
             UpdateCategory(d, p, k)
      PROVE  Named(bound', categories'[c].path, key)
  <2> DEFINE path == IF p = categories[d].parent THEN Path(d) ELSE PathUnder(p, d)
  <2>1. /\ categories' = [categories EXCEPT ![d] = [parent |-> p, path |-> path, display |-> k]]
        /\ ValidDisplayKey(path, k) /\ bound' = bound
    BY <1>7 DEF UpdateCategory
  <2>2. path \in Seq(Category)
    BY <1>7, PathTyped, LiveRows DEF UpdateCategory
  <2> HIDE DEF path
  <2>3. CASE c = d
    <3>1. categories'[c].path = path /\ key = k
      BY <1>2, <2>1, <2>3
    <3> QED
      BY <1>4, <2>1, <2>2, <3>1
  <2>4. CASE c # d
    BY <1>2, <1>3, <2>1, <2>4 DEF Live, Path
  <2> QED
    BY <2>3, <2>4
<1>8. ASSUME NEW d \in Category, DeleteCategory(d)
      PROVE  Named(bound', categories'[c].path, key)
  BY <1>2, <1>3, <1>8 DEF DeleteCategory, Live, Path
<1> QED
  BY <1>5, <1>6, <1>7, <1>8, CategorySteps

(* No binding that is taken away, no field and no category that is deleted *)
(* leaves a category without the key it is shown by: it takes a move, or   *)
(* a deletion that was checked too early.                                  *)
THEOREM DisplayKeysAlwaysUsable == Spec => DisplayKeysStayUsable
<1>1. SchemaInv /\ [Next]_vars =>
          [~ DisplayKeysUsable' /\ DisplayKeysUsable /\ PathsProper => CategoryMoves \/ StaleDeletion]_vars
  BY DisplayStep
<1> QED
  BY <1>1, SchemaInvInit, SchemaInvStep, PTL DEF Spec, DisplayKeysStayUsable

-----------------------------------------------------------------------------
(* What computed fields read                                               *)

(* A field table and a library over it in which no key has two meanings.   *)
Library(F, lib) ==
    /\ F \in [Field -> FieldRow \cup {Absent}]
    /\ lib \in Libraries(F)
    /\ \A f, g \in Live(F) : KeyOf[f] = KeyOf[g] /\ f # g => f \notin Computed /\ g \notin Computed

LEMMA OnlyReader ==
    ASSUME NEW F, NEW lib, Library(F, lib), NEW f \in Live(F) \cap Computed
    PROVE  KeyOf[f] \in DOMAIN lib /\ lib[KeyOf[f]] = f /\ ReadBy(F, lib, KeyOf[f]) = F[f].reads
<1>1. DOMAIN lib = { KeyOf[g] : g \in Live(F) } /\ \A k \in DOMAIN lib : lib[k] \in Live(F) /\ KeyOf[lib[k]] = k
  BY DEF Library, Libraries
<1>2. KeyOf[f] \in DOMAIN lib
  BY <1>1
<1>3. lib[KeyOf[f]] = f
  BY <1>1, <1>2 DEF Library
<1> QED
  BY <1>2, <1>3 DEF ReadBy

LEMMA ReadsTyped ==
    ASSUME NEW F, NEW lib, Library(F, lib), NEW k
    PROVE  ReadBy(F, lib, k) \subseteq Key
<1>1. ASSUME k \in DOMAIN lib
      PROVE  F[lib[k]].reads \subseteq Key
  BY <1>1 DEF Library, Libraries, Live, FieldRow
<1> QED
  BY <1>1 DEF ReadBy

(* The closure has what the field reads, and what that reads.              *)
LEMMA ClosureIsClosed ==
    ASSUME NEW F, NEW lib, Library(F, lib), NEW k
    PROVE  /\ ReadBy(F, lib, k) \subseteq DependencyClosure(F, lib, k)
           /\ \A e \in DependencyClosure(F, lib, k) : ReadBy(F, lib, e) \subseteq DependencyClosure(F, lib, k)
<1>1. \A e : ReadBy(F, lib, e) \subseteq Key
  BY ReadsTyped
<1>2. ReadBy(F, lib, k) \subseteq DependencyClosure(F, lib, k)
  BY <1>1 DEF DependencyClosure
<1>3. ASSUME NEW e \in DependencyClosure(F, lib, k), NEW d \in ReadBy(F, lib, e)
      PROVE  d \in DependencyClosure(F, lib, k)
  <2>1. d \in Key
    BY <1>1
  <2>2. ASSUME NEW D \in SUBSET Key, ReadBy(F, lib, k) \subseteq D, \A x \in D : ReadBy(F, lib, x) \subseteq D
        PROVE  d \in D
    BY <1>3, <2>2 DEF DependencyClosure
  <2> QED
    BY <2>1, <2>2 DEF DependencyClosure
<1> QED
  BY <1>2, <1>3

(* Computed fields have an order if the walk from one of them meets no     *)
(* circle.                                                                 *)
LEMMA NoCircle ==
    ASSUME NEW F, NEW lib, Library(F, lib), NEW S \in SUBSET (Live(F) \cap Computed), NEW f \in S,
           ~ HasCycle(F, lib, KeyOf[f])
    PROVE  \E g \in S : F[g].reads \cap Keys(S) = {}
<1> SUFFICES ASSUME \A g \in S : F[g].reads \cap Keys(S) # {}
             PROVE  HasCycle(F, lib, KeyOf[f])
  OBVIOUS
<1> DEFINE k == KeyOf[f]
           reach == {k} \cup DependencyClosure(F, lib, k)
           T == Keys(S) \cap reach
<1>1. k \in T
  BY DEF Keys
<1>2. ASSUME NEW d \in T
      PROVE  ReadBy(F, lib, d) \cap T # {}
  <2>1. PICK g \in S : KeyOf[g] = d
    BY <1>2 DEF Keys
  <2>2. ReadBy(F, lib, d) = F[g].reads
    BY <2>1, OnlyReader
  <2>3. PICK e \in F[g].reads : e \in Keys(S)
    BY <2>1
  <2>4. ReadBy(F, lib, d) \subseteq DependencyClosure(F, lib, k)
    BY <1>2, ClosureIsClosed
  <2> QED
    BY <2>2, <2>3, <2>4
<1> HIDE DEF T
<1>3. T \in SUBSET reach
  BY DEF T
<1> QED
  BY <1>1, <1>2, <1>3 DEF HasCycle

(* InputsBound, for the fields of one path.                                *)
Given(F, b, path) ==
    \A f \in Resolve(b, path) \cap Computed : F[f].reads \subseteq Keys(Resolve(b, path))
Ordered(F, b, path) ==
    \A S \in SUBSET (Resolve(b, path) \cap Computed) :
        S # {} => \E f \in S : F[f].reads \cap Keys(S) = {}
Asked(F, b, path) ==
    \A f \in Resolve(b, path) \cap Computed, g \in Resolve(b, path) \ Computed :
        KeyOf[g] \in F[f].reads => F[g].required

Sound(F, b, path) == Given(F, b, path) /\ Ordered(F, b, path) /\ Asked(F, b, path)

LEMMA SoundNow == InputsBound => \A c \in Live(categories) : Sound(fields, bound, Path(c))
<1> SUFFICES ASSUME InputsBound, NEW c \in Live(categories)
             PROVE  Sound(fields, bound, Path(c))
  OBVIOUS
<1> DEFINE fs == Resolve(bound, Path(c))
<1>1. /\ Computable(fs, Keys(fs))
      /\ \A f \in fs \cap Computed, g \in fs \ Computed : KeyOf[g] \in fields[f].reads => fields[g].required
  BY DEF InputsBound
<1>2. Keys(fs \cap Computed) \subseteq Keys(fs)
  BY DEF Keys
<1> HIDE DEF fs
<1>3. /\ \A f \in fs \cap Computed : fields[f].reads \subseteq Keys(fs)
      /\ \A S \in SUBSET (fs \cap Computed) : S # {} => \E f \in S : fields[f].reads \cap Keys(S) = {}
  BY <1>1, <1>2 DEF Computable
<1> QED
  BY <1>1, <1>3 DEF fs, Sound, Given, Ordered, Asked

LEMMA SoundNext ==
    ASSUME \A c \in Live(categories)' : Sound(fields', bound', categories'[c].path)
    PROVE  InputsBound'
<1>1. ASSUME NEW c \in Live(categories)', NEW fs, fs = Resolve(bound', categories'[c].path)
      PROVE  /\ Computable(fs, Keys(fs))'
             /\ \A f \in fs \cap Computed, g \in fs \ Computed :
                   KeyOf[g] \in fields'[f].reads => fields'[g].required
  <2>1. Sound(fields', bound', categories'[c].path)
    OBVIOUS
  <2>2. /\ \A f \in fs \cap Computed : fields'[f].reads \subseteq Keys(fs)
        /\ \A S \in SUBSET (fs \cap Computed) : S # {} => \E f \in S : fields'[f].reads \cap Keys(S) = {}
        /\ \A f \in fs \cap Computed, g \in fs \ Computed : KeyOf[g] \in fields'[f].reads => fields'[g].required
    BY <1>1, <2>1 DEF Sound, Given, Ordered, Asked
  <2> QED
    BY <2>2 DEF Computable
<1>2. ASSUME NEW c \in Live(categories)'
      PROVE  Resolve(bound, Path(c))' = Resolve(bound', categories'[c].path)
  BY DEF Path, Resolve, AncestorIDs
<1> QED
  BY <1>1, <1>2 DEF InputsBound

(* What a category has on its chain, those below it have too.              *)
LEMMA ChainBelow ==
    ASSUME TypeOK, Rooted, PathsProper, NEW c \in Live(categories), NEW u \in AncestorIDs(Path(c)),
           NEW B, NEW f \in BoundOnChain(B, Path(u))
    PROVE  f \in Resolve(B, Path(c))
<1>1. PICK i \in DOMAIN Path(c) : u = Path(c)[i]
  BY DEF AncestorIDs
<1>2. u \in Live(categories) /\ Path(u) = SubSeq(Path(c), 1, i)
  BY <1>1 DEF PathsProper
<1>3. Path(c) \in Seq(Category) /\ Path(u) \in Seq(Category)
  BY <1>2, LiveRows
<1>4. PICK e \in Live(categories) : <<e, f>> \in B /\ IsDescendantOf(Path(u), Path(e))
  BY DEF BoundOnChain
<1>5. e \in AncestorIDs(Path(u))
  BY <1>3, <1>4, NamedOnPath
<1>6. AncestorIDs(Path(u)) \subseteq AncestorIDs(Path(c))
  <2>1. \A j \in 1..i : j \in DOMAIN Path(c) /\ SubSeq(Path(c), 1, i)[j] = Path(c)[j]
    BY <1>1, <1>3
  <2>2. DOMAIN SubSeq(Path(c), 1, i) = 1..i
    BY <1>1, <1>3
  <2> QED
    BY <1>2, <2>1, <2>2 DEF AncestorIDs
<1> QED
  BY <1>4, <1>5, <1>6 DEF Resolve, BoundOnChain

(* The gate has let f onto a category of the path, in the presence of no   *)
(* more than b.                                                            *)
Passed(F, b, c, f) ==
    \E u \in AncestorIDs(Path(c)), B \in SUBSET b : DepsMet(F, B, Path(u), KeyOf[f])

(* Table F, in which the fields news read other than before, and bindings  *)
(* b, which are those there were and more.                                 *)
Grown(F, b, c, news) ==
    /\ F \in [Field -> FieldRow \cup {Absent}]
    /\ \A f, g \in Live(F) : KeyOf[f] = KeyOf[g] /\ f # g => f \notin Computed /\ g \notin Computed
    /\ \A p \in b : F[p[2]] # Absent
    /\ bound \subseteq b /\ Resolvable(b, Path(c))
    /\ \A f \in Resolve(b, Path(c)) \cap Computed :
          IF f \in news THEN Passed(F, b, c, f)
          ELSE f \in Resolve(bound, Path(c)) /\ F[f].reads = fields[f].reads
    /\ \A f \in Live(fields) : fields[f].required => F[f].required

LEMMA GateKeepsSound ==
    ASSUME SchemaInv, PathsProper, NEW c \in Live(categories), NEW F, NEW b, NEW news,
           Grown(F, b, c, news), Sound(fields, bound, Path(c))
    PROVE  Sound(F, b, Path(c))
<1> USE DEF SchemaInv, BoundInv
<1> DEFINE fs == Resolve(b, Path(c))
           old == Resolve(bound, Path(c))
<1>1. /\ fs \subseteq Live(F) /\ fs \subseteq Field
      /\ old \subseteq Live(fields) /\ old \subseteq fs
  <2>1. DOMAIN F = Field /\ DOMAIN fields = Field
    BY DEF Grown, TypeOK
  <2>2. \A d, f : <<d, f>> \in b => F[f] # Absent
    BY DEF Grown
  <2>3. \A d, f : <<d, f>> \in bound => fields[f] # Absent
    BY DEF FieldsLive
  <2> QED
    BY <2>1, <2>2, <2>3 DEF Resolve, Live, Grown
<1>2. ASSUME NEW f \in fs, NEW g \in fs, KeyOf[f] = KeyOf[g]
      PROVE  f = g
  <2>1. PICK i \in DOMAIN Path(c) : <<Path(c)[i], f>> \in b
    BY DEF Resolve, AncestorIDs
  <2>2. PICK j \in DOMAIN Path(c) : <<Path(c)[j], g>> \in b
    BY DEF Resolve, AncestorIDs
  <2> QED
    BY <1>1, <1>2, <2>1, <2>2 DEF Grown, Resolvable
<1>3. ASSUME NEW f \in fs \cap Computed, f \in news
      PROVE  \E lib :
                /\ Library(F, lib) /\ ~ HasCycle(F, lib, KeyOf[f])
                /\ \A d \in F[f].reads : \E h \in fs :
                      KeyOf[h] = d /\ (lib[d] \in Computed \/ F[h].required) /\ d \in DOMAIN lib
  <2>1. PICK u \in AncestorIDs(Path(c)), B \in SUBSET b : DepsMet(F, B, Path(u), KeyOf[f])
    BY <1>3 DEF Grown, Passed
  <2>2. PICK lib \in Libraries(F) :
            /\ ~ HasCycle(F, lib, KeyOf[f])
            /\ \A d \in DependencyClosure(F, lib, KeyOf[f]) :
                  /\ d \in DOMAIN lib
                  /\ \E h \in BoundOnChain(B, Path(u)) :
                        KeyOf[h] = d /\ (lib[d] \in Computed \/ F[h].required)
    BY <2>1 DEF DepsMet
  <2>3. Library(F, lib)
    BY DEF Library, Grown
  <2>4. F[f].reads \subseteq DependencyClosure(F, lib, KeyOf[f])
    BY <1>1, <2>3, OnlyReader, ClosureIsClosed
  <2>5. \A h \in BoundOnChain(B, Path(u)) : h \in fs
    <3>1. ASSUME NEW h \in BoundOnChain(B, Path(u))
          PROVE  h \in Resolve(B, Path(c))
      BY <2>1, ChainBelow
    <3>2. Resolve(B, Path(c)) \subseteq fs
      BY <2>1 DEF Resolve
    <3> QED
      BY <3>1, <3>2
  <2> QED
    BY <2>2, <2>3, <2>4, <2>5
<1>4. ASSUME NEW f \in fs \cap Computed, f \notin news
      PROVE  f \in old \cap Computed /\ F[f].reads = fields[f].reads
  BY <1>4 DEF Grown
<1>5. Given(F, b, Path(c))
  <2> SUFFICES ASSUME NEW f \in fs \cap Computed
               PROVE  F[f].reads \subseteq Keys(fs)
    BY DEF Given
  <2>1. CASE f \in news
    BY <1>3, <2>1 DEF Keys
  <2>2. CASE f \notin news
    <3>1. fields[f].reads \subseteq Keys(old)
      BY <1>4, <2>2 DEF Sound, Given
    <3>2. Keys(old) \subseteq Keys(fs)
      BY <1>1 DEF Keys
    <3> QED
      BY <1>4, <2>2, <3>1, <3>2
  <2> QED
    BY <2>1, <2>2
<1>6. Ordered(F, b, Path(c))
  <2> SUFFICES ASSUME NEW S \in SUBSET (fs \cap Computed), S # {}
               PROVE  \E f \in S : F[f].reads \cap Keys(S) = {}
    BY DEF Ordered
  <2>1. ASSUME NEW f \in S, f \in news
        PROVE  \E g \in S : F[g].reads \cap Keys(S) = {}
    <3>1. PICK lib : Library(F, lib) /\ ~ HasCycle(F, lib, KeyOf[f])
      BY <1>3, <2>1
    <3>2. S \in SUBSET (Live(F) \cap Computed)
      BY <1>1
    <3> QED
      BY <3>1, <3>2, NoCircle
  <2>2. ASSUME \A f \in S : f \notin news
        PROVE  \E g \in S : F[g].reads \cap Keys(S) = {}
    <3>1. S \in SUBSET (old \cap Computed) /\ \A f \in S : F[f].reads = fields[f].reads
      BY <1>4, <2>2
    <3>2. \E g \in S : fields[g].reads \cap Keys(S) = {}
      BY <3>1 DEF Sound, Ordered
    <3> QED
      BY <3>1, <3>2
  <2> QED
    BY <2>1, <2>2
<1>7. Asked(F, b, Path(c))
  <2> SUFFICES ASSUME NEW f \in fs \cap Computed, NEW g \in fs \ Computed, KeyOf[g] \in F[f].reads
               PROVE  F[g].required
    BY DEF Asked
  <2>1. CASE f \in news
    <3>1. PICK lib :
              /\ Library(F, lib)
              /\ \A d \in F[f].reads : \E h \in fs :
                    KeyOf[h] = d /\ (lib[d] \in Computed \/ F[h].required) /\ d \in DOMAIN lib
      BY <1>3, <2>1
    <3>2. PICK h \in fs : KeyOf[h] = KeyOf[g] /\ (lib[KeyOf[g]] \in Computed \/ F[h].required)
                          /\ KeyOf[g] \in DOMAIN lib
      BY <3>1
    <3>3. h = g
      BY <1>2, <3>2
    <3>4. lib[KeyOf[g]] \notin Computed
      <4>1. lib[KeyOf[g]] \in Live(F) /\ KeyOf[lib[KeyOf[g]]] = KeyOf[g]
        BY <3>1, <3>2 DEF Library, Libraries
      <4> QED
        BY <1>1, <3>1, <4>1 DEF Library
    <3> QED
      BY <3>2, <3>3, <3>4
  <2>2. CASE f \notin news
    <3>1. f \in old \cap Computed /\ KeyOf[g] \in fields[f].reads
      BY <1>4, <2>2
    <3>2. PICK h \in old : KeyOf[h] = KeyOf[g]
      BY <3>1 DEF Sound, Given, Keys
    <3>3. h = g
      BY <1>1, <1>2, <3>2
    <3>4. fields[g].required
      BY <3>1, <3>2, <3>3 DEF Sound, Asked
    <3> QED
      BY <1>1, <3>2, <3>3, <3>4 DEF Grown
  <2> QED
    BY <2>1, <2>2
<1> QED
  BY <1>5, <1>6, <1>7 DEF Sound

LEMMA NewlyBoundPassed ==
    ASSUME TypeOK, NEW F, NEW fs, NEW ts, Binds(F, fs, ts), NEW u \in Category, NEW f \in Field \cap Computed,
           <<u, f>> \in bound', <<u, f>> \notin bound
    PROVE  \E B \in SUBSET bound' : DepsMet(F, B, Path(u), KeyOf[f])
<1>1. bound' = bound \cup AllPairs(fs, ts)
  BY DEF Binds
<1>2. PICK t \in ts, i \in DOMAIN fs : <<u, f>> = <<t, fs[i]>>
  BY <1>1 DEF AllPairs
<1>3. u \in ts /\ f = fs[i]
  BY <1>2
<1> DEFINE B == bound \cup { <<v, fs[j]>> : v \in ts, j \in 1..(i - 1) } \cup { <<v, fs[i]>> : v \in ts \ {u} }
<1>4. MayBind(F, B, u, fs[i])
  BY <1>3 DEF Binds, MayBindAll
<1>5. MayBindCategory(F, B, u, f)
  BY <1>3, <1>4, SchemaAssumption DEF MayBind
<1>6. DepsMet(F, B, Path(u), KeyOf[f])
  BY <1>5 DEF MayBindCategory
<1>7. \A j \in 1..(i - 1) : j \in DOMAIN fs
  BY DEF Binds, Request
<1>8. B \in SUBSET bound'
  BY <1>1, <1>3, <1>7 DEF AllPairs
<1> QED
  BY <1>6, <1>8

LEMMA BoundSound ==
    ASSUME SchemaInv, SchemaInv', InputsBound, OneMeaning', KeysDistinct, PathsProper,
           NEW fs, NEW ts, Binds(fields', fs, ts), \A g \in Live(fields) : fields'[g] = fields[g],
           NEW c \in Live(categories)
    PROVE  Sound(fields', bound', Path(c))
<1> USE DEF SchemaInv, BoundInv
<1> DEFINE news == { f \in Field : f \notin Resolve(bound, Path(c)) }
<1>1. bound' = bound \cup AllPairs(fs, ts) /\ categories' = categories
  BY DEF Binds
<1>2. PairsDistinct'
  BY KeysToPairs, PairsBound
<1>3. Resolvable(bound', Path(c))
  <2>1. Path(c) \in Paths'
    BY <1>1 DEF Paths, Live, Path
  <2> QED
    BY <1>2, <2>1 DEF PairsDistinct, PathKeys, Resolvable
<1>4. fields' \in [Field -> FieldRow \cup {Absent}] /\ \A p \in bound' : fields'[p[2]] # Absent
  BY DEF TypeOK, FieldsLive
<1>5. ASSUME NEW f \in Resolve(bound', Path(c)) \cap Computed, f \in news
      PROVE  Passed(fields', bound', c, f)
  <2>1. PICK u \in AncestorIDs(Path(c)) : <<u, f>> \in bound'
    BY DEF Resolve
  <2>2. <<u, f>> \notin bound /\ f \in Field
    BY <1>5, <2>1 DEF Resolve
  <2>3. u \in Category
    BY <2>1, AboveOnPath
  <2> QED
    BY <2>1, <2>2, <2>3, NewlyBoundPassed DEF Passed
<1>6. ASSUME NEW f \in Resolve(bound', Path(c)), f \notin news
      PROVE  f \in Resolve(bound, Path(c)) /\ fields'[f].reads = fields[f].reads
  <2>1. f \in Resolve(bound, Path(c)) /\ f \in Field
    BY <1>6 DEF Resolve
  <2>2. \A d \in AncestorIDs(Path(c)) : <<d, f>> \in bound => fields[f] # Absent
    BY DEF FieldsLive
  <2>3. f \in Live(fields)
    BY <2>1, <2>2 DEF Resolve, Live, TypeOK
  <2> QED
    BY <2>1, <2>3
<1> HIDE DEF news
<1>7. Grown(fields', bound', c, news)
  <2>1. \A f, g \in Live(fields') : KeyOf[f] = KeyOf[g] /\ f # g => f \notin Computed /\ g \notin Computed
    BY DEF OneMeaning, Live
  <2>2. \A f \in Live(fields) : fields[f].required => fields'[f].required
    OBVIOUS
  <2> QED
    BY <1>1, <1>3, <1>4, <1>5, <1>6, <2>1, <2>2 DEF Grown
<1> QED
  BY <1>7, SoundNow, GateKeepsSound

(* A rule that is changed is checked where the field is bound.             *)
LEMMA UpdatedSound ==
    ASSUME SchemaInv, SchemaInv', InputsBound, OneMeaning', KeysDistinct, PathsProper, ~ RequiredDropped,
           NEW f \in Field, NEW required \in BOOLEAN, NEW reads \in Template \cup {{}},
           UpdateField(f, required, reads), NEW c \in Live(categories)
    PROVE  Sound(fields', bound', Path(c))
<1> USE DEF SchemaInv, BoundInv
<1> DEFINE news == IF reads = fields[f].reads THEN {} ELSE {f}
<1>1. /\ fields' = [fields EXCEPT ![f] = [required |-> required, reads |-> reads]] /\ bound' = bound
      /\ reads # fields[f].reads =>
            \A u \in BoundTo(bound, Category, f) : DepsMet(fields', bound, Path(u), KeyOf[f])
  BY DEF UpdateField
<1>2. Resolvable(bound', Path(c))
  BY <1>1 DEF KeysDistinct
<1>3. fields' \in [Field -> FieldRow \cup {Absent}] /\ \A p \in bound' : fields'[p[2]] # Absent
  BY DEF TypeOK, FieldsLive
<1>4. ASSUME NEW g \in Resolve(bound', Path(c)), g \in news
      PROVE  Passed(fields', bound', c, g)
  <2>1. g = f /\ reads # fields[f].reads
    BY <1>4
  <2>2. PICK u \in AncestorIDs(Path(c)) : <<u, f>> \in bound
    BY <1>1, <2>1 DEF Resolve
  <2>3. u \in BoundTo(bound, Category, f)
    BY <2>2, AboveOnPath DEF BoundTo
  <2> QED
    BY <1>1, <2>1, <2>2, <2>3 DEF Passed
<1>5. ASSUME NEW g \in Resolve(bound', Path(c)), g \notin news
      PROVE  g \in Resolve(bound, Path(c)) /\ fields'[g].reads = fields[g].reads
  <2>1. g \in Field
    BY DEF Resolve
  <2>2. DOMAIN fields = Field
    BY DEF TypeOK
  <2>3. CASE g = f
    BY <1>1, <1>5, <2>2, <2>3
  <2>4. CASE g # f
    BY <1>1, <2>1, <2>2, <2>4
  <2> QED
    BY <2>3, <2>4
<1>6. \A g \in Live(fields) : fields[g].required => fields'[g].required
  <2>1. [required |-> required, reads |-> reads] # Absent
    BY SchemaAssumption DEF FieldRow
  <2>2. \A g \in Live(fields) : fields'[g] # Absent
    BY <1>1, <2>1 DEF Live, TypeOK
  <2> QED
    BY <2>2 DEF RequiredDropped
<1> HIDE DEF news
<1>7. Grown(fields', bound', c, news)
  <2>1. \A g, h \in Live(fields') : KeyOf[g] = KeyOf[h] /\ g # h => g \notin Computed /\ h \notin Computed
    BY DEF OneMeaning, Live
  <2> QED
    BY <1>1, <1>2, <1>3, <1>4, <1>5, <1>6, <2>1 DEF Grown
<1> QED
  BY <1>7, SoundNow, GateKeepsSound

(* No field goes whose key another one on the chain still reads.           *)
LEMMA LostIsUnread ==
    ASSUME SchemaInv, OneMeaning, PathsProper, [Next]_vars, ~ StaleDeletion, bound' \subseteq bound,
           NEW c \in Live(categories), c \in Live(categories)',
           NEW g \in Resolve(bound', Path(c)) \cap Computed,
           NEW h \in Resolve(bound, Path(c)), h \notin Resolve(bound', Path(c))
    PROVE  KeyOf[h] \notin fields[g].reads
<1> USE DEF SchemaInv, BoundInv
<1> SUFFICES ASSUME KeyOf[h] \in fields[g].reads
             PROVE  FALSE
  OBVIOUS
<1>1. PICK d \in AncestorIDs(Path(c)) : <<d, h>> \in bound
  BY DEF Resolve
<1>2. <<d, h>> \notin bound' /\ h \in Field
  BY <1>1 DEF Resolve
<1>3. PICK e \in AncestorIDs(Path(c)) : <<e, g>> \in bound'
  BY DEF Resolve
<1>4. <<e, g>> \in bound /\ g \in Field /\ g # h
  BY <1>3 DEF Resolve
<1>5. d \in Live(categories) /\ d \in Category /\ e \in Live(categories) /\ e \in Category
  BY <1>1, <1>3, AboveOnPath
<1>6. fields[g] # Absent /\ fields[h] # Absent /\ g \in Live(fields) /\ h \in Live(fields)
  <2>1. <<e, g>>[2] = g /\ <<d, h>>[2] = h
    OBVIOUS
  <2>2. fields[g] # Absent /\ fields[h] # Absent
    BY <1>1, <1>4, <2>1 DEF FieldsLive
  <2> QED
    BY <1>2, <1>4, <2>2 DEF Live, TypeOK
<1>7. OnOneChain(Path(d), Path(e))
  <2>1. PICK i \in DOMAIN Path(c) : Path(c)[i] = d
    BY <1>1 DEF AncestorIDs
  <2>2. PICK j \in DOMAIN Path(c) : Path(c)[j] = e
    BY <1>3 DEF AncestorIDs
  <2>3. Path(d) = SubSeq(Path(c), 1, i) /\ Path(e) = SubSeq(Path(c), 1, j)
    BY <2>1, <2>2 DEF PathsProper
  <2> QED
    BY <2>3, LiveRows, PrefixesOnOneChain
<1>8. ASSUME Unbind(d, h)
      PROVE  FALSE
  <2>1. PICK lib \in Libraries(fields) :
            \A f \in Computed \ {h} : BoundTo(bound, Near(d), f) # {} =>
                KeyOf[h] \notin DependencyClosure(fields, lib, KeyOf[f])
    BY <1>8 DEF Unbind, UnbindSafe
  <2>2. e \in BoundTo(bound, Near(d), g)
    BY <1>4, <1>5, <1>7 DEF BoundTo, Near
  <2>3. KeyOf[h] \notin DependencyClosure(fields, lib, KeyOf[g])
    BY <1>4, <2>1, <2>2
  <2>4. Library(fields, lib)
    BY DEF Library, OneMeaning, TypeOK
  <2>5. fields[g].reads \subseteq DependencyClosure(fields, lib, KeyOf[g])
    BY <1>6, <2>4, OnlyReader, ClosureIsClosed
  <2> QED
    BY <2>3, <2>5
<1>9. ASSUME DeleteFieldCommit, h = deleting
      PROVE  FALSE
  <2>1. fields'[h] = Absent
    BY <1>2, <1>9 DEF DeleteFieldCommit, TypeOK
  <2>2. ReferrersOf(h) = {}
    BY <1>6, <2>1 DEF StaleDeletion
  <2>3. KeyOf[g] # KeyOf[h]
    BY <1>4, <1>6 DEF OneMeaning
  <2>4. Path(d) \in BoundPaths(h)
    BY <1>1, <1>5 DEF BoundPaths, BoundTo
  <2>5. e \in BoundTo(bound, Category, g) /\ InScope(BoundPaths(h), Path(e))
    BY <1>4, <1>5, <1>7, <2>4 DEF BoundTo, InScope
  <2>6. g \in ReferrersOf(h)
    BY <1>6, <2>3, <2>4, <2>5 DEF ReferrersOf
  <2> QED
    BY <2>2, <2>6
<1>10. ASSUME DeleteCategory(d)
       PROVE  FALSE
  <2>1. c # d
    BY <1>5, <1>10 DEF DeleteCategory, Live, TypeOK
  <2> QED
    BY <1>1, <1>5, <1>10, <2>1, DeletedFromTheEnd
<1> QED
  BY <1>1, <1>2, <1>5, <1>8, <1>9, <1>10, LostByCategory

LEMMA ShrunkSound ==
    ASSUME SchemaInv, SchemaInv', InputsBound, OneMeaning, PathsProper, [Next]_vars, ~ StaleDeletion,
           bound' \subseteq bound, \A g \in Live(fields) : fields'[g] \in {fields[g], Absent},
           NEW c \in Live(categories), c \in Live(categories)'
    PROVE  Sound(fields', bound', Path(c))
<1> USE DEF SchemaInv, BoundInv
<1> DEFINE fs == Resolve(bound', Path(c))
           old == Resolve(bound, Path(c))
<1>1. fs \subseteq old
  BY DEF Resolve
<1>2. ASSUME NEW f \in fs
      PROVE  fields'[f] = fields[f]
  <2>1. PICK d \in AncestorIDs(Path(c)) : <<d, f>> \in bound'
    BY DEF Resolve
  <2>2. <<d, f>>[2] = f /\ <<d, f>> \in bound
    BY <2>1
  <2>3. fields'[f] # Absent /\ fields[f] # Absent
    BY <2>1, <2>2 DEF FieldsLive
  <2>4. f \in Live(fields)
    BY <2>3 DEF Resolve, Live, TypeOK
  <2> QED
    BY <2>3, <2>4
<1>3. Sound(fields, bound, Path(c))
  BY SoundNow
<1>4. Given(fields', bound', Path(c))
  <2> SUFFICES ASSUME NEW g \in fs \cap Computed, NEW k \in fields[g].reads
               PROVE  k \in Keys(fs)
    BY <1>2 DEF Given
  <2>1. PICK h \in old : KeyOf[h] = k
    BY <1>1, <1>3 DEF Sound, Given, Keys
  <2>2. h \in fs
    BY <2>1, LostIsUnread
  <2> QED
    BY <2>1, <2>2 DEF Keys
<1>5. Ordered(fields', bound', Path(c))
  <2> SUFFICES ASSUME NEW S \in SUBSET (fs \cap Computed), S # {}
               PROVE  \E f \in S : fields'[f].reads \cap Keys(S) = {}
    BY DEF Ordered
  <2>1. \E f \in S : fields[f].reads \cap Keys(S) = {}
    BY <1>1, <1>3 DEF Sound, Ordered
  <2>2. \A f \in S : fields'[f].reads = fields[f].reads
    BY <1>2
  <2> QED
    BY <2>1, <2>2
<1>6. Asked(fields', bound', Path(c))
  <2> SUFFICES ASSUME NEW f \in fs \cap Computed, NEW g \in fs \ Computed, KeyOf[g] \in fields'[f].reads
               PROVE  fields'[g].required
    BY DEF Asked
  <2>1. fields[g].required
    BY <1>1, <1>2, <1>3 DEF Sound, Asked
  <2> QED
    BY <1>2, <2>1
<1> QED
  BY <1>4, <1>5, <1>6 DEF Sound

(* A new category asks for what its parent asks for.                       *)
LEMMA NewCategorySound ==
    ASSUME SchemaInv, InputsBound, NEW c \in Category, NEW p \in Category \cup {NoParent},
           NEW k \in Key \cup {NoKey}, CreateCategory(c, p, k)
    PROVE  Sound(fields', bound', PathUnder(p, c))
<1> USE DEF SchemaInv, BoundInv
<1> DEFINE above == IF p = NoParent THEN <<>> ELSE Path(p)
<1>1. fields' = fields /\ bound' = bound /\ categories[c] = Absent /\ p \in Live(categories) \cup {NoParent}
  BY DEF CreateCategory
<1>2. PathUnder(p, c) = Append(above, c) /\ above \in Seq(Category)
  BY <1>1, LiveRows DEF PathUnder, BuildPath
<1>3. \A f : <<c, f>> \notin bound
  <2>1. c \notin Targets
    BY <1>1, SchemaAssumption DEF Targets, Live, TypeOK
  <2> QED
    BY <2>1 DEF BoundLive
<1>4. AncestorIDs(PathUnder(p, c)) = AncestorIDs(above) \cup {c}
  <2> HIDE DEF above
  <2>1. /\ DOMAIN Append(above, c) = DOMAIN above \cup {Len(above) + 1}
        /\ Append(above, c)[Len(above) + 1] = c
        /\ \A i \in DOMAIN above : Append(above, c)[i] = above[i]
    BY <1>2
  <2> QED
    BY <1>2, <2>1 DEF AncestorIDs
<1>5. Resolve(bound, PathUnder(p, c)) = Resolve(bound, above)
  BY <1>3, <1>4 DEF Resolve
<1>6. Sound(fields, bound, above)
  <2>1. CASE p = NoParent
    <3>1. Resolve(bound, above) = {}
      BY <2>1 DEF Resolve, AncestorIDs
    <3> QED
      BY <3>1 DEF Sound, Given, Ordered, Asked
  <2>2. CASE p # NoParent
    BY <1>1, <2>2, SoundNow
  <2> QED
    BY <2>1, <2>2
<1> HIDE DEF above
<1> QED
  BY <1>1, <1>5, <1>6 DEF Sound, Given, Ordered, Asked

LEMMA InputsStep ==
    ASSUME SchemaInv, SchemaInv', [Next]_vars, InputsBound, OneMeaning, OneMeaning', KeysDistinct, PathsProper,
           ~ CategoryMoves, ~ RequiredDropped, ~ StaleDeletion
    PROVE  InputsBound'
<1> USE DEF SchemaInv, BoundInv
<1> SUFFICES ASSUME NEW c \in Live(categories)'
             PROVE  Sound(fields', bound', categories'[c].path)
  BY SoundNext
<1>1. DOMAIN categories = Category /\ DOMAIN fields = Field
  BY DEF TypeOK
<1>2. ASSUME c \in Live(categories), categories'[c].path = Path(c), bound' \subseteq bound,
             \A g \in Live(fields) : fields'[g] \in {fields[g], Absent}
      PROVE  Sound(fields', bound', categories'[c].path)
  BY <1>2, ShrunkSound
<1>3. ASSUME categories' = categories, bound' \subseteq bound, fields' = fields
      PROVE  Sound(fields', bound', categories'[c].path)
  BY <1>2, <1>3 DEF Live, Path
<1>4. ASSUME NEW ts \in TargetSets, NEW f \in Field \ Live(fields), NEW required \in BOOLEAN,
             NEW reads \in Template \cup {{}}, CreateField(f, required, reads, ts)
      PROVE  Sound(fields', bound', categories'[c].path)
  <2>1. Binds(fields', <<f>>, ts) /\ categories' = categories
    BY <1>4, CreateRequest DEF CreateField, Binds
  <2>2. \A g \in Live(fields) : fields'[g] = fields[g]
    BY <1>1, <1>4 DEF CreateField, Live
  <2>3. c \in Live(categories) /\ categories'[c].path = Path(c)
    BY <2>1 DEF Live, Path
  <2>4. Sound(fields', bound', Path(c))
    BY <2>1, <2>2, <2>3, BoundSound
  <2> QED
    BY <2>3, <2>4
<1>5. ASSUME NEW ts \in TargetSets, NEW fs \in Batches, Bind(fs, ts)
      PROVE  Sound(fields', bound', categories'[c].path)
  <2>1. Binds(fields', fs, ts) /\ categories' = categories /\ fields' = fields
    BY <1>5, BindRequest DEF Bind, Binds
  <2>2. c \in Live(categories) /\ categories'[c].path = Path(c)
    BY <2>1 DEF Live, Path
  <2>3. Sound(fields', bound', Path(c))
    BY <2>1, <2>2, BoundSound
  <2> QED
    BY <2>2, <2>3
<1>6. ASSUME NEW f \in Field, NEW required \in BOOLEAN, NEW reads \in Template \cup {{}},
             UpdateField(f, required, reads)
      PROVE  Sound(fields', bound', categories'[c].path)
  <2>1. c \in Live(categories) /\ categories'[c].path = Path(c)
    BY <1>6 DEF UpdateField, Live, Path
  <2>2. Sound(fields', bound', Path(c))
    BY <1>6, <2>1, UpdatedSound
  <2> QED
    BY <2>1, <2>2
<1>7. ASSUME NEW f \in Field,
             \/ \E d \in Category : Unbind(d, f)
             \/ \E t \in Model \cup Vendor : UnbindDevice(t, f)
             \/ DeleteFieldCheck(f)
      PROVE  Sound(fields', bound', categories'[c].path)
  BY <1>3, <1>7 DEF Unbind, UnbindDevice, DeleteFieldCheck
<1>8. CASE DeleteFieldCommit
  <2>1. \A g \in Live(fields) : fields'[g] \in {fields[g], Absent}
    BY <1>1, <1>8 DEF DeleteFieldCommit, Live
  <2>2. c \in Live(categories) /\ categories'[c].path = Path(c) /\ bound' \subseteq bound
    BY <1>8 DEF DeleteFieldCommit, Live, Path
  <2> QED
    BY <1>2, <2>1, <2>2
<1>9. ASSUME NEW d \in Category, NEW p \in Category \cup {NoParent}, NEW k \in Key \cup {NoKey},
             CreateCategory(d, p, k)
      PROVE  Sound(fields', bound', categories'[c].path)
  <2>1. /\ categories' = [categories EXCEPT ![d] = [parent |-> p, path |-> PathUnder(p, d), display |-> k]]
        /\ bound' = bound /\ fields' = fields
    BY <1>9 DEF CreateCategory
  <2>2. CASE c = d
    <3>1. categories'[c].path = PathUnder(p, d)
      BY <1>1, <2>1, <2>2
    <3> QED
      BY <1>9, <3>1, NewCategorySound
  <2>3. CASE c # d
    BY <1>1, <1>2, <2>1, <2>3 DEF Live, Path
  <2> QED
    BY <2>2, <2>3
<1>10. ASSUME NEW d \in Category, NEW p \in Category \cup {NoParent}, NEW k \in Key \cup {NoKey},
              UpdateCategory(d, p, k)
       PROVE  Sound(fields', bound', categories'[c].path)
  <2>1. c \in Live(categories)
    BY <1>1, <1>10 DEF UpdateCategory, Live
  <2>2. categories'[c] # Absent /\ categories'[c].path = Path(c)
    BY <2>1 DEF CategoryMoves, Live
  <2> QED
    BY <1>2, <1>10, <2>1, <2>2 DEF UpdateCategory
<1>11. ASSUME NEW d \in Category, DeleteCategory(d)
       PROVE  Sound(fields', bound', categories'[c].path)
  <2>1. c \in Live(categories) /\ categories'[c].path = Path(c)
    BY <1>1, <1>11 DEF DeleteCategory, Live, Path
  <2> QED
    BY <1>2, <1>11, <2>1 DEF DeleteCategory
<1>12. ASSUME NEW v \in Vendor, CreateVendor(v) \/ DeleteVendor(v)
       PROVE  Sound(fields', bound', categories'[c].path)
  BY <1>3, <1>12 DEF CreateVendor, DeleteVendor
<1>13. ASSUME NEW m \in Model, DeleteModel(m) \/ \E v \in Vendor \cup {NoVendor} : CreateModel(m, v) \/ UpdateModel(m, v)
       PROVE  Sound(fields', bound', categories'[c].path)
  BY <1>3, <1>13 DEF CreateModel, UpdateModel, DeleteModel
<1>14. CASE DeleteFieldRefuse \/ UNCHANGED vars
  BY <1>3, <1>14 DEF DeleteFieldRefuse, vars
<1> QED
  BY <1>4, <1>5, <1>6, <1>7, <1>8, <1>9, <1>10, <1>11, <1>12, <1>13, <1>14 DEF Next

(* deps.go: what the computed fields of a category read is bound on its    *)
(* chain, required, and can be put in order, whatever is bound, in batches *)
(* too, unbound, given another rule, created or deleted.                   *)
THEOREM InputsAlwaysBound == Spec => InputsStayBound
<1>1. SchemaInv /\ SchemaInv' /\ [Next]_vars =>
          [~ InputsBound' /\ InputsBound /\ OneMeaning /\ OneMeaning' /\ KeysDistinct /\ PathsProper =>
              CategoryMoves \/ RequiredDropped \/ StaleDeletion]_vars
  BY InputsStep
<1> QED
  BY <1>1, SchemaInvInit, SchemaInvStep, PTL DEF Spec, InputsStayBound
=============================================================================
