------------------------- MODULE HolderTree_proofs -------------------------
(***************************************************************************)
(* Theorems about the tree of companies, departments and locations, for    *)
(* any number of entities, of overlapping requests and of assets, and any  *)
(* tree an older release may have left.                                    *)
(***************************************************************************)
EXTENDS HolderTree, TLAPS

-----------------------------------------------------------------------------
(* Type correctness                                                        *)

(* An entity that is there has a row.                                      *)
LEMMA LiveRow ==
    ASSUME TypeOK, NEW e \in Live
    PROVE  /\ e \in Entities /\ entities[e] \in Row
           /\ entities[e].type \in EntityTypes
           /\ entities[e].parent \in Entities \cup {NoParent}
BY DEF TypeOK, Live, Row

(* Only these steps write the table.                                       *)
LEMMA TableSteps ==
    ASSUME [Next]_vars
    PROVE  \/ \E h \in Handlers, e \in Entities : CreateCommit(h, e)
           \/ \E h \in Handlers : UpdateCommit(h) \/ DeleteCommit(h)
           \/ \E e \in Entities : SetDefaultStock(e)
           \/ UNCHANGED entities
BY DEF Next, vars, CreateCheck, UpdateLook, UpdateRename, UpdateMove, UpdateClimb, DeleteLook,
       DeleteCountAssets, DeleteCountChildren, Refuse, Name, Unname

(* What a handler holds says which request it is in.                       *)
LEMMA JobOfKind ==
    ASSUME TypeOK, NEW h \in Handlers
    PROVE  /\ Holds(h, "create") => job[h] \in Creating
           /\ Holds(h, "look") => job[h] \in Looking
           /\ Holds(h, "climb") => job[h] \in Climbing
           /\ Holds(h, "update") => job[h] \in Updating
           /\ Holds(h, "assets") \/ Holds(h, "children") \/ Holds(h, "delete") =>
                 job[h] \in Doomed
BY DEF TypeOK, Holds, Job, Creating, Looking, Climbing, Updating, Doomed

LEMMA TypeInit == Init => TypeOK
BY FoundingAssumption DEF Init, TypeOK

LEMMA TypeStep == TypeOK /\ [Next]_vars => TypeOK'
<1> SUFFICES ASSUME TypeOK, [Next]_vars
             PROVE  TypeOK'
  OBVIOUS
<1>1. entities' \in [Entities -> Row \cup {Unborn, Deleted}]
  <2>1. ASSUME NEW h \in Handlers, NEW e \in Entities, CreateCommit(h, e)
        PROVE  entities' \in [Entities -> Row \cup {Unborn, Deleted}]
    <3>1. job[h] \in Creating
      BY <2>1, JobOfKind DEF CreateCommit
    <3>2. [ type |-> job[h].type, parent |-> StoredParent(job[h].parent), isDefault |-> FALSE ]
            \in Row
      BY <3>1 DEF Creating, Row, Parents, StoredParent
    <3> QED
      BY <2>1, <3>2 DEF CreateCommit, TypeOK
  <2>2. ASSUME NEW h \in Handlers, UpdateCommit(h)
        PROVE  entities' \in [Entities -> Row \cup {Unborn, Deleted}]
    <3>1. job[h] \in Updating /\ job[h].id \in Entities
          /\ StoredParent(job[h].parent) \in Entities \cup {NoParent}
      BY <2>2, JobOfKind DEF UpdateCommit, Updating, Parents, StoredParent
    <3>2. ASSUME NEW e \in Live, NEW p \in Entities \cup {NoParent}
          PROVE  [entities EXCEPT ![e].parent = p] \in [Entities -> Row \cup {Unborn, Deleted}]
      BY LiveRow DEF TypeOK, Row
    <3> QED
      BY <2>2, <3>1, <3>2 DEF UpdateCommit, TypeOK
  <2>3. ASSUME NEW h \in Handlers, DeleteCommit(h)
        PROVE  entities' \in [Entities -> Row \cup {Unborn, Deleted}]
    BY <2>3 DEF DeleteCommit, TypeOK
  <2>4. ASSUME NEW e \in Entities, SetDefaultStock(e)
        PROVE  entities' \in [Entities -> Row \cup {Unborn, Deleted}]
    <3>1. \A f \in Live : [entities[f] EXCEPT !.isDefault = (f = e)] \in Row
      BY LiveRow DEF Row
    <3> QED
      BY <2>4, <3>1 DEF SetDefaultStock, Marked, TypeOK
  <2> QED
    BY <2>1, <2>2, <2>3, <2>4, TableSteps DEF TypeOK
<1>2. named' \in [Assets -> [Columns -> Entities \cup {Elsewhere}]]
  <2>1. ASSUME NEW a \in Assets, NEW c \in Columns, NEW e \in Entities, Name(a, c, e)
        PROVE  named' \in [Assets -> [Columns -> Entities \cup {Elsewhere}]]
    BY <2>1 DEF Name, TypeOK
  <2>2. ASSUME NEW a \in Assets, NEW c \in Columns, Unname(a, c)
        PROVE  named' \in [Assets -> [Columns -> Entities \cup {Elsewhere}]]
    BY <2>2 DEF Unname, TypeOK
  <2>3. CASE UNCHANGED named
    BY <2>3 DEF TypeOK
  <2> QED
    BY <2>1, <2>2, <2>3
    DEF Next, vars, CreateCheck, CreateCommit, UpdateLook, UpdateRename, UpdateMove, UpdateClimb,
        UpdateCommit, DeleteLook, DeleteCountAssets, DeleteCountChildren, DeleteCommit, Refuse,
        SetDefaultStock
<1>3. job' \in [Handlers -> Job \cup {Idle}]
  <2>1. ASSUME NEW h \in Handlers, NEW type \in EntityTypes, NEW p \in Parents,
               CreateCheck(h, type, p)
        PROVE  job' \in [Handlers -> Job \cup {Idle}]
    BY <2>1 DEF CreateCheck, TypeOK, Job, Creating
  <2>2. ASSUME NEW h \in Handlers, NEW e \in Entities, UpdateLook(h, e)
        PROVE  job' \in [Handlers -> Job \cup {Idle}]
    BY <2>2, LiveRow DEF UpdateLook, TypeOK, Job, Looking
  <2>3. ASSUME NEW h \in Handlers, UpdateRename(h)
        PROVE  job' \in [Handlers -> Job \cup {Idle}]
    BY <2>3, JobOfKind DEF UpdateRename, TypeOK, Job, Looking, Updating, Parents
  <2>4. ASSUME NEW h \in Handlers, NEW p \in Parents, UpdateMove(h, p)
        PROVE  job' \in [Handlers -> Job \cup {Idle}]
    <3>1. job[h] \in Looking
      BY <2>4, JobOfKind DEF UpdateMove
    <3>2. /\ p \in Entities => [op |-> "climb", id |-> job[h].id, parent |-> p, at |-> p] \in Job
          /\ [op |-> "update", id |-> job[h].id, parent |-> p] \in Job
      BY <3>1 DEF Job, Looking, Climbing, Updating
    <3> QED
      BY <2>4, <3>2 DEF UpdateMove, TypeOK
  <2>5. ASSUME NEW h \in Handlers, NEW e \in Entities, DeleteLook(h, e)
        PROVE  job' \in [Handlers -> Job \cup {Idle}]
    BY <2>5 DEF DeleteLook, TypeOK, Job, Doomed
  <2>6. ASSUME NEW h \in Handlers, DeleteCountAssets(h) \/ DeleteCountChildren(h)
        PROVE  job' \in [Handlers -> Job \cup {Idle}]
    BY <2>6, JobOfKind DEF DeleteCountAssets, DeleteCountChildren, TypeOK, Job, Doomed
  <2>9. ASSUME NEW h \in Handlers, UpdateClimb(h)
        PROVE  job' \in [Handlers -> Job \cup {Idle}]
    <3> DEFINE up == IF job[h].at \in Live THEN entities[job[h].at].parent ELSE NoParent
    <3>1. job[h] \in Climbing /\ up \in Entities \cup {NoParent}
      BY <2>9, JobOfKind, LiveRow DEF UpdateClimb
    <3>2. up # NoParent => [job[h] EXCEPT !.at = up] \in Job
      BY <3>1 DEF Job, Climbing
    <3>3. [op |-> "update", id |-> job[h].id, parent |-> job[h].parent] \in Job
      BY <3>1 DEF Job, Climbing, Updating, Parents
    <3> HIDE DEF up
    <3>4. job' = [job EXCEPT ![h] =
              IF job[h].at = job[h].id THEN Idle
              ELSE IF up = NoParent
              THEN [op |-> "update", id |-> job[h].id, parent |-> job[h].parent]
              ELSE [job[h] EXCEPT !.at = up]]
      BY <2>9 DEF UpdateClimb, up
    <3> QED
      BY <3>2, <3>3, <3>4 DEF TypeOK
  <2>7. ASSUME NEW h \in Handlers, Idles(h)
        PROVE  job' \in [Handlers -> Job \cup {Idle}]
    BY <2>7 DEF Idles, TypeOK
  <2>8. CASE UNCHANGED job
    BY <2>8 DEF TypeOK
  <2> QED
    BY <2>1, <2>2, <2>3, <2>4, <2>5, <2>6, <2>7, <2>8, <2>9
    DEF Next, vars, CreateCommit, UpdateCommit, DeleteCommit, Refuse, SetDefaultStock, Name, Unname
<1> QED
  BY <1>1, <1>2, <1>3 DEF TypeOK

(* The table, the names assets carry and the requests in hand keep their   *)
(* types; in particular a parent_id of "" is never stored.                 *)
THEOREM HolderTypeCorrect == Spec => []TypeOK
BY TypeInit, TypeStep, PTL DEF Spec

-----------------------------------------------------------------------------
(* The default stock point                                                 *)

LEMMA DefaultInit == Init => DefaultStockIsOneLocation
BY FoundingAssumption DEF Init, DefaultStockIsOneLocation, Live

LEMMA DefaultStep ==
    TypeOK /\ DefaultStockIsOneLocation /\ [Next]_vars => DefaultStockIsOneLocation'
<1> SUFFICES ASSUME TypeOK, DefaultStockIsOneLocation, [Next]_vars
             PROVE  DefaultStockIsOneLocation'
  OBVIOUS
(* It is enough that the entities marked after the step were marked before *)
(* it, and are what they were.                                             *)
<1>1. ASSUME \A e \in Live' : entities'[e].isDefault =>
                e \in Live /\ entities[e].isDefault /\ entities'[e].type = entities[e].type
      PROVE  DefaultStockIsOneLocation'
  BY <1>1 DEF DefaultStockIsOneLocation
<1>2. ASSUME NEW h \in Handlers, NEW e \in Entities, CreateCommit(h, e)
      PROVE  DefaultStockIsOneLocation'
  BY <1>1, <1>2 DEF CreateCommit, TypeOK, Live
<1>3. ASSUME NEW h \in Handlers, UpdateCommit(h)
      PROVE  DefaultStockIsOneLocation'
  <2>1. ASSUME NEW e \in Live, NEW p, NEW f \in Entities,
               entities' = [entities EXCEPT ![e].parent = p]
        PROVE  /\ f \in Live' => f \in Live
               /\ f \in Live => /\ entities'[f].isDefault = entities[f].isDefault
                                /\ entities'[f].type = entities[f].type
    BY <2>1, LiveRow DEF TypeOK, Live, Row
  <2> QED
    BY <1>1, <1>3, <2>1 DEF UpdateCommit, Live
<1>4. ASSUME NEW h \in Handlers, DeleteCommit(h)
      PROVE  DefaultStockIsOneLocation'
  BY <1>1, <1>4 DEF DeleteCommit, TypeOK, Live
<1>5. ASSUME NEW e \in Entities, SetDefaultStock(e)
      PROVE  DefaultStockIsOneLocation'
  <2>1. ASSUME NEW f \in Live'
        PROVE  f \in Live /\ entities'[f].type = entities[f].type
               /\ entities'[f].isDefault = (f = e)
    BY <1>5, LiveRow DEF SetDefaultStock, Marked, TypeOK, Live, Row
  <2>2. entities[e].type = "location"
    BY <1>5 DEF SetDefaultStock, MayBeMarked
  <2> QED
    BY <2>1, <2>2 DEF DefaultStockIsOneLocation
<1>6. CASE UNCHANGED entities
  BY <1>6 DEF DefaultStockIsOneLocation, Live
<1> QED
  BY <1>2, <1>3, <1>4, <1>5, <1>6, TableSteps

(* There is never a second default stock point, and it is never anything   *)
(* but a location.                                                         *)
THEOREM OneDefaultStock == Spec => []DefaultStockIsOneLocation
BY TypeInit, TypeStep, DefaultInit, DefaultStep, PTL DEF Spec

-----------------------------------------------------------------------------
(* The tree                                                                *)

(* What TreeIsProper asks of an entity that hangs from a parent, and what  *)
(* a check made in the past still guarantees of the two: the kinds fit as  *)
(* long as the parent is there, and an id once used stays used.            *)
Suits(type, p) ==
    /\ p \in Entities => entities[p] # Unborn
    /\ p \in Live => entities[p].type \in allowedParents[type]

(* An entity may be without a parent when its kind needs none or when it   *)
(* was so from the start.                                                  *)
MayStandAlone(e, type) == type \notin parentRequired \/ e \in Legacy

(* What a request may hold between its check and its write.                *)
CheckHolds(h) ==
    /\ Holds(h, "create") =>
          /\ Suits(job[h].type, job[h].parent)
          /\ job[h].parent \in {NoParent, Blank} => job[h].type \notin parentRequired
    /\ Holds(h, "look") =>
          /\ entities[job[h].id] # Unborn
          /\ job[h].id \in Live => entities[job[h].id].type = job[h].type
          /\ Suits(job[h].type, job[h].parent)
          /\ job[h].parent = NoParent => MayStandAlone(job[h].id, job[h].type)
    /\ Holds(h, "climb") \/ Holds(h, "update") =>
          /\ entities[job[h].id] # Unborn
          /\ job[h].id \in Live =>
                /\ Suits(entities[job[h].id].type, job[h].parent)
                /\ job[h].parent \in {NoParent, Blank} =>
                      MayStandAlone(job[h].id, entities[job[h].id].type)

ChecksHold == \A h \in Handlers : CheckHolds(h)

(* An id once used stays used, and an entity keeps its kind: Update does   *)
(* not write it.                                                           *)
LEMMA KindsStay ==
    ASSUME TypeOK, [Next]_vars, NEW e \in Entities, entities[e] # Unborn
    PROVE  /\ entities'[e] # Unborn
           /\ e \in Live' => e \in Live /\ entities'[e].type = entities[e].type
<1>1. ASSUME NEW h \in Handlers, NEW f \in Entities, CreateCommit(h, f)
      PROVE  entities'[e] = entities[e]
  BY <1>1 DEF CreateCommit, TypeOK
<1>2. ASSUME NEW h \in Handlers, UpdateCommit(h)
      PROVE  \/ entities'[e] = entities[e]
             \/ e \in Live /\ entities'[e] \in Row /\ entities'[e].type = entities[e].type
  <2>1. StoredParent(job[h].parent) \in Entities \cup {NoParent}
    BY <1>2, JobOfKind DEF UpdateCommit, Updating, Parents, StoredParent
  <2>2. ASSUME NEW f \in Live, NEW p \in Entities \cup {NoParent},
               entities' = [entities EXCEPT ![f].parent = p]
        PROVE  \/ entities'[e] = entities[e]
               \/ e \in Live /\ entities'[e] \in Row /\ entities'[e].type = entities[e].type
    BY <2>2, LiveRow DEF TypeOK, Row
  <2> QED
    BY <1>2, <2>1, <2>2 DEF UpdateCommit
<1>3. ASSUME NEW h \in Handlers, DeleteCommit(h)
      PROVE  entities'[e] = entities[e] \/ entities'[e] = Deleted
  BY <1>3 DEF DeleteCommit, TypeOK
<1>4. ASSUME NEW f \in Entities, SetDefaultStock(f)
      PROVE  \/ entities'[e] = entities[e]
             \/ e \in Live /\ entities'[e] \in Row /\ entities'[e].type = entities[e].type
  BY <1>4, LiveRow DEF SetDefaultStock, Marked, TypeOK, Row
<1>5. CASE UNCHANGED entities
  BY <1>5 DEF Live
<1> QED
  BY <1>1, <1>2, <1>3, <1>4, <1>5, TableSteps, MarkersAssumption DEF Live

LEMMA SuitsStay ==
    ASSUME TypeOK, [Next]_vars, NEW type, NEW p, Suits(type, p)
    PROVE  Suits(type, p)'
<1>1. p \in Live' => p \in Entities
  BY DEF Live
<1> QED
  BY <1>1, KindsStay DEF Suits

(* What checkParent admits suits, and may stand alone when it stands alone.*)
LEMMA FitsSuits ==
    ASSUME NEW type, NEW p, ParentFits(type, p)
    PROVE  /\ Suits(type, p)
           /\ p \in {NoParent, Blank} => type \notin parentRequired
BY MarkersAssumption DEF ParentFits, Suits, Live

(* A check still holds as far as it can be relied on while other requests  *)
(* go on ...                                                               *)
LEMMA ChecksStay ==
    ASSUME TypeOK, ChecksHold, [Next]_vars, NEW h \in Handlers, job'[h] = job[h]
    PROVE  CheckHolds(h)'
<1> DEFINE j == job[h]
<1>1. /\ Holds(h, "create")' => Holds(h, "create")
      /\ Holds(h, "look")' => Holds(h, "look")
      /\ Holds(h, "climb")' => Holds(h, "climb")
      /\ Holds(h, "update")' => Holds(h, "update")
  BY DEF Holds
<1>2. CASE Holds(h, "create")
  <2>1. Suits(j.type, j.parent) /\ (j.parent \in {NoParent, Blank} => j.type \notin parentRequired)
    BY <1>2 DEF ChecksHold, CheckHolds
  <2>2. ASSUME NEW t, NEW p, Suits(t, p)
        PROVE  Suits(t, p)'
    BY <2>2, SuitsStay
  <2> QED
    BY <1>2, <2>1, <2>2 DEF CheckHolds, Holds, Suits
<1>3. CASE Holds(h, "look")
  <2>1. /\ j.id \in Entities /\ entities[j.id] # Unborn
        /\ j.id \in Live => entities[j.id].type = j.type
        /\ Suits(j.type, j.parent)
        /\ j.parent = NoParent => MayStandAlone(j.id, j.type)
    BY <1>3, JobOfKind DEF ChecksHold, CheckHolds, Looking
  <2>2. /\ entities'[j.id] # Unborn
        /\ j.id \in Live' => j.id \in Live /\ entities'[j.id].type = entities[j.id].type
    BY <2>1, KindsStay
  <2>3. ASSUME NEW t, NEW p, Suits(t, p)
        PROVE  Suits(t, p)'
    BY <2>3, SuitsStay
  <2> QED
    BY <1>3, <2>1, <2>2, <2>3 DEF CheckHolds, Holds, Suits
<1>4. CASE Holds(h, "climb") \/ Holds(h, "update")
  <2>1. /\ j.id \in Entities /\ entities[j.id] # Unborn
        /\ j.id \in Live =>
              /\ Suits(entities[j.id].type, j.parent)
              /\ j.parent \in {NoParent, Blank} => MayStandAlone(j.id, entities[j.id].type)
    BY <1>4, JobOfKind DEF ChecksHold, CheckHolds, Climbing, Updating
  <2>2. /\ entities'[j.id] # Unborn
        /\ j.id \in Live' => j.id \in Live /\ entities'[j.id].type = entities[j.id].type
    BY <2>1, KindsStay
  <2>3. ASSUME NEW t, NEW p, Suits(t, p)
        PROVE  Suits(t, p)'
    BY <2>3, SuitsStay
  <2> QED
    BY <1>4, <2>1, <2>2, <2>3 DEF CheckHolds, Holds, Suits
<1> QED
  BY <1>1, <1>2, <1>3, <1>4 DEF CheckHolds

(* ... and is established by the step that makes it.                       *)
LEMMA ChecksStep ==
    TypeOK /\ TreeIsProper /\ ChecksHold /\ [Next]_vars => ChecksHold'
<1> SUFFICES ASSUME TypeOK, TreeIsProper, ChecksHold, [Next]_vars, NEW h \in Handlers,
                    job'[h] # job[h]
             PROVE  CheckHolds(h)'
  BY ChecksStay DEF ChecksHold
<1>0. \A g \in Handlers : \A x : job' = [job EXCEPT ![g] = x] => g = h /\ job'[h] = x
  BY DEF TypeOK
<1>1. CASE job'[h] = Idle \/ job'[h].op \in {"children", "assets", "delete"}
  BY <1>1 DEF CheckHolds, Holds
<1>2. ASSUME NEW type \in EntityTypes, NEW p \in Parents, CreateCheck(h, type, p)
      PROVE  CheckHolds(h)'
  <2>1. job'[h].op = "create" /\ job'[h].type = type /\ job'[h].parent = p
    BY <1>0, <1>2 DEF CreateCheck
  <2>2. Suits(type, p)' /\ (p \in {NoParent, Blank} => type \notin parentRequired)
    BY <1>2, FitsSuits, SuitsStay DEF CreateCheck
  <2> QED
    BY <2>1, <2>2 DEF CheckHolds, Holds, Suits, Live
<1>3. ASSUME NEW e \in Entities, UpdateLook(h, e)
      PROVE  CheckHolds(h)'
  <2>1. e \in Live /\ entities' = entities /\ entities[e] # Unborn
    BY <1>3 DEF UpdateLook, Live
  <2>2. /\ job'[h].op = "look" /\ job'[h].id = e
        /\ job'[h].type = entities[e].type /\ job'[h].parent = entities[e].parent
    BY <1>0, <1>3 DEF UpdateLook
  <2>3. Suits(entities[e].type, entities[e].parent)
    BY <2>1, LiveRow, MarkersAssumption DEF TreeIsProper, Suits, Live
  <2>4. entities[e].parent = NoParent => MayStandAlone(e, entities[e].type)
    BY <2>1 DEF TreeIsProper, MayStandAlone
  <2> QED
    BY <2>1, <2>2, <2>3, <2>4 DEF CheckHolds, Holds, Suits, Live
<1>4. ASSUME NEW p \in Parents, entities' = entities, Holds(h, "look"),
             job'[h].op \in {"climb", "update"}, job'[h].id = job[h].id, job'[h].parent = p,
             Suits(job[h].type, p),
             p \in {NoParent, Blank} => MayStandAlone(job[h].id, job[h].type)
      PROVE  CheckHolds(h)'
  <2>1. /\ entities[job[h].id] # Unborn
        /\ job[h].id \in Live => entities[job[h].id].type = job[h].type
    BY <1>4 DEF ChecksHold, CheckHolds
  <2> QED
    BY <1>4, <2>1 DEF CheckHolds, Holds, Suits, Live
<1>5. ASSUME UpdateRename(h)
      PROVE  CheckHolds(h)'
  <2>1. job[h].parent \in Parents /\ job[h].parent # Blank
    BY <1>5, JobOfKind, MarkersAssumption DEF UpdateRename, Looking, Parents
  <2>2. /\ Suits(job[h].type, job[h].parent)
        /\ job[h].parent = NoParent => MayStandAlone(job[h].id, job[h].type)
    BY <1>5 DEF UpdateRename, ChecksHold, CheckHolds
  <2>3. /\ job'[h].op = "update" /\ job'[h].id = job[h].id /\ job'[h].parent = job[h].parent
        /\ entities' = entities /\ Holds(h, "look")
    BY <1>0, <1>5 DEF UpdateRename
  <2> QED
    BY <1>4, <2>1, <2>2, <2>3
<1>6. ASSUME NEW p \in Parents, UpdateMove(h, p)
      PROVE  CheckHolds(h)'
  <2>1. /\ Suits(job[h].type, p)
        /\ p \in {NoParent, Blank} => MayStandAlone(job[h].id, job[h].type)
    BY <1>6, FitsSuits DEF UpdateMove, MayStandAlone
  <2>2. /\ entities' = entities /\ Holds(h, "look")
        /\ job'[h] = IF p \in Entities
                     THEN [op |-> "climb", id |-> job[h].id, parent |-> p, at |-> p]
                     ELSE [op |-> "update", id |-> job[h].id, parent |-> p]
    BY <1>0, <1>6 DEF UpdateMove
  <2>3. job'[h].op \in {"climb", "update"} /\ job'[h].id = job[h].id /\ job'[h].parent = p
    BY <2>2
  <2> QED
    BY <1>4, <2>1, <2>2, <2>3
<1>7. \/ job'[h] = Idle
      \/ \E type \in EntityTypes, p \in Parents : CreateCheck(h, type, p)
      \/ \E e \in Entities : UpdateLook(h, e) \/ DeleteLook(h, e)
      \/ \E p \in Parents : UpdateMove(h, p)
      \/ UpdateRename(h) \/ UpdateClimb(h) \/ DeleteCountAssets(h) \/ DeleteCountChildren(h)
  <2>1. ASSUME NEW g \in Handlers, Idles(g)
        PROVE  job'[h] = Idle
    BY <1>0, <2>1 DEF Idles
  <2>2. ASSUME NEW g \in Handlers, g # h
        PROVE  /\ \A type \in EntityTypes, p \in Parents : ~ CreateCheck(g, type, p)
               /\ \A e \in Entities : ~ UpdateLook(g, e) /\ ~ DeleteLook(g, e)
               /\ \A p \in Parents : ~ UpdateMove(g, p)
               /\ ~ UpdateRename(g) /\ ~ UpdateClimb(g)
               /\ ~ DeleteCountAssets(g) /\ ~ DeleteCountChildren(g)
    BY <1>0, <2>2
    DEF CreateCheck, UpdateLook, DeleteLook, UpdateMove, UpdateRename, UpdateClimb,
        DeleteCountAssets, DeleteCountChildren
  <2>3. job' # job
    OBVIOUS
  <2> QED
    BY <2>1, <2>2, <2>3
    DEF Next, vars, CreateCommit, UpdateCommit, DeleteCommit, Refuse, SetDefaultStock, Name, Unname
<1>8. ASSUME NEW e \in Entities, DeleteLook(h, e)
      PROVE  job'[h].op = "assets"
  BY <1>0, <1>8 DEF DeleteLook
<1>9. ASSUME DeleteCountAssets(h) \/ DeleteCountChildren(h)
      PROVE  job'[h].op \in {"children", "delete"}
  BY <1>0, <1>9 DEF DeleteCountAssets, DeleteCountChildren
<1>10. ASSUME UpdateClimb(h)
       PROVE  CheckHolds(h)'
  <2>1. /\ job[h] \in Climbing /\ job[h].parent \notin {NoParent, Blank}
        /\ entities[job[h].id] # Unborn
        /\ job[h].id \in Live => Suits(entities[job[h].id].type, job[h].parent)
    BY <1>10, JobOfKind, MarkersAssumption DEF UpdateClimb, ChecksHold, CheckHolds, Climbing
  <2>2. entities' = entities
    BY <1>10 DEF UpdateClimb
  <2>3. \/ job'[h] = Idle
        \/ /\ job'[h].op \in {"climb", "update"}
           /\ job'[h].id = job[h].id /\ job'[h].parent = job[h].parent
    BY <1>0, <1>10, <2>1 DEF UpdateClimb, Climbing
  <2> QED
    BY <1>1, <2>1, <2>2, <2>3 DEF CheckHolds, Holds, Suits, Live
<1> QED
  BY <1>1, <1>2, <1>3, <1>5, <1>6, <1>7, <1>8, <1>9, <1>10

(* A tree stays proper when each of its entities either hangs where it     *)
(* did, from a parent that is still there, or was just hung properly.      *)
ProperlyHung(e, p) ==
    /\ p # NoParent => p \in Live /\ entities[p].type \in allowedParents[entities[e].type]
    /\ p = NoParent => MayStandAlone(e, entities[e].type)

LEMMA TreeStep ==
    TypeOK /\ TreeIsProper /\ ChecksHold /\ [Next]_vars => TreeIsProper'
<1> SUFFICES ASSUME TypeOK, TreeIsProper, ChecksHold, [Next]_vars, NEW e \in Live'
             PROVE  ProperlyHung(e, entities[e].parent)'
  BY DEF TreeIsProper, ProperlyHung, MayStandAlone
<1>0. e \in Entities
  BY DEF Live
<1>1. ASSUME e \in Live, entities'[e].parent = entities[e].parent,
             entities[e].parent # NoParent => entities'[entities[e].parent] # Deleted
      PROVE  ProperlyHung(e, entities[e].parent)'
  <2> DEFINE p == entities[e].parent
  <2>1. ProperlyHung(e, p)
    BY <1>1 DEF TreeIsProper, ProperlyHung, MayStandAlone
  <2>2. entities'[e].type = entities[e].type
    BY <1>0, <1>1, KindsStay DEF Live
  <2>3. p # NoParent =>
          /\ p \in Live /\ p \in Entities
          /\ p \in Live' /\ entities'[p].type = entities[p].type
    BY <1>1, <2>1, KindsStay DEF ProperlyHung, Live
  <2> QED
    BY <1>1, <2>1, <2>2, <2>3 DEF ProperlyHung, MayStandAlone
<1>2. ASSUME NEW h \in Handlers, NEW f \in Entities, CreateCommit(h, f)
      PROVE  ProperlyHung(e, entities[e].parent)'
  <2> DEFINE p == job[h].parent
  <2>1. CASE e # f
    <3>1. e \in Live /\ entities'[e] = entities[e] /\ f \notin Live
      BY <1>0, <1>2, <2>1 DEF CreateCommit, Live, TypeOK
    <3>2. entities[e].parent # NoParent => entities'[entities[e].parent] # Deleted
      BY <1>2, <3>1 DEF CreateCommit, TreeIsProper, Live, TypeOK
    <3> QED
      BY <1>1, <3>1, <3>2
  <2>2. CASE e = f
    <3>1. /\ p \in Parents /\ p \in Live \cup {NoParent, Blank} /\ p # f
          /\ Suits(job[h].type, p)
          /\ p \in {NoParent, Blank} => job[h].type \notin parentRequired
      BY <1>2, JobOfKind, MarkersAssumption
      DEF CreateCommit, ParentStands, ChecksHold, CheckHolds, Creating, Live
    <3>2. /\ entities'[e].type = job[h].type
          /\ entities'[e].parent = StoredParent(p)
          /\ \A q \in Live : entities'[q] = entities[q] /\ q \in Live'
      BY <1>2, <2>2 DEF CreateCommit, TypeOK, Live
    <3>3. p \in Live => StoredParent(p) = p /\ p # NoParent
      BY MarkersAssumption DEF StoredParent, Live
    <3>4. p \in {NoParent, Blank} => StoredParent(p) = NoParent
      BY DEF StoredParent
    <3> QED
      BY <3>1, <3>2, <3>3, <3>4 DEF ProperlyHung, Suits, MayStandAlone
  <2> QED
    BY <2>1, <2>2
<1>3. ASSUME NEW h \in Handlers, UpdateCommit(h)
      PROVE  ProperlyHung(e, entities[e].parent)'
  <2> DEFINE p == job[h].parent
             f == job[h].id
  <2>1. /\ f \in Entities /\ p \in Parents
        /\ f \in Live => /\ p \in Live \cup {NoParent, Blank}
                         /\ Suits(entities[f].type, p)
                         /\ p \in {NoParent, Blank} => MayStandAlone(f, entities[f].type)
    BY <1>3, JobOfKind DEF UpdateCommit, ParentStands, ChecksHold, CheckHolds, Updating
  <2>2. \A q \in Entities : /\ q \in Live' <=> q \in Live
                            /\ entities'[q] # Deleted \/ entities[q] = Deleted
                            /\ q # f => entities'[q] = entities[q]
                            /\ q \in Live => entities'[q].type = entities[q].type
    <3>1. ASSUME f \in Live
          PROVE  entities'[f] \in Row /\ entities'[f].type = entities[f].type
      <4>1. StoredParent(p) \in Entities \cup {NoParent}
        BY <2>1 DEF StoredParent, Parents
      <4> QED
        BY <1>3, <3>1, <4>1, LiveRow DEF UpdateCommit, TypeOK, Row
    <3> QED
      BY <1>3, <2>1, <3>1, MarkersAssumption DEF UpdateCommit, TypeOK, Live
  <2>3. CASE e # f \/ f \notin Live
    <3>1. e \in Live /\ entities'[e] = entities[e]
      BY <1>0, <1>3, <2>2, <2>3 DEF UpdateCommit
    <3>2. entities[e].parent # NoParent => entities'[entities[e].parent] # Deleted
      BY <2>2, <3>1 DEF TreeIsProper, Live
    <3> QED
      BY <1>1, <3>1, <3>2
  <2>4. CASE e = f /\ f \in Live
    <3>1. entities'[e].parent = StoredParent(p) /\ entities'[e].type = entities[e].type
      BY <1>3, <2>2, <2>4, LiveRow DEF UpdateCommit, TypeOK, Row
    <3>2. p \in Live => StoredParent(p) = p /\ p # NoParent /\ p \in Live'
                        /\ entities'[p].type = entities[p].type
      BY <2>2, MarkersAssumption DEF StoredParent, Live
    <3>3. p \in {NoParent, Blank} => StoredParent(p) = NoParent
      BY DEF StoredParent
    <3> QED
      BY <2>1, <2>4, <3>1, <3>2, <3>3 DEF ProperlyHung, Suits, MayStandAlone
  <2> QED
    BY <2>3, <2>4
<1>4. ASSUME NEW h \in Handlers, DeleteCommit(h)
      PROVE  ProperlyHung(e, entities[e].parent)'
  <2> DEFINE f == job[h].id
  <2>1. /\ e \in Live /\ entities'[e] = entities[e]
        /\ entities[e].parent # f
        /\ \A q \in Live \ {f} : entities'[q] = entities[q]
    BY <1>0, <1>4 DEF DeleteCommit, HasChildren, TypeOK, Live
  <2>2. entities[e].parent # NoParent => entities'[entities[e].parent] # Deleted
    BY <2>1 DEF TreeIsProper, Live
  <2> QED
    BY <1>1, <2>1, <2>2
<1>5. ASSUME NEW f \in Entities, SetDefaultStock(f)
      PROVE  ProperlyHung(e, entities[e].parent)'
  <2>1. ASSUME NEW q \in Live
        PROVE  entities'[q] \in Row /\ entities'[q].parent = entities[q].parent
    BY <1>5, LiveRow DEF SetDefaultStock, Marked, TypeOK, Row, Live
  <2>2. e \in Live
    BY <1>0, <1>5 DEF SetDefaultStock, Marked, Live
  <2>3. entities[e].parent # NoParent => entities'[entities[e].parent] # Deleted
    BY <2>1, <2>2, MarkersAssumption DEF TreeIsProper
  <2> QED
    BY <1>1, <2>1, <2>2, <2>3
<1>6. CASE UNCHANGED entities
  <2>1. e \in Live
    BY <1>6 DEF Live
  <2> QED
    BY <1>1, <1>6, <2>1 DEF TreeIsProper, Live
<1> QED
  BY <1>2, <1>3, <1>4, <1>5, <1>6, TableSteps

LEMMA TreeInit == Init => TreeIsProper /\ ChecksHold
<1> SUFFICES ASSUME Init
             PROVE  TreeIsProper /\ ChecksHold
  OBVIOUS
<1>1. TypeOK /\ entities = Founding
  BY TypeInit DEF Init
<1>2. TreeIsProper
  <2> SUFFICES ASSUME NEW e \in Live
               PROVE  /\ entities[e].parent # NoParent =>
                            /\ entities[e].parent \in Live
                            /\ entities[entities[e].parent].type
                                  \in allowedParents[entities[e].type]
                      /\ entities[e].parent = NoParent => e \in Legacy
    BY DEF TreeIsProper
  <2>1. /\ e \in Entities /\ Founding[e] # Unborn
        /\ Founding[e].parent \in Entities \cup {NoParent}
    BY <1>1, LiveRow DEF Live
  <2>2. \A f \in Entities : Founding[f] # Deleted
    BY FoundingAssumption, MarkersAssumption
  <2> QED
    BY <1>1, <2>1, <2>2, FoundingAssumption DEF Legacy, Live
<1>3. ChecksHold
  BY DEF Init, ChecksHold, CheckHolds, Holds
<1> QED
  BY <1>2, <1>3

(* Overlapping creates, moves and deletions, each writing on the strength  *)
(* of checks that may be out of date, never leave an entity under a parent *)
(* that is gone or of a kind that does not fit.                            *)
THEOREM TreeAlwaysProper == Spec => []TreeIsProper
BY TypeInit, TypeStep, TreeInit, TreeStep, ChecksStep, PTL DEF Spec

-----------------------------------------------------------------------------
(* No cycles.  A company hangs from nothing, a department only from a      *)
(* company and a location only from one of those: the kinds alone rule a   *)
(* cycle out, and the check Update makes on the read pool is not needed.   *)
LEMMA ProperHasNoCycle ==
    ASSUME TypeOK, TreeIsProper
    PROVE  NoCycle
<1> SUFFICES ASSUME NEW S \in SUBSET Live, S # {}
             PROVE  \E e \in S : entities[e].parent \notin S
  BY DEF NoCycle
<1>1. ASSUME NEW e \in S
      PROVE  /\ entities[e].type \in EntityTypes
             /\ entities[e].parent \in S =>
                   entities[entities[e].parent].type \in allowedParents[entities[e].type]
  BY LiveRow, MarkersAssumption DEF TreeIsProper, Live
<1>2. /\ allowedParents["company"] = {}
      /\ allowedParents["department"] = {"company"}
      /\ allowedParents["location"] = {"company", "department"}
  BY DEF allowedParents
<1>3. CASE \E e \in S : entities[e].type = "company"
  BY <1>1, <1>2, <1>3
<1>4. CASE /\ \A e \in S : entities[e].type # "company"
           /\ \E e \in S : entities[e].type = "department"
  BY <1>1, <1>2, <1>4
<1>5. CASE \A e \in S : entities[e].type \notin {"company", "department"}
  BY <1>1, <1>2, <1>5 DEF EntityTypes
<1> QED
  BY <1>3, <1>4, <1>5

THEOREM NeverACycle == Spec => []NoCycle
BY TypeInit, TypeStep, TreeInit, TreeStep, ChecksStep, ProperHasNoCycle, PTL DEF Spec
=============================================================================
