----------------------------- MODULE HolderTree -----------------------------
(***************************************************************************)
(* Companies, departments and locations (internal/holder): the tree they   *)
(* hang in, the marker of the default stock point, and their deletion.     *)
(*                                                                         *)
(* Create, Update and Delete read what they check on the read pool and     *)
(* write in a transaction that checks nothing again, so each is a step per *)
(* read and a step for the write, with other requests between them.  The   *)
(* foreign key of parent_id is all the write itself enforces.  Names, and  *)
(* their uniqueness among siblings, are left out.                          *)
(***************************************************************************)

CONSTANTS
    Entities,       \* entity ids: fresh UUIDs, so none is used twice
    Handlers,       \* concurrent holder requests
    Assets,
    Columns,        \* the ways an asset names an entity: holder, home, reference
    Founding,       \* the tree at the start
    Elsewhere,      \* an account, or nothing: not an entity
    NoParent,       \* parent_id NULL
    Blank,          \* a parent_id of "" in a request
    Idle,           \* a handler between requests
    Unborn, Deleted \* an id that has no row yet, or no longer

EntityTypes == {"company", "department", "location"}

allowedParents ==
    [ company |-> {}, department |-> {"company"}, location |-> {"company", "department"} ]

parentRequired == {"department"}

(* A row of holder_entities.                                               *)
Row == [ type : EntityTypes, parent : Entities \cup {NoParent}, isDefault : BOOLEAN ]

(* The parent a request names.                                             *)
Parents == Entities \cup {NoParent, Blank}

(* What a request holds between its steps.                                 *)
Creating == [ op : {"create"}, type : EntityTypes, parent : Parents ]
Looking  == [ op : {"look"}, id : Entities, type : EntityTypes,
              parent : Entities \cup {NoParent} ]
Climbing == [ op : {"climb"}, id : Entities, parent : Entities, at : Entities ]
Updating == [ op : {"update"}, id : Entities, parent : Parents ]
Doomed   == [ op : {"assets", "children", "delete"}, id : Entities ]
Job == Creating \cup Looking \cup Climbing \cup Updating \cup Doomed

(* A tree an older release may have left: parents were not checked before  *)
(* migration 005, and were not used, so a department may have none.        *)
ASSUME FoundingAssumption ==
    /\ Founding \in [Entities -> Row \cup {Unborn}]
    /\ \A e \in Entities : Founding[e] # Unborn /\ Founding[e].parent # NoParent =>
          /\ Founding[Founding[e].parent] # Unborn
          /\ Founding[Founding[e].parent].type \in allowedParents[Founding[e].type]
    /\ \A e, f \in Entities :
          (Founding[e] # Unborn /\ Founding[e].isDefault) =>
              /\ Founding[e].type = "location"
              /\ (Founding[f] # Unborn /\ Founding[f].isDefault) => e = f

ASSUME MarkersAssumption ==
    /\ NoParent \notin Entities /\ Blank \notin Entities /\ NoParent # Blank
    /\ Elsewhere \notin Entities
    /\ Idle \notin Job
    /\ Unborn # Deleted /\ Unborn \notin Row /\ Deleted \notin Row

VARIABLES
    entities,   \* the holder_entities table
    named,      \* what each column of each asset names
    job         \* what each handler holds between its steps

vars == <<entities, named, job>>

-----------------------------------------------------------------------------
(* Helpers                                                                 *)

Live == { e \in Entities : entities[e] \notin {Unborn, Deleted} }

(* An entity without a company from before the rule.                       *)
Legacy == { e \in Entities : Founding[e] # Unborn /\ Founding[e].parent = NoParent }

(* checkParent, on the rows as they are now; the variant does not ask what *)
(* kind the parent is of.                                                  *)
ParentFitsAnyKind(type, p) ==
    \/ p \in {NoParent, Blank} /\ type \notin parentRequired
    \/ p \in Live
ParentFits(type, p) ==
    \/ p \in {NoParent, Blank} /\ type \notin parentRequired
    \/ p \in Live /\ entities[p].type \in allowedParents[type]

HasChildren(e) == \E c \in Live : entities[c].parent = e

(* blockerPredicate.                                                       *)
Blocked(e) == \E a \in Assets, c \in Columns : named[a][c] = e

(* parent_id REFERENCES holder_entities(id), and NullString; the variants  *)
(* leave the key unchecked and write "" where it writes NULL.              *)
ParentStandsUnchecked(p) == TRUE
ParentStands(p) == p \in Live \cup {NoParent, Blank}
StoredParentAsGiven(p) == p
StoredParent(p) == IF p = Blank THEN NoParent ELSE p

Idles(h) == job' = [job EXCEPT ![h] = Idle]

Holds(h, op) == job[h] # Idle /\ job[h].op = op

-----------------------------------------------------------------------------
Init ==
    /\ entities = Founding
    /\ named = [a \in Assets |-> [c \in Columns |-> Elsewhere]]
    /\ job = [h \in Handlers |-> Idle]

(* POST /holders                                                           *)
CreateCheck(h, type, p) ==
    /\ job[h] = Idle
    /\ ParentFits(type, p)
    /\ job' = [job EXCEPT ![h] = [op |-> "create", type |-> type, parent |-> p]]
    /\ UNCHANGED <<entities, named>>

CreateCommit(h, e) ==
    /\ Holds(h, "create")
    /\ entities[e] = Unborn
    /\ ParentStands(job[h].parent)
    /\ entities' = [entities EXCEPT ![e] =
          [ type |-> job[h].type, parent |-> StoredParent(job[h].parent), isDefault |-> FALSE ]]
    /\ Idles(h)
    /\ UNCHANGED named

(* PATCH /holders/:id.  Update reads the row first ...                     *)
UpdateLook(h, e) ==
    /\ job[h] = Idle
    /\ e \in Live
    /\ job' = [job EXCEPT ![h] = [op |-> "look", id |-> e, type |-> entities[e].type,
                                  parent |-> entities[e].parent]]
    /\ UNCHANGED <<entities, named>>

(* ... keeps the parent it read when the request names none ...            *)
UpdateRename(h) ==
    /\ Holds(h, "look")
    /\ job' = [job EXCEPT ![h] = [op |-> "update", id |-> job[h].id, parent |-> job[h].parent]]
    /\ UNCHANGED <<entities, named>>

(* ... checks the kind of the parent it does name ...                     *)
UpdateMove(h, p) ==
    /\ Holds(h, "look")
    /\ ParentFits(job[h].type, p)
    /\ job' = [job EXCEPT ![h] =
          IF p \in Entities
          THEN [op |-> "climb", id |-> job[h].id, parent |-> p, at |-> p]
          ELSE [op |-> "update", id |-> job[h].id, parent |-> p]]
    /\ UNCHANGED <<entities, named>>

(* ... climbs from it, one read at a time, to refuse a parent that descends *)
(* from the entity itself.  That the climb also stops where it has been     *)
(* before is left out: kinds rise on the way up, so it never gets there.    *)
UpdateClimb(h) ==
    LET at == job[h].at
        up == IF at \in Live THEN entities[at].parent ELSE NoParent
    IN  /\ Holds(h, "climb")
        /\ job' = [job EXCEPT ![h] =
              IF at = job[h].id THEN Idle
              ELSE IF up = NoParent
              THEN [op |-> "update", id |-> job[h].id, parent |-> job[h].parent]
              ELSE [job[h] EXCEPT !.at = up]]
        /\ UNCHANGED <<entities, named>>

(* ... and writes the row, which may be gone: that updates nothing.        *)
UpdateCommit(h) ==
    LET e == job[h].id
    IN  /\ Holds(h, "update")
        /\ e \in Live => ParentStands(job[h].parent)
        /\ entities' = IF e \in Live
              THEN [entities EXCEPT ![e].parent = StoredParent(job[h].parent)]
              ELSE entities
        /\ Idles(h)
        /\ UNCHANGED named

(* DELETE /holders/:id.  Delete reads the marker ...                       *)
DeleteLook(h, e) ==
    /\ job[h] = Idle
    /\ e \in Live
    /\ ~ entities[e].isDefault
    /\ job' = [job EXCEPT ![h] = [op |-> "assets", id |-> e]]
    /\ UNCHANGED <<entities, named>>

(* ... counts the assets in the way, and then the children ...             *)
DeleteCountAssets(h) ==
    /\ Holds(h, "assets")
    /\ ~ Blocked(job[h].id)
    /\ job' = [job EXCEPT ![h] = [op |-> "children", id |-> job[h].id]]
    /\ UNCHANGED <<entities, named>>

DeleteCountChildren(h) ==
    /\ Holds(h, "children")
    /\ ~ HasChildren(job[h].id)
    /\ job' = [job EXCEPT ![h] = [op |-> "delete", id |-> job[h].id]]
    /\ UNCHANGED <<entities, named>>

(* ... and deletes the row, which no other row may point at.  A row that   *)
(* is gone already is deleted again without a word.                        *)
DeleteCommit(h) ==
    LET e == job[h].id
    IN  /\ Holds(h, "delete")
        /\ ~ HasChildren(e)
        /\ entities' = IF e \in Live THEN [entities EXCEPT ![e] = Deleted] ELSE entities
        /\ Idles(h)
        /\ UNCHANGED named

(* A check refuses, or the foreign key does.                               *)
Refuse(h) ==
    /\ \/ Holds(h, "create") /\ ~ ParentStands(job[h].parent)
       \/ Holds(h, "look") /\ \E p \in Parents : ~ ParentFits(job[h].type, p)
       \/ Holds(h, "update") /\ ~ ParentStands(job[h].parent)
       \/ Holds(h, "assets") /\ Blocked(job[h].id)
       \/ Holds(h, "children") /\ HasChildren(job[h].id)
       \/ Holds(h, "delete") /\ HasChildren(job[h].id)
    /\ Idles(h)
    /\ UNCHANGED <<entities, named>>

(* PATCH /holders/:id with is_default_stock: one transaction that reads    *)
(* the type, clears the old marker and sets the new one.                   *)
Marked(e) ==
    [f \in Entities |-> IF f \in Live THEN [entities[f] EXCEPT !.isDefault = (f = e)]
                        ELSE entities[f]]

(* The variant marks whatever it is asked to.                              *)
MayBeMarkedAny(e) == e \in Live
MayBeMarked(e) == e \in Live /\ entities[e].type = "location"

SetDefaultStock(e) ==
    /\ MayBeMarked(e)
    /\ entities' = Marked(e)
    /\ UNCHANGED <<named, job>>

(* A transfer or a save names an entity for an asset.  Neither looks the   *)
(* entity up when it writes, so an entity that is no longer there will do. *)
Name(a, c, e) ==
    /\ entities[e] # Unborn
    /\ named' = [named EXCEPT ![a][c] = e]
    /\ UNCHANGED <<entities, job>>

Unname(a, c) ==
    /\ named' = [named EXCEPT ![a][c] = Elsewhere]
    /\ UNCHANGED <<entities, job>>

-----------------------------------------------------------------------------
Next ==
    \/ \E h \in Handlers, type \in EntityTypes, p \in Parents : CreateCheck(h, type, p)
    \/ \E h \in Handlers, e \in Entities :
          CreateCommit(h, e) \/ UpdateLook(h, e) \/ DeleteLook(h, e)
    \/ \E h \in Handlers, p \in Parents : UpdateMove(h, p)
    \/ \E h \in Handlers :
          \/ UpdateRename(h) \/ UpdateClimb(h) \/ UpdateCommit(h)
          \/ DeleteCountAssets(h) \/ DeleteCountChildren(h) \/ DeleteCommit(h)
          \/ Refuse(h)
    \/ \E e \in Entities : SetDefaultStock(e)
    \/ \E a \in Assets, c \in Columns : Unname(a, c) \/ \E e \in Entities : Name(a, c, e)

Spec == Init /\ [][Next]_vars

-----------------------------------------------------------------------------
(* Properties                                                              *)

(* Every variable has its type.                                            *)
TypeOK ==
    /\ entities \in [Entities -> Row \cup {Unborn, Deleted}]
    /\ named \in [Assets -> [Columns -> Entities \cup {Elsewhere}]]
    /\ job \in [Handlers -> Job \cup {Idle}]

(* Whatever requests overlap, a parent is an entity that is there and of a *)
(* kind allowedParents admits, and only a department from before the rule  *)
(* is without a company.                                                   *)
TreeIsProper ==
    \A e \in Live :
        /\ entities[e].parent # NoParent =>
              /\ entities[e].parent \in Live
              /\ entities[entities[e].parent].type \in allowedParents[entities[e].type]
        /\ entities[e].parent = NoParent /\ entities[e].type \in parentRequired => e \in Legacy

(* Every way up ends: no set of entities is closed under "parent", so the  *)
(* tree stays walkable although each move checked for cycles on a read     *)
(* that was stale when it wrote.                                           *)
NoCycle ==
    \A S \in SUBSET Live : S # {} => \E e \in S : entities[e].parent \notin S

(* At most one entity is the default stock point, and it is a location: a  *)
(* check-in has somewhere specific to return to.                           *)
DefaultStockIsOneLocation ==
    \A e, f \in Live : entities[e].isDefault =>
        /\ entities[e].type = "location"
        /\ entities[f].isDefault => e = f

(* docs/rules/domain.md: a holder entity that has assets is not deleted -  *)
(* sitting there, belonging there, or referring to it.                     *)
DeletedEntityIsUnused ==
    [][\A e \in Live : e \notin Live' => ~ Blocked(e)]_vars
=============================================================================
