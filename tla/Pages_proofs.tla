---------------------------- MODULE Pages_proofs ----------------------------
(***************************************************************************)
(* Theorems about the pages: the accounts and roles, for any number of     *)
(* accounts, roles, permissions, handlers and requests; the form of a      *)
(* device, for any keys, values, models, defaults and places, and any      *)
(* number of changes; and the list of devices, for any fleet, filters and  *)
(* page sizes.                                                             *)
(***************************************************************************)
EXTENDS Accounts, AssetForm, AssetList, FiniteSetTheorems, TLAPS

-----------------------------------------------------------------------------
(* Type correctness                                                        *)

(* What a request carries, by what it is for.                              *)
LEMMA JobFields ==
    ASSUME NEW job \in Job
    PROVE  /\ job.what = "create" => /\ job.user \in User /\ job.role \in Role
                                     /\ job.linked \in BOOLEAN
           /\ job.what = "link" => job.user \in User
           /\ job.what = "role" => job.user \in User /\ job.role \in Role
           /\ job.what = "update" => /\ job.role \in Role /\ job.chosen \in Switches
                                     /\ job.clicked \in Switches /\ job.overtaken \in BOOLEAN
           /\ job.what = "delete" => job.role \in Role
BY DEF Job

LEMMA Doings ==
    ASSUME AccountsTypeOK, NEW h \in Handler, NEW what, Doing(h, what)
    PROVE  handlers[h] \in Job /\ handlers[h].what = what
BY DEF AccountsTypeOK, Doing

LEMMA NewUsers ==
    ASSUME NEW r \in Role, NEW linked \in BOOLEAN
    PROVE  NewUser(r, linked) \in Account /\ NewUser(r, linked) # Vacant
<1>1. NewUser(r, linked) \in Account
  BY DEF NewUser, Account
<1> QED
  BY <1>1, AccountsAssumption

(* A handler that starts has a job, which is of an account that is there.  *)
LEMMA BeginTyped ==
    ASSUME AccountsTypeOK, NEW h \in Handler, NEW job \in Job, Begin(h, job),
           job.what \in {"role", "link"} => Exists(job.user),
           editor' \in Editor \cup {Vacant}
    PROVE  AccountsTypeOK'
<1>1. requests' \in 0..MaxRequests
  BY AccountsAssumption DEF AccountsTypeOK, Begin
<1>2. handlers' \in [ Handler -> Job \cup {Vacant} ]
  BY DEF AccountsTypeOK, Begin
<1>3. ASSUME NEW g \in Handler, (Doing(g, "role") \/ Doing(g, "link"))'
      PROVE  Exists(handlers[g].user)'
  <2>1. CASE g = h
    BY <1>3, <2>1 DEF AccountsTypeOK, Begin, Doing, Exists
  <2>2. CASE g # h
    BY <1>3, <2>2 DEF AccountsTypeOK, Begin, Doing, Exists
  <2> QED
    BY <2>1, <2>2
<1> QED
  BY <1>1, <1>2, <1>3 DEF AccountsTypeOK, Begin

(* A handler that ends leaves accounts where they were, and the others to  *)
(* go on.                                                                  *)
LEMMA EndTyped ==
    ASSUME AccountsTypeOK, NEW h \in Handler, End(h),
           users' \in [ User -> Account \cup {Vacant} ],
           \A u \in User : Exists(u) => Exists(u)',
           roles' \in [ Role -> Switches \cup {Vacant, Gone} ],
           editor' \in Editor \cup {Vacant}
    PROVE  AccountsTypeOK'
<1>1. handlers' \in [ Handler -> Job \cup {Vacant} ]
  BY DEF AccountsTypeOK, End
<1>2. ASSUME NEW g \in Handler, (Doing(g, "role") \/ Doing(g, "link"))'
      PROVE  Exists(handlers[g].user)'
  <2>1. g # h
    BY <1>2 DEF AccountsTypeOK, End, Doing
  <2>2. handlers'[g] = handlers[g] /\ (Doing(g, "role") \/ Doing(g, "link"))
    BY <1>2, <2>1 DEF AccountsTypeOK, End, Doing
  <2>3. handlers[g].user \in User
    BY <2>2, Doings, JobFields
  <2> QED
    BY <2>2, <2>3 DEF AccountsTypeOK, Exists
<1> QED
  BY <1>1, <1>2 DEF AccountsTypeOK, End

LEMMA TypeInit == AccountsInit => AccountsTypeOK
<1> SUFFICES ASSUME AccountsInit
             PROVE  AccountsTypeOK
  OBVIOUS
<1>1. users \in [ User -> Account \cup {Vacant} ]
  BY NewUsers, AccountsAssumption DEF AccountsInit
<1>2. roles \in [ Role -> Switches \cup {Vacant, Gone} ]
  BY AccountsAssumption DEF AccountsInit, Switches
<1>3. requests \in 0..MaxRequests
  BY AccountsAssumption DEF AccountsInit
<1> QED
  BY <1>1, <1>2, <1>3 DEF AccountsInit, AccountsTypeOK, Doing

LEMMA TypeStep == AccountsTypeOK /\ [AccountsNext]_accountsVars => AccountsTypeOK'
<1> SUFFICES ASSUME AccountsTypeOK, [AccountsNext]_accountsVars
             PROVE  AccountsTypeOK'
  OBVIOUS
<1>1. ASSUME NEW h \in Handler, AskCreate(h)
      PROVE  AccountsTypeOK'
  <2>1. PICK u \in User, r \in Role :
            Begin(h, [ what |-> "create", user |-> u, role |-> r, linked |-> FALSE ])
    BY <1>1 DEF AskCreate
  <2>2. [ what |-> "create", user |-> u, role |-> r, linked |-> FALSE ] \in Job
    BY DEF Job
  <2> QED
    BY <1>1, <2>1, <2>2, BeginTyped DEF AskCreate, AccountsTypeOK
<1>2. ASSUME NEW h \in Handler, Arrive(h)
      PROVE  AccountsTypeOK'
  <2>1. PICK u \in User :
            \/ Exists(u) /\ Begin(h, [ what |-> "link", user |-> u ])
            \/ \E r \in {AdminRole, UserRole} :
                    Begin(h, [ what |-> "create", user |-> u, linked |-> TRUE, role |-> r ])
    BY <1>2 DEF Arrive
  <2>2. editor' \in Editor \cup {Vacant}
    BY <1>2 DEF Arrive, AccountsTypeOK
  <2>3. CASE Exists(u) /\ Begin(h, [ what |-> "link", user |-> u ])
    <3>1. [ what |-> "link", user |-> u ] \in Job
      BY DEF Job
    <3> QED
      BY <2>2, <2>3, <3>1, BeginTyped
  <2>4. ASSUME NEW r \in {AdminRole, UserRole},
               Begin(h, [ what |-> "create", user |-> u, linked |-> TRUE, role |-> r ])
        PROVE  AccountsTypeOK'
    <3>1. [ what |-> "create", user |-> u, linked |-> TRUE, role |-> r ] \in Job
      BY AccountsAssumption DEF Job
    <3> QED
      BY <2>2, <2>4, <3>1, BeginTyped
  <2> QED
    BY <2>1, <2>3, <2>4
<1>3. ASSUME NEW h \in Handler, Create(h)
      PROVE  AccountsTypeOK'
  <2>1. handlers[h].user \in User /\ handlers[h].role \in Role /\ handlers[h].linked \in BOOLEAN
    BY <1>3, Doings, JobFields DEF Create
  <2>2. /\ users' \in [ User -> Account \cup {Vacant} ]
        /\ \A u \in User : Exists(u) => Exists(u)'
    BY <1>3, <2>1, NewUsers DEF Create, Write, NoChange, AccountsTypeOK, Exists
  <2> QED
    BY <1>3, <2>2, EndTyped DEF Create, Write, NoChange, AccountsTypeOK
<1>4. ASSUME NEW h \in Handler, LinkOIDC(h)
      PROVE  AccountsTypeOK'
  <2>1. handlers[h].user \in User /\ users[handlers[h].user] \in Account
    BY <1>4, Doings, JobFields DEF LinkOIDC, AccountsTypeOK, Exists
  <2>2. [users[handlers[h].user] EXCEPT !.linked = TRUE] \in Account
    BY <2>1 DEF Account
  <2>3. /\ users' \in [ User -> Account \cup {Vacant} ]
        /\ \A u \in User : Exists(u) => Exists(u)'
    BY <1>4, <2>1, <2>2, AccountsAssumption DEF LinkOIDC, Write, AccountsTypeOK, Exists
  <2> QED
    BY <1>4, <2>3, EndTyped DEF LinkOIDC, Write, AccountsTypeOK
<1>5. ASSUME NEW h \in Handler, AskRole(h)
      PROVE  AccountsTypeOK'
  <2>1. PICK u \in User, r \in Role :
            Exists(u) /\ Begin(h, [ what |-> "role", user |-> u, role |-> r ])
    BY <1>5 DEF AskRole
  <2>2. [ what |-> "role", user |-> u, role |-> r ] \in Job
    BY DEF Job
  <2> QED
    BY <1>5, <2>1, <2>2, BeginTyped DEF AskRole, AccountsTypeOK
<1>6. ASSUME NEW h \in Handler, SetRole(h)
      PROVE  AccountsTypeOK'
  <2>1. /\ handlers[h].user \in User /\ users[handlers[h].user] \in Account
        /\ handlers[h].role \in Role
    BY <1>6, Doings, JobFields DEF SetRole, AccountsTypeOK, Exists
  <2>2. [users[handlers[h].user] EXCEPT !.role = handlers[h].role] \in Account
    BY <2>1 DEF Account
  <2>3. /\ users' \in [ User -> Account \cup {Vacant} ]
        /\ \A u \in User : Exists(u) => Exists(u)'
    BY <1>6, <2>1, <2>2, AccountsAssumption DEF SetRole, Write, NoChange, AccountsTypeOK, Exists
  <2> QED
    BY <1>6, <2>3, EndTyped DEF SetRole, Write, NoChange, AccountsTypeOK
<1>7. ASSUME NEW u \in User, NEW active \in BOOLEAN, Exists(u),
             Write([users EXCEPT ![u].active = active]), UNCHANGED <<handlers, requests>>
      PROVE  AccountsTypeOK'
  <2>1. [users[u] EXCEPT !.active = active] \in Account
    BY <1>7 DEF Account, AccountsTypeOK, Exists
  <2>2. /\ users' \in [ User -> Account \cup {Vacant} ]
        /\ \A v \in User : Exists(v) => Exists(v)'
    BY <1>7, <2>1, AccountsAssumption DEF Write, AccountsTypeOK, Exists
  <2>3. ASSUME NEW g \in Handler, Doing(g, "role") \/ Doing(g, "link")
        PROVE  Exists(handlers[g].user)'
    <3>1. Exists(handlers[g].user) /\ handlers[g].user \in User
      BY <2>3, Doings, JobFields DEF AccountsTypeOK
    <3> QED
      BY <1>7, <2>2, <3>1 DEF Exists
  <2> QED
    BY <1>7, <2>2, <2>3 DEF Write, AccountsTypeOK, Doing, Exists
<1>8. ASSUME NEW h \in Handler, SaveEditor(h)
      PROVE  AccountsTypeOK'
  <2> DEFINE job == [ what |-> "update", role |-> editor.role, chosen |-> editor.chosen,
                      clicked |-> editor.clicked, overtaken |-> editor.overtaken ]
  <2>1. job \in Job
    BY <1>8 DEF SaveEditor, AccountsTypeOK, Editor, Job
  <2>2. Begin(h, job) /\ editor' = Vacant
    BY <1>8 DEF SaveEditor
  <2> HIDE DEF job
  <2>3. job.what = "update"
    BY DEF job
  <2> QED
    BY <2>1, <2>2, <2>3, BeginTyped
<1>9. ASSUME NEW h \in Handler, AskUpdate(h)
      PROVE  AccountsTypeOK'
  <2>1. PICK r \in Role, clicked \in SUBSET Permission :
            /\ Standing(r)
            /\ Begin(h, [ what |-> "update", role |-> r, clicked |-> clicked, overtaken |-> FALSE,
                          chosen |-> SymDiff(roles[r], clicked) ])
    BY <1>9 DEF AskUpdate
  <2>2. SymDiff(roles[r], clicked) \in Switches
    BY <2>1 DEF Standing, AccountsTypeOK, SymDiff, Switches
  <2>3. [ what |-> "update", role |-> r, clicked |-> clicked, overtaken |-> FALSE,
          chosen |-> SymDiff(roles[r], clicked) ] \in Job
    BY <2>2 DEF Job, Switches
  <2> QED
    BY <1>9, <2>1, <2>3, BeginTyped DEF AskUpdate, AccountsTypeOK
<1>10. ASSUME NEW h \in Handler, UpdateRole(h)
       PROVE  AccountsTypeOK'
  <2>1. handlers[h].role \in Role /\ handlers[h].chosen \in Switches
    BY <1>10, Doings, JobFields DEF UpdateRole
  <2>2. ASSUME NEW g \in Handler, Doing(g, "update")
        PROVE  /\ Overtaken(handlers[g], handlers[h].role) \in Job
               /\ Overtaken(handlers[g], handlers[h].role).what = "update"
    <3>1. handlers[g] \in [ what : {"update"}, role : Role, chosen : Switches,
                             clicked : Switches, overtaken : BOOLEAN ]
      BY <2>2, Doings DEF Job
    <3>2. [handlers[g] EXCEPT !.overtaken = TRUE] \in
              [ what : {"update"}, role : Role, chosen : Switches,
                clicked : Switches, overtaken : BOOLEAN ]
      BY <3>1
    <3> QED
      BY <3>1, <3>2 DEF Overtaken, Job
  <2>3. ASSUME NEW g \in Handler
        PROVE  /\ handlers'[g] \in Job \cup {Vacant}
               /\ (Doing(g, "role") \/ Doing(g, "link"))' => handlers'[g] = handlers[g]
    BY <1>10, <2>2 DEF UpdateRole, AccountsTypeOK, Doing
  <2>4. handlers' \in [ Handler -> Job \cup {Vacant} ]
    BY <1>10, <2>3 DEF UpdateRole
  <2>5. editor' \in Editor \cup {Vacant}
    BY <1>10 DEF UpdateRole, Overtaken, AccountsTypeOK, Editor
  <2>6. roles' \in [ Role -> Switches \cup {Vacant, Gone} ]
    BY <1>10, <2>1 DEF UpdateRole, AccountsTypeOK
  <2> QED
    BY <1>10, <2>3, <2>4, <2>5, <2>6 DEF UpdateRole, AccountsTypeOK, Doing, Exists
<1>11. ASSUME NEW h \in Handler, AskDelete(h)
       PROVE  AccountsTypeOK'
  <2>1. PICK r \in Role : Begin(h, [ what |-> "delete", role |-> r ])
    BY <1>11 DEF AskDelete
  <2>2. [ what |-> "delete", role |-> r ] \in Job
    BY DEF Job
  <2> QED
    BY <1>11, <2>1, <2>2, BeginTyped DEF AskDelete, AccountsTypeOK
<1>12. ASSUME NEW h \in Handler, DeleteRole(h)
       PROVE  AccountsTypeOK'
  <2>1. roles' \in [ Role -> Switches \cup {Vacant, Gone} ]
    BY <1>12 DEF DeleteRole, AccountsTypeOK
  <2> QED
    BY <1>12, <2>1, EndTyped DEF DeleteRole, AccountsTypeOK, Exists
<1>13. CASE Disable
  BY <1>7, <1>13 DEF Disable
<1>14. CASE Enable
  BY <1>7, <1>14 DEF Enable
<1>15. CASE CreateRole
  BY <1>15, AccountsAssumption DEF CreateRole, AccountsTypeOK, Switches, Doing, Exists
<1>16. CASE OpenEditor
  BY <1>16 DEF OpenEditor, Opened, Standing, AccountsTypeOK, Editor, Switches, Doing, Exists
<1>17. CASE Toggle
  <2>1. PICK p \in Permission :
            editor' = [editor EXCEPT !.chosen = Toggled(@, p), !.clicked = Toggled(@, p)]
    BY <1>17 DEF Toggle
  <2>2. editor \in Editor
    BY <1>17 DEF Toggle, AccountsTypeOK
  <2>3. \A s \in Switches : Toggled(s, p) \in Switches
    BY DEF Toggled, Switches
  <2>4. editor' \in Editor
    BY <2>1, <2>2, <2>3 DEF Editor
  <2> QED
    BY <1>17, <2>4 DEF Toggle, AccountsTypeOK, Doing, Exists
<1>18. CASE CloseEditor
  BY <1>18 DEF CloseEditor, AccountsTypeOK, Doing, Exists
<1>19. CASE UNCHANGED accountsVars
  BY <1>19 DEF accountsVars, AccountsTypeOK, Doing, Exists
<1> QED
  BY <1>1, <1>2, <1>3, <1>4, <1>5, <1>6, <1>8, <1>9, <1>10, <1>11, <1>12, <1>13, <1>14,
     <1>15, <1>16, <1>17, <1>18, <1>19 DEF AccountsNext

(* Accounts, roles, requests and the dialog keep their shapes              *)
(* (internal/auth, internal/authz, RoleEditor), whatever interleaves.      *)
THEOREM AccountsStayTyped == AccountsSpec => []AccountsTypeOK
BY TypeInit, TypeStep, PTL DEF AccountsSpec

-----------------------------------------------------------------------------
(* Somebody is in charge                                                   *)

(* An account that stays an administrator is enough.                       *)
LEMMA SomebodyElse ==
    ASSUME NEW u \in User, NEW v \in OtherAdmins(u), users'[v] = users[v]
    PROVE  AdminRemains'
BY DEF OtherAdmins, IsAdmin, Holds, Exists, AdminRemains

(* One account changes, and if it was an administrator and is none after   *)
(* it, there is another.                                                   *)
LEMMA OneChanges ==
    ASSUME AdminRemains, NEW u \in User,
           \A v \in User \ {u} : users'[v] = users[v],
           IsAdmin(u) /\ ~ IsAdmin(u)' => OtherAdmins(u) # {}
    PROVE  AdminRemains'
<1>1. PICK v \in User : IsAdmin(v)
  BY DEF AdminRemains
<1>2. CASE v # u
  BY <1>1, <1>2, SomebodyElse DEF OtherAdmins
<1>3. CASE v = u /\ IsAdmin(u)'
  BY <1>3 DEF AdminRemains
<1>4. CASE v = u /\ ~ IsAdmin(u)'
  <2>1. PICK w \in OtherAdmins(u) : TRUE
    BY <1>1, <1>4
  <2>2. users'[w] = users[w]
    BY <2>1 DEF OtherAdmins
  <2> QED
    BY <2>1, <2>2, SomebodyElse
<1> QED
  BY <1>2, <1>3, <1>4

(* What a changed account still says.                                      *)
LEMMA RoleChanged ==
    ASSUME NEW a \in Account, NEW r \in Role
    PROVE  /\ [a EXCEPT !.role = r] \in Account
           /\ [a EXCEPT !.role = r].role = r
           /\ [a EXCEPT !.role = r].active = a.active
BY DEF Account

LEMMA LinkChanged ==
    ASSUME NEW a \in Account
    PROVE  /\ [a EXCEPT !.linked = TRUE] \in Account
           /\ [a EXCEPT !.linked = TRUE].role = a.role
           /\ [a EXCEPT !.linked = TRUE].active = a.active
BY DEF Account

LEMMA SameAccounts == AdminRemains /\ UNCHANGED users => AdminRemains'
BY DEF AdminRemains, IsAdmin, Holds, Exists

LEMMA AdminInit == AccountsInit => AdminRemains
<1> SUFFICES ASSUME AccountsInit
             PROVE  AdminRemains
  OBVIOUS
<1>1. PICK u \in User : users[u] = NewUser(AdminRole, FALSE)
  BY DEF AccountsInit
<1>2. NewUser(AdminRole, FALSE) # Vacant
  BY NewUsers, AccountsAssumption
<1> QED
  BY <1>1, <1>2 DEF AdminRemains, IsAdmin, Holds, Exists, NewUser

LEMMA AdminStep ==
    AccountsTypeOK /\ AdminRemains /\ [AccountsNext]_accountsVars => AdminRemains'
<1> SUFFICES ASSUME AccountsTypeOK, AdminRemains, [AccountsNext]_accountsVars
             PROVE  AdminRemains'
  OBVIOUS
<1>1. ASSUME NEW h \in Handler, Create(h)
      PROVE  AdminRemains'
  <2>1. handlers[h].user \in User
    BY <1>1, Doings, JobFields DEF Create
  <2>2. CASE /\ ~ Exists(handlers[h].user)
             /\ Write([users EXCEPT ![handlers[h].user] =
                    NewUser(handlers[h].role, handlers[h].linked)])
    <3>1. ~ IsAdmin(handlers[h].user)
      BY <2>2 DEF IsAdmin, Holds
    <3> QED
      BY <2>1, <2>2, <3>1, OneChanges DEF Write, AccountsTypeOK
  <2> QED
    BY <1>1, <2>2, SameAccounts DEF Create, NoChange
<1>2. ASSUME NEW h \in Handler, LinkOIDC(h)
      PROVE  AdminRemains'
  <2>1. PICK u \in User : u = handlers[h].user /\ users[u] \in Account
    BY <1>2, Doings, JobFields DEF LinkOIDC, AccountsTypeOK, Exists
  <2>2. /\ users'[u] = [users[u] EXCEPT !.linked = TRUE]
        /\ \A v \in User \ {u} : users'[v] = users[v]
    BY <1>2, <2>1 DEF LinkOIDC, Write, AccountsTypeOK
  <2>3. /\ users'[u] # Vacant
        /\ users'[u].role = users[u].role
        /\ users'[u].active = users[u].active
    BY <2>1, <2>2, LinkChanged, AccountsAssumption
  <2>4. IsAdmin(u) => IsAdmin(u)'
    BY <2>3, Zenon DEF IsAdmin, Holds, Exists
  <2> QED
    BY <2>1, <2>2, <2>4, OneChanges
<1>3. ASSUME NEW h \in Handler, SetRole(h)
      PROVE  AdminRemains'
  <2>1. PICK u \in User, r \in Role :
            u = handlers[h].user /\ r = handlers[h].role /\ users[u] \in Account
    BY <1>3, Doings, JobFields DEF SetRole, AccountsTypeOK, Exists
  <2>2. CASE LeavesSomebody(u, r) /\ Write([users EXCEPT ![u].role = r])
    <3>1. /\ users'[u] = [users[u] EXCEPT !.role = r]
          /\ \A v \in User \ {u} : users'[v] = users[v]
      BY <2>1, <2>2 DEF Write, AccountsTypeOK
    <3>2. /\ users'[u] # Vacant
          /\ users'[u].role = r
          /\ users'[u].active = users[u].active
      BY <2>1, <3>1, RoleChanged, AccountsAssumption
    <3>3. IsAdmin(u) /\ ~ IsAdmin(u)' => r # AdminRole
      <4> SUFFICES ASSUME IsAdmin(u), r = AdminRole
                   PROVE  IsAdmin(u)'
        OBVIOUS
      <4>1. users'[u].active
        BY <3>2, Zenon DEF IsAdmin
      <4>2. Holds(u, AdminRole)'
        BY <3>2 DEF Holds, Exists
      <4> QED
        BY <4>1, <4>2 DEF IsAdmin
    <3>4. IsAdmin(u) /\ ~ IsAdmin(u)' => OtherAdmins(u) # {}
      BY <2>2, <3>3 DEF LeavesSomebody
    <3> QED
      BY <2>1, <3>1, <3>4, OneChanges
  <2> QED
    BY <1>3, <2>1, <2>2, SameAccounts DEF SetRole, NoChange
<1>4. CASE Disable
  <2>1. PICK u \in User : /\ Exists(u) /\ users[u].active /\ LeavesSomebody(u, Vacant)
                          /\ Write([users EXCEPT ![u].active = FALSE])
    BY <1>4 DEF Disable
  <2>2. Vacant # AdminRole
    BY AccountsAssumption
  <2> QED
    BY <2>1, <2>2, OneChanges DEF Write, AccountsTypeOK, LeavesSomebody
<1>5. CASE Enable
  <2>1. PICK u \in User : /\ Exists(u) /\ ~ users[u].active
                          /\ Write([users EXCEPT ![u].active = TRUE])
    BY <1>5 DEF Enable
  <2>2. ~ IsAdmin(u)
    BY <2>1 DEF IsAdmin
  <2> QED
    BY <2>1, <2>2, OneChanges DEF Write, AccountsTypeOK
<1>6. CASE UNCHANGED users
  BY <1>6, SameAccounts
<1>7. ASSUME NEW h \in Handler,
             \/ AskCreate(h) \/ Arrive(h) \/ AskRole(h) \/ SaveEditor(h) \/ AskUpdate(h)
             \/ UpdateRole(h) \/ AskDelete(h) \/ DeleteRole(h)
      PROVE  UNCHANGED users
  BY <1>7 DEF AskCreate, Arrive, AskRole, SaveEditor, AskUpdate, UpdateRole, AskDelete,
              DeleteRole, Begin
<1>8. CreateRole \/ OpenEditor \/ Toggle \/ CloseEditor \/ UNCHANGED accountsVars
         => UNCHANGED users
  BY DEF CreateRole, OpenEditor, Toggle, CloseEditor, accountsVars
<1> QED
  BY <1>1, <1>2, <1>3, <1>4, <1>5, <1>6, <1>7, <1>8 DEF AccountsNext

(* There is always an enabled administrator (guardLastAdmin), whatever     *)
(* requests and however many are under way.                                *)
THEOREM AdminAlwaysRemains == AccountsSpec => []AdminRemains
<1>1. AccountsSpec => []AccountsTypeOK
  BY AccountsStayTyped
<1> QED
  BY <1>1, AdminInit, AdminStep, PTL DEF AccountsSpec

-----------------------------------------------------------------------------
(* Roles stay while they are used                                          *)

(* Neither a role nor whose it is changes.                                 *)
LEMMA SameRoles ==
    ASSUME RolesStayWhileUsed, UNCHANGED roles,
           \A u \in User : Exists(u)' => Exists(u) /\ users'[u].role = users[u].role
    PROVE  RolesStayWhileUsed'
BY DEF RolesStayWhileUsed, Standing

(* One account gets a role that stands.                                    *)
LEMMA GivenStanding ==
    ASSUME RolesStayWhileUsed, UNCHANGED roles, NEW u \in User, NEW r, Standing(r),
           \A v \in User \ {u} : users'[v] = users[v],
           users'[u].role = r
    PROVE  RolesStayWhileUsed'
BY DEF RolesStayWhileUsed, Standing, Exists

LEMMA UsedInit == AccountsInit => RolesStayWhileUsed
<1> SUFFICES ASSUME AccountsInit, NEW u \in User, Exists(u)
             PROVE  Standing(users[u].role)
  BY DEF RolesStayWhileUsed
<1>1. users[u] = NewUser(AdminRole, FALSE)
  BY DEF AccountsInit, Exists
<1>2. users[u].role = AdminRole
  BY <1>1 DEF NewUser
<1>3. roles[AdminRole] = {}
  BY AccountsAssumption DEF AccountsInit
<1> QED
  BY <1>2, <1>3, AccountsAssumption DEF Standing

LEMMA UsedStep ==
    AccountsTypeOK /\ RolesStayWhileUsed /\ [AccountsNext]_accountsVars => RolesStayWhileUsed'
<1> SUFFICES ASSUME AccountsTypeOK, RolesStayWhileUsed, [AccountsNext]_accountsVars
             PROVE  RolesStayWhileUsed'
  OBVIOUS
<1>1. ASSUME NEW h \in Handler, Create(h)
      PROVE  RolesStayWhileUsed'
  <2>1. PICK u \in User, r \in Role, linked \in BOOLEAN :
            u = handlers[h].user /\ r = handlers[h].role /\ linked = handlers[h].linked
    BY <1>1, Doings, JobFields DEF Create
  <2>2. CASE Standing(r) /\ Write([users EXCEPT ![u] = NewUser(r, linked)])
    <3>1. /\ users'[u].role = r
          /\ \A v \in User \ {u} : users'[v] = users[v]
      BY <2>1, <2>2 DEF Write, AccountsTypeOK, NewUser
    <3> QED
      BY <2>2, <3>1, GivenStanding DEF Write
  <2> QED
    BY <1>1, <2>1, <2>2, SameRoles DEF Create, NoChange, Exists
<1>2. ASSUME NEW h \in Handler, LinkOIDC(h)
      PROVE  RolesStayWhileUsed'
  <2>1. PICK u \in User : u = handlers[h].user /\ users[u] \in Account
    BY <1>2, Doings, JobFields DEF LinkOIDC, AccountsTypeOK, Exists
  <2>2. /\ users'[u] = [users[u] EXCEPT !.linked = TRUE]
        /\ \A v \in User \ {u} : users'[v] = users[v]
    BY <1>2, <2>1 DEF LinkOIDC, Write, AccountsTypeOK
  <2>3. users'[u].role = users[u].role
    BY <2>1, <2>2, LinkChanged
  <2>4. Exists(u)
    BY <2>1, AccountsAssumption DEF Exists
  <2> QED
    BY <1>2, <2>2, <2>3, <2>4, SameRoles DEF LinkOIDC, Write, Exists
<1>3. ASSUME NEW h \in Handler, SetRole(h)
      PROVE  RolesStayWhileUsed'
  <2>1. PICK u \in User, r \in Role :
            u = handlers[h].user /\ r = handlers[h].role /\ users[u] \in Account
    BY <1>3, Doings, JobFields DEF SetRole, AccountsTypeOK, Exists
  <2>2. CASE Standing(r) /\ Write([users EXCEPT ![u].role = r])
    <3>1. /\ users'[u] = [users[u] EXCEPT !.role = r]
          /\ \A v \in User \ {u} : users'[v] = users[v]
      BY <2>1, <2>2 DEF Write, AccountsTypeOK
    <3> QED
      <4>1. users'[u].role = r
        BY <2>1, <3>1, RoleChanged
      <4> QED
        BY <2>2, <3>1, <4>1, GivenStanding DEF Write
  <2> QED
    BY <1>3, <2>1, <2>2, SameRoles DEF SetRole, NoChange, Exists
<1>4. ASSUME NEW u \in User, NEW active \in BOOLEAN, Exists(u),
             Write([users EXCEPT ![u].active = active])
      PROVE  RolesStayWhileUsed'
  <2>1. users[u] \in Account
    BY <1>4 DEF AccountsTypeOK, Exists
  <2>2. [users[u] EXCEPT !.active = active].role = users[u].role
    BY <2>1 DEF Account
  <2> QED
    BY <1>4, <2>2, SameRoles DEF Write, AccountsTypeOK, Exists
<1>5. ASSUME NEW h \in Handler, UpdateRole(h)
      PROVE  RolesStayWhileUsed'
  <2>1. handlers[h].role \in Role /\ handlers[h].chosen \in SUBSET Permission
    BY <1>5, Doings, JobFields DEF UpdateRole, Switches
  <2>2. \A r \in Role : Standing(r) => Standing(r)'
    BY <1>5, <2>1, AccountsAssumption DEF UpdateRole, Standing, AccountsTypeOK
  <2>3. \A u \in User : Exists(u) => users[u].role \in Role
    BY DEF AccountsTypeOK, Exists, Account
  <2> QED
    BY <1>5, <2>2, <2>3 DEF UpdateRole, RolesStayWhileUsed, Exists
<1>6. ASSUME NEW h \in Handler, DeleteRole(h)
      PROVE  RolesStayWhileUsed'
  <2>1. handlers[h].role \in Role
    BY <1>6, Doings, JobFields DEF DeleteRole
  <2>2. \A r \in Role : Standing(r) /\ ~ Unused(r) => Standing(r)'
    BY <1>6, <2>1 DEF DeleteRole, Standing, AccountsTypeOK
  <2>3. \A u \in User : Exists(u) => users[u].role \in Role /\ ~ Unused(users[u].role)
    BY DEF AccountsTypeOK, Exists, Account, Unused, Holds
  <2> QED
    BY <1>6, <2>2, <2>3 DEF DeleteRole, RolesStayWhileUsed, Exists
<1>7. CASE CreateRole
  <2>1. \A r \in Role : Standing(r) => Standing(r)'
    BY <1>7, AccountsAssumption DEF CreateRole, Standing, AccountsTypeOK
  <2>2. \A u \in User : Exists(u) => users[u].role \in Role
    BY DEF AccountsTypeOK, Exists, Account
  <2> QED
    BY <1>7, <2>1, <2>2 DEF CreateRole, RolesStayWhileUsed, Exists
<1>8. CASE Disable \/ Enable
  BY <1>4, <1>8 DEF Disable, Enable
<1>9. CASE UNCHANGED <<users, roles>>
  BY <1>9, SameRoles DEF Exists
<1>10. ASSUME NEW h \in Handler,
              AskCreate(h) \/ Arrive(h) \/ AskRole(h) \/ SaveEditor(h) \/ AskUpdate(h) \/ AskDelete(h)
       PROVE  UNCHANGED <<users, roles>>
  BY <1>10 DEF AskCreate, Arrive, AskRole, SaveEditor, AskUpdate, AskDelete, Begin
<1>11. OpenEditor \/ Toggle \/ CloseEditor \/ UNCHANGED accountsVars => UNCHANGED <<users, roles>>
  BY DEF OpenEditor, Toggle, CloseEditor, accountsVars
<1> QED
  BY <1>1, <1>2, <1>3, <1>5, <1>6, <1>7, <1>8, <1>9, <1>10, <1>11 DEF AccountsNext

(* No account has a role that is gone (the foreign key beside the count of *)
(* Roles.Delete), whoever is given it between the two.                     *)
THEOREM RolesAlwaysStay == AccountsSpec => []RolesStayWhileUsed
<1>1. AccountsSpec => []AccountsTypeOK
  BY AccountsStayTyped
<1> QED
  BY <1>1, UsedInit, UsedStep, PTL DEF AccountsSpec

-----------------------------------------------------------------------------
(* Switches are flipped by clicks                                          *)

(* A draft of a role that stands differs from it by what was clicked, as   *)
(* long as no other save of the role came in.                              *)
Fresh(e) ==
    /\ roles[e.role] # Vacant
    /\ Standing(e.role) /\ ~ e.overtaken => SymDiff(roles[e.role], e.chosen) = e.clicked

DraftsFresh ==
    /\ editor # Vacant => Fresh(editor)
    /\ \A h \in Handler : Doing(h, "update") => Fresh(handlers[h])

(* A draft stays fresh as long as its role stays.                          *)
LEMMA FreshStays ==
    ASSUME NEW e, Fresh(e), roles'[e.role] = roles[e.role]
    PROVE  Fresh(e)'
BY DEF Fresh, Standing

LEMMA DraftsStay ==
    ASSUME DraftsFresh, UNCHANGED <<roles, editor>>,
           \A h \in Handler : Doing(h, "update")' => handlers'[h] = handlers[h]
    PROVE  DraftsFresh'
BY DEF DraftsFresh, Fresh, Standing, Doing

(* A handler that starts has something else to do, or a fresh draft.       *)
LEMMA DraftBegins ==
    ASSUME AccountsTypeOK, DraftsFresh, NEW h \in Handler, NEW job, Begin(h, job),
           job.what = "update" => Fresh(job),
           editor' \in {editor, Vacant}
    PROVE  DraftsFresh'
<1>1. ASSUME NEW g \in Handler, Doing(g, "update")'
      PROVE  Fresh(handlers[g])'
  <2>1. CASE g = h
    <3>1. handlers'[g] = job
      BY <2>1 DEF AccountsTypeOK, Begin
    <3>2. job.what = "update"
      BY <1>1, <3>1 DEF Doing
    <3> QED
      BY <3>1, <3>2 DEF Fresh, Standing, Begin
  <2>2. CASE g # h
    <3>1. handlers'[g] = handlers[g] /\ Doing(g, "update")
      BY <1>1, <2>2 DEF AccountsTypeOK, Begin, Doing
    <3> QED
      BY <3>1 DEF DraftsFresh, Fresh, Standing, Begin
  <2> QED
    BY <2>1, <2>2
<1>2. editor' # Vacant => Fresh(editor)'
  BY DEF DraftsFresh, Fresh, Standing, Begin
<1> QED
  BY <1>1, <1>2 DEF DraftsFresh

LEMMA DraftEnds ==
    ASSUME AccountsTypeOK, NEW h \in Handler, End(h), NEW g \in Handler, Doing(g, "update")'
    PROVE  handlers'[g] = handlers[g] /\ Doing(g, "update")
BY DEF AccountsTypeOK, End, Doing

LEMMA FreshInit == AccountsInit => DraftsFresh
BY DEF AccountsInit, DraftsFresh, Doing

LEMMA FreshStep ==
    AccountsTypeOK /\ DraftsFresh /\ [AccountsNext]_accountsVars => DraftsFresh'
<1> SUFFICES ASSUME AccountsTypeOK, DraftsFresh, [AccountsNext]_accountsVars
             PROVE  DraftsFresh'
  OBVIOUS
<1>1. ASSUME NEW h \in Handler, AskCreate(h) \/ Arrive(h) \/ AskRole(h) \/ AskDelete(h)
      PROVE  DraftsFresh'
  <2>1. editor' = editor
    BY <1>1 DEF AskCreate, Arrive, AskRole, AskDelete
  <2>2. ASSUME NEW job, Begin(h, job), job.what # "update"
        PROVE  DraftsFresh'
    BY <2>1, <2>2, DraftBegins
  <2>3. CASE AskCreate(h)
    <3>1. PICK u \in User, r \in Role :
            Begin(h, [ what |-> "create", user |-> u, role |-> r, linked |-> FALSE ])
      BY <2>3 DEF AskCreate
    <3> QED
      BY <2>2, <3>1
  <2>4. CASE Arrive(h)
    <3>1. PICK u \in User :
            \/ Begin(h, [ what |-> "link", user |-> u ])
            \/ \E r \in {AdminRole, UserRole} :
                Begin(h, [ what |-> "create", user |-> u, linked |-> TRUE, role |-> r ])
      BY <2>4 DEF Arrive
    <3> QED
      BY <2>2, <3>1
  <2>5. CASE AskRole(h)
    <3>1. PICK u \in User, r \in Role : Begin(h, [ what |-> "role", user |-> u, role |-> r ])
      BY <2>5 DEF AskRole
    <3> QED
      BY <2>2, <3>1
  <2>6. CASE AskDelete(h)
    <3>1. PICK r \in Role : Begin(h, [ what |-> "delete", role |-> r ])
      BY <2>6 DEF AskDelete
    <3> QED
      BY <2>2, <3>1
  <2> QED
    BY <1>1, <2>3, <2>4, <2>5, <2>6
<1>2. ASSUME NEW h \in Handler, SaveEditor(h)
      PROVE  DraftsFresh'
  <2> DEFINE job == [ what |-> "update", role |-> editor.role, chosen |-> editor.chosen,
                      clicked |-> editor.clicked, overtaken |-> editor.overtaken ]
  <2>1. Begin(h, job) /\ editor' = Vacant /\ Fresh(editor)
    BY <1>2 DEF SaveEditor, DraftsFresh
  <2>2. Fresh(job)
    BY <2>1 DEF Fresh
  <2> HIDE DEF job
  <2> QED
    BY <2>1, <2>2, DraftBegins
<1>3. ASSUME NEW h \in Handler, AskUpdate(h)
      PROVE  DraftsFresh'
  <2>1. PICK r \in Role, clicked \in SUBSET Permission :
            /\ Standing(r)
            /\ Begin(h, [ what |-> "update", role |-> r, clicked |-> clicked, overtaken |-> FALSE,
                          chosen |-> SymDiff(roles[r], clicked) ])
    BY <1>3 DEF AskUpdate
  <2> DEFINE job == [ what |-> "update", role |-> r, clicked |-> clicked, overtaken |-> FALSE,
                      chosen |-> SymDiff(roles[r], clicked) ]
  <2>2. SymDiff(roles[r], SymDiff(roles[r], clicked)) = clicked
    BY DEF SymDiff
  <2>3. Fresh(job)
    BY <2>1, <2>2 DEF Fresh, Standing
  <2>4. editor' = editor
    BY <1>3 DEF AskUpdate
  <2> HIDE DEF job
  <2>5. Begin(h, job)
    BY <2>1 DEF job
  <2> QED
    BY <2>3, <2>4, <2>5, DraftBegins
<1>4. ASSUME NEW h \in Handler, UpdateRole(h)
      PROVE  DraftsFresh'
  <2>1. PICK r \in Role : r = handlers[h].role
    BY <1>4, Doings, JobFields DEF UpdateRole
  <2>2. ASSUME NEW e, e # Vacant, e.role \in Role, Fresh(e),
               Overtaken(e, r).role = e.role,
               e.role = r => Overtaken(e, r).overtaken
        PROVE  Fresh(Overtaken(e, r))'
    <3>1. CASE e.role = r
      <4>1. roles'[r] # Vacant
        <5>1. handlers[h].chosen \in SUBSET Permission
          BY <1>4, Doings, JobFields DEF UpdateRole, Switches
        <5> QED
          BY <1>4, <2>1, <2>2, <3>1, <5>1, AccountsAssumption
             DEF UpdateRole, AccountsTypeOK, Fresh, Standing
      <4> QED
        BY <2>1, <2>2, <3>1, <4>1 DEF Fresh
    <3>2. CASE e.role # r
      <4>1. Overtaken(e, r) = e
        BY <3>2 DEF Overtaken
      <4>2. roles'[e.role] = roles[e.role]
        BY <1>4, <2>1, <2>2, <3>2 DEF UpdateRole, AccountsTypeOK
      <4> QED
        BY <2>2, <4>1, <4>2, FreshStays
    <3> QED
      BY <3>1, <3>2
  <2>3. editor' # Vacant => Fresh(editor)'
    <3> SUFFICES ASSUME editor' # Vacant
                 PROVE  Fresh(editor)'
      OBVIOUS
    <3>1. editor' = Overtaken(editor, r)
      BY <1>4, <2>1 DEF UpdateRole
    <3>2. PICK e \in Editor : e = editor
      BY <3>1 DEF Overtaken, AccountsTypeOK
    <3>3. e # Vacant /\ Fresh(e)
      BY <3>1, <3>2 DEF Overtaken, DraftsFresh
    <3>4. Overtaken(e, r).role = e.role /\ (e.role = r => Overtaken(e, r).overtaken)
      BY <3>2, <3>3 DEF Overtaken, Editor
    <3>5. Fresh(Overtaken(e, r))'
      BY <2>2, <3>2, <3>3, <3>4 DEF Editor
    <3> QED
      BY <3>1, <3>2, <3>5 DEF Fresh, Standing
  <2>4. ASSUME NEW g \in Handler, Doing(g, "update")'
        PROVE  Fresh(handlers[g])'
    <3>1. Doing(g, "update") /\ handlers'[g] = Overtaken(handlers[g], r)
      BY <1>4, <2>1, <2>4 DEF UpdateRole, Doing
    <3>2. PICK e \in [ what : {"update"}, role : Role, chosen : Switches,
                       clicked : Switches, overtaken : BOOLEAN ] : e = handlers[g]
      BY <3>1, Doings DEF Job
    <3>3. e # Vacant /\ Fresh(e)
      BY <3>1, <3>2 DEF Doing, DraftsFresh
    <3>4. Overtaken(e, r).role = e.role /\ (e.role = r => Overtaken(e, r).overtaken)
      BY <3>2, <3>3 DEF Overtaken
    <3>5. Fresh(Overtaken(e, r))'
      BY <2>2, <3>2, <3>3, <3>4
    <3> QED
      BY <3>1, <3>2, <3>5 DEF Fresh, Standing
  <2> QED
    BY <2>3, <2>4 DEF DraftsFresh
<1>5. ASSUME NEW h \in Handler, DeleteRole(h)
      PROVE  DraftsFresh'
  <2>1. ASSUME NEW e, Fresh(e), e.role \in Role
        PROVE  Fresh(e)'
    <3>1. CASE roles'[e.role] = roles[e.role]
      BY <2>1, <3>1, FreshStays
    <3>2. CASE roles'[e.role] = Gone
      BY <3>2, AccountsAssumption DEF Fresh, Standing
    <3> QED
      BY <1>5, <2>1, <3>1, <3>2 DEF DeleteRole, AccountsTypeOK
  <2>2. editor' # Vacant => Fresh(editor)'
    BY <1>5, <2>1 DEF DeleteRole, DraftsFresh, AccountsTypeOK, Editor, Fresh, Standing
  <2>3. ASSUME NEW g \in Handler, Doing(g, "update")'
        PROVE  Fresh(handlers[g])'
    <3>1. handlers'[g] = handlers[g] /\ Doing(g, "update")
      BY <1>5, <2>3, DraftEnds DEF DeleteRole
    <3>2. handlers[g].role \in Role
      BY <3>1, Doings, JobFields
    <3> QED
      BY <2>1, <3>1, <3>2 DEF DraftsFresh, Fresh, Standing
  <2> QED
    BY <2>2, <2>3 DEF DraftsFresh
<1>6. CASE CreateRole
  <2>1. PICK r \in Role : /\ roles[r] = Vacant
                          /\ \A q \in Role \ {r} : roles'[q] = roles[q]
                          /\ UNCHANGED <<handlers, editor>>
    BY <1>6 DEF CreateRole, AccountsTypeOK
  <2>2. ASSUME NEW e, Fresh(e), e.role \in Role
        PROVE  Fresh(e)'
    BY <2>1, <2>2, FreshStays DEF Fresh
  <2>3. editor' # Vacant => Fresh(editor)'
    BY <2>1, <2>2 DEF DraftsFresh, AccountsTypeOK, Editor, Fresh, Standing
  <2>4. ASSUME NEW g \in Handler, Doing(g, "update")'
        PROVE  Fresh(handlers[g])'
    <3>1. Doing(g, "update") /\ handlers'[g] = handlers[g] /\ handlers[g].role \in Role
      BY <2>1, <2>4, Doings, JobFields DEF Doing
    <3> QED
      BY <2>2, <3>1 DEF DraftsFresh, Fresh, Standing
  <2> QED
    BY <2>3, <2>4 DEF DraftsFresh
<1>7. CASE OpenEditor
  <2>1. PICK r \in Role : /\ Standing(r)
                          /\ editor' = Opened(r)
                          /\ UNCHANGED <<users, roles, handlers, requests>>
    BY <1>7 DEF OpenEditor
  <2>2. Fresh(editor)'
    BY <2>1 DEF Fresh, Opened, Standing, SymDiff
  <2> QED
    BY <2>1, <2>2 DEF DraftsFresh, Doing, Fresh, Standing
<1>8. CASE Toggle
  <2>1. PICK p \in Permission :
            /\ editor # Vacant
            /\ editor' = [editor EXCEPT !.chosen = Toggled(@, p), !.clicked = Toggled(@, p)]
            /\ UNCHANGED <<users, roles, handlers, requests>>
    BY <1>8 DEF Toggle
  <2>2. editor \in Editor /\ Fresh(editor)
    BY <2>1 DEF AccountsTypeOK, DraftsFresh
  <2>3. /\ editor'.role = editor.role
        /\ editor'.overtaken = editor.overtaken
        /\ editor'.chosen = Toggled(editor.chosen, p)
        /\ editor'.clicked = Toggled(editor.clicked, p)
    BY <2>1, <2>2 DEF Editor
  <2>4. ASSUME NEW a, NEW b, NEW c, SymDiff(a, b) = c
        PROVE  SymDiff(a, Toggled(b, p)) = Toggled(c, p)
    BY <2>4 DEF SymDiff, Toggled
  <2>5. Standing(editor.role) /\ ~ editor.overtaken =>
            SymDiff(roles[editor.role], editor'.chosen) = editor'.clicked
    BY <2>2, <2>3, <2>4 DEF Fresh
  <2>6. Fresh(editor)'
    BY <2>1, <2>2, <2>3, <2>5 DEF Fresh, Standing
  <2> QED
    BY <2>1, <2>6 DEF DraftsFresh, Doing, Fresh, Standing
<1>9. CASE CloseEditor
  BY <1>9 DEF CloseEditor, DraftsFresh, Doing, Fresh, Standing
<1>10. CASE Disable \/ Enable \/ UNCHANGED accountsVars
  BY <1>10, DraftsStay DEF Disable, Enable, Write, accountsVars
<1>11. ASSUME NEW h \in Handler, Create(h) \/ LinkOIDC(h) \/ SetRole(h)
       PROVE  DraftsFresh'
  <2>1. End(h) /\ UNCHANGED <<roles, editor>>
    BY <1>11 DEF Create, LinkOIDC, SetRole, Write, NoChange
  <2> QED
    BY <2>1, DraftEnds, DraftsStay
<1> QED
  BY <1>1, <1>2, <1>3, <1>4, <1>5, <1>6, <1>7, <1>8, <1>9, <1>10, <1>11 DEF AccountsNext

(* The step of a fresh draft flips what was clicked.                       *)
LEMMA FlipsExplained ==
    ASSUME AccountsTypeOK, DraftsFresh, AccountsNext, NEW r \in Role,
           Standing(r), roles'[r] # roles[r], roles'[r] # Gone
    PROVE  \E h \in Handler :
             /\ Doing(h, "update") /\ handlers'[h] = Vacant
             /\ handlers[h].overtaken \/ SymDiff(roles[r], roles'[r]) = handlers[h].clicked
<1>1. ~ CreateRole
  BY DEF CreateRole, Standing, AccountsTypeOK
<1>2. \A h \in Handler : ~ DeleteRole(h)
  <2> SUFFICES ASSUME NEW h \in Handler, DeleteRole(h)
               PROVE  FALSE
    OBVIOUS
  <2>1. handlers[h].role \in Role
    BY Doings, JobFields DEF DeleteRole
  <2> QED
    BY <2>1 DEF DeleteRole, AccountsTypeOK
<1>3. \A h \in Handler :
        ~ (\/ AskCreate(h) \/ Arrive(h) \/ AskRole(h) \/ SaveEditor(h) \/ AskUpdate(h)
           \/ AskDelete(h) \/ Create(h) \/ LinkOIDC(h) \/ SetRole(h))
  BY DEF AskCreate, Arrive, AskRole, SaveEditor, AskUpdate, AskDelete, Create, LinkOIDC,
         SetRole, Begin, Write, NoChange
<1>4. ~ (Disable \/ Enable \/ OpenEditor \/ Toggle \/ CloseEditor)
  BY DEF Disable, Enable, OpenEditor, Toggle, CloseEditor, Write
<1>5. PICK h \in Handler : UpdateRole(h)
  BY <1>1, <1>2, <1>3, <1>4 DEF AccountsNext
<1>6. handlers[h].role \in Role /\ handlers[h].overtaken \in BOOLEAN
  BY <1>5, Doings, JobFields DEF UpdateRole
<1>7. handlers[h].role = r /\ roles'[r] = handlers[h].chosen
  BY <1>5, <1>6 DEF UpdateRole, AccountsTypeOK
<1>8. Fresh(handlers[h])
  BY <1>5 DEF UpdateRole, DraftsFresh
<1>9. Doing(h, "update") /\ handlers'[h] = Vacant
  BY <1>5 DEF UpdateRole
<1>10. handlers[h].overtaken \/ SymDiff(roles[r], roles'[r]) = handlers[h].clicked
  BY <1>7, <1>8 DEF Fresh
<1> QED
  BY <1>9, <1>10

(* A save flips the switches that were clicked in its dialog and no other, *)
(* unless another save of the role came in between (RoleEditor and         *)
(* Roles.Update), for any roles, permissions and handlers.                 *)
THEOREM SwitchesAlwaysExplained == AccountsSpec => SwitchesAreExplained
<1>1. ASSUME AccountsTypeOK, DraftsFresh, [AccountsNext]_accountsVars
      PROVE  [ \A r \in Role : Standing(r) /\ roles'[r] # roles[r] /\ roles'[r] # Gone =>
                 \E h \in Handler :
                    /\ Doing(h, "update") /\ handlers'[h] = Vacant
                    /\ \/ handlers[h].overtaken
                       \/ SymDiff(roles[r], roles'[r]) = handlers[h].clicked ]_accountsVars
  BY <1>1, FlipsExplained DEF accountsVars
<1>2. AccountsSpec => []AccountsTypeOK
  BY AccountsStayTyped
<1> QED
  BY <1>1, <1>2, FreshInit, FreshStep, PTL DEF AccountsSpec, SwitchesAreExplained

-----------------------------------------------------------------------------
(* Type correctness                                                        *)

LEMMA FilledTyped ==
    ASSUME NEW asset \in Row
    PROVE  Filled(asset) \in Draft
BY DEF Filled, Draft, Row, Attrs

LEMMA PreparedTyped ==
    ASSUME NEW attrs \in [ Key -> Value \cup {Nothing, Blank} ],
           NEW m \in FormModel \cup {Nothing}
    PROVE  Prepared(attrs, m) \in Attrs
<1>1. ASSUME NEW k \in Key, m # Nothing
      PROVE  Defaults[m][k] \in Value \cup {Nothing}
  BY <1>1, FormAssumption
<1> QED
  BY <1>1, FormAssumption DEF Prepared, Attrs

LEMMA AcceptedTyped ==
    ASSUME NEW page \in Draft
    PROVE  Accepted(page) \in Row
BY PreparedTyped DEF Accepted, Draft, Row

LEMMA BumpedTyped ==
    ASSUME NEW r \in Row
    PROVE  Bumped(r) \in Row /\ Bumped(r).version = r.version + 1
BY DEF Bumped, Row

LEMMA FormTypeInit == FormInit => FormTypeOK
<1> SUFFICES ASSUME FormInit
             PROVE  FormTypeOK
  OBVIOUS
<1>1. row \in Row
  BY DEF FormInit, Row
<1> QED
  BY <1>1, FilledTyped DEF FormInit, FormTypeOK

LEMMA FormTypeStep == FormTypeOK /\ [FormNext]_formVars => FormTypeOK'
<1> SUFFICES ASSUME FormTypeOK, [FormNext]_formVars
             PROVE  FormTypeOK'
  OBVIOUS
<1> USE DEF FormTypeOK
<1>1. CASE Refetch
  BY <1>1, FilledTyped DEF Refetch
<1>2. CASE OpenForm
  BY <1>2 DEF OpenForm
<1>3. CASE CloseForm
  BY <1>3 DEF CloseForm
<1>4. ASSUME NEW k \in Key, NEW v \in Value \cup {Blank}, FillIn(k, v)
      PROVE  FormTypeOK'
  BY <1>4 DEF FillIn, Page, Draft
<1>5. ASSUME NEW m \in FormModel \cup {Nothing}, PickModel(m)
      PROVE  FormTypeOK'
  <2>1. CASE form' = [form EXCEPT !.page.model = m, !.page.chose = TRUE]
    BY <1>5, <2>1 DEF PickModel, Draft
  <2>2. CASE form' = form
    BY <1>5, <2>2 DEF PickModel
  <2> QED
    BY <1>5, <2>1, <2>2 DEF PickModel
<1>6. CASE ApplyDefaults
  <2>1. question \in FormModel
    BY <1>6 DEF ApplyDefaults
  <2>2. [ k \in Key |-> IF k \in Carried(question) THEN Defaults[question][k] ELSE Page.attrs[k] ]
            \in [ Key -> Value \cup {Nothing, Blank} ]
    BY <2>1, FormAssumption DEF Page, Draft
  <2>3. Carried(question) \subseteq Key
    BY DEF Carried
  <2> QED
    BY <1>6, <2>1, <2>2, <2>3 DEF ApplyDefaults, Draft
<1>7. CASE ChangeModelOnly
  BY <1>7 DEF ChangeModelOnly, Draft
<1>8. CASE Dismiss
  BY <1>8 DEF Dismiss
<1>9. CASE Save
  BY <1>9 DEF Save, Page, Answers
<1>10. CASE ServerSaves
  <2>1. save \in [ page : Draft, answer : Answers ]
    BY <1>10 DEF ServerSaves
  <2>2. Accepted(save.page) \in Row
    BY <2>1, AcceptedTyped
  <2> QED
    BY <1>10, <2>1, <2>2 DEF ServerSaves, Answers
<1>11. CASE AnswerSave
  BY <1>11 DEF AnswerSave
<1>12. ASSUME NEW p \in Place, Relocate(p)
       PROVE  FormTypeOK'
  <2>1. row' \in Row
    BY <1>12, BumpedTyped DEF Relocate, Row
  <2> QED
    BY <1>12, <2>1 DEF Relocate
<1>13. ASSUME NEW k \in Key, NEW v \in Value \cup {Nothing}, ColleagueSaves(k, v)
       PROVE  FormTypeOK'
  <2>1. [Bumped(row).attrs EXCEPT ![k] = v] \in Attrs
    BY BumpedTyped DEF Row, Attrs
  <2>2. row' = [Bumped(row) EXCEPT !.attrs = [Bumped(row).attrs EXCEPT ![k] = v]]
    BY <1>13, BumpedTyped DEF ColleagueSaves, Row
  <2>3. row' \in Row
    BY <2>1, <2>2, BumpedTyped DEF Row
  <2> QED
    BY <1>13, <2>3 DEF ColleagueSaves
<1>14. CASE UNCHANGED formVars
  BY <1>14 DEF formVars
<1> QED
  BY <1>1, <1>2, <1>3, <1>4, <1>5, <1>6, <1>7, <1>8, <1>9, <1>10, <1>11, <1>12, <1>13, <1>14
     DEF FormNext

(* The row, the page and the save under way keep their shapes              *)
(* (AssetDetail, Persist).                                                 *)
THEOREM FormStaysTyped == FormSpec => []FormTypeOK
BY FormTypeInit, FormTypeStep, PTL DEF FormSpec

-----------------------------------------------------------------------------
(* What a draft knows                                                      *)

(* What was neither typed nor picked is as it was in the device the form   *)
(* was filled from.                                                        *)
Honest(page) ==
    /\ \A k \in Key : k \notin page.touched => page.attrs[k] = page.asset.attrs[k]
    /\ ~ page.chose => page.model = page.asset.model

(* That device is not newer than the row, and is the row when it is as     *)
(* new.                                                                    *)
Backed(page) ==
    /\ page.asset.version <= row.version
    /\ page.asset.version = row.version => page.asset = row

DraftsKnown ==
    /\ Honest(form.page) /\ Backed(form.page)
    /\ save # Nothing => Honest(save.page) /\ Backed(save.page)

LEMMA KnownInit == FormInit => DraftsKnown
BY FormAssumption DEF FormInit, DraftsKnown, Honest, Backed, Filled

(* Whatever is behind a newer row is known to be behind.                   *)
LEMMA NewerRow ==
    ASSUME NEW page \in Draft, row \in Row, row' \in Row, Backed(page),
           row'.version = row.version + 1
    PROVE  Backed(page)'
BY DEF Backed, Draft, Row

LEMMA RowMoves ==
    ASSUME FormTypeOK, FormTypeOK', DraftsKnown, row'.version = row.version + 1,
           form' = form,
           save' # Nothing => save # Nothing /\ save'.page = save.page
    PROVE  DraftsKnown'
<1>1. form.page \in Draft /\ row \in Row /\ row' \in Row
  BY DEF FormTypeOK
<1>2. Honest(form'.page) /\ Backed(form.page)'
  BY <1>1, NewerRow DEF DraftsKnown
<1>3. ASSUME save' # Nothing
      PROVE  Honest(save'.page) /\ Backed(save.page)'
  <2>1. save.page \in Draft /\ Honest(save.page) /\ Backed(save.page)
    BY <1>3 DEF FormTypeOK, DraftsKnown
  <2> QED
    BY <1>1, <1>3, <2>1, NewerRow DEF Backed
<1> QED
  BY <1>2, <1>3 DEF DraftsKnown, Honest, Backed

(* The form changes, of the same device or of the row.                     *)
LEMMA FormMoves ==
    ASSUME DraftsKnown, row' = row,
           Honest(form'.page),
           form'.page.asset \in {form.page.asset, row},
           save' # Nothing => save # Nothing /\ save'.page = save.page,
           row.version \in Nat
    PROVE  DraftsKnown'
BY DEF DraftsKnown, Backed, Honest

LEMMA KnownStep ==
    FormTypeOK /\ FormTypeOK' /\ DraftsKnown /\ [FormNext]_formVars => DraftsKnown'
<1> SUFFICES ASSUME FormTypeOK, FormTypeOK', DraftsKnown, [FormNext]_formVars
             PROVE  DraftsKnown'
  OBVIOUS
<1>0. /\ row.version \in Nat /\ form.page \in Draft
      /\ Honest(form.page) /\ Backed(form.page)
  BY DEF FormTypeOK, Row, DraftsKnown
<1>1. CASE Refetch
  <2>1. form'.page = Filled(row)
    BY <1>1 DEF Refetch, FormTypeOK
  <2>2. Honest(form'.page) /\ form'.page.asset = row
    BY <2>1 DEF Honest, Filled
  <2> QED
    BY <1>0, <1>1, <2>2, FormMoves DEF Refetch
<1>2. CASE OpenForm \/ CloseForm \/ AnswerSave
  <2>1. form'.page = form.page
    BY <1>2 DEF OpenForm, CloseForm, AnswerSave, FormTypeOK
  <2> QED
    BY <1>0, <1>2, <2>1, FormMoves DEF OpenForm, CloseForm, AnswerSave
<1>3. ASSUME NEW k \in Key, NEW v \in Value \cup {Blank}, FillIn(k, v)
      PROVE  DraftsKnown'
  <2>1. /\ form'.page.asset = form.page.asset
        /\ form'.page.touched = form.page.touched \cup {k}
        /\ form'.page.chose = form.page.chose
        /\ form'.page.model = form.page.model
        /\ \A l \in Key \ {k} : form'.page.attrs[l] = form.page.attrs[l]
    BY <1>3 DEF FillIn, FormTypeOK, Draft
  <2>2. Honest(form'.page)
    BY <1>0, <2>1, Zenon DEF Honest
  <2> QED
    BY <1>0, <1>3, <2>1, <2>2, FormMoves DEF FillIn
<1>4. ASSUME NEW m \in FormModel \cup {Nothing}, PickModel(m)
      PROVE  DraftsKnown'
  <2>1. CASE form' = [form EXCEPT !.page.model = m, !.page.chose = TRUE]
    <3>1. /\ form'.page.asset = form.page.asset
          /\ form'.page.touched = form.page.touched
          /\ form'.page.attrs = form.page.attrs
          /\ form'.page.chose = TRUE
      BY <2>1 DEF FormTypeOK, Draft
    <3>2. Honest(form'.page)
      BY <1>0, <3>1 DEF Honest
    <3> QED
      BY <1>0, <1>4, <3>1, <3>2, FormMoves DEF PickModel
  <2>2. CASE form' = form
    BY <1>0, <1>4, <2>2, FormMoves DEF PickModel
  <2> QED
    BY <1>4, <2>1, <2>2 DEF PickModel
<1>5. CASE ApplyDefaults
  <2>1. /\ form'.page.asset = form.page.asset
        /\ form'.page.touched = form.page.touched \cup Carried(question)
        /\ form'.page.chose = TRUE
        /\ \A k \in Key \ Carried(question) : form'.page.attrs[k] = form.page.attrs[k]
    BY <1>5 DEF ApplyDefaults, FormTypeOK, Draft, Page
  <2>2. Honest(form'.page)
    BY <1>0, <2>1 DEF Honest
  <2> QED
    BY <1>0, <1>5, <2>1, <2>2, FormMoves DEF ApplyDefaults
<1>6. CASE ChangeModelOnly
  <2>1. /\ form'.page.asset = form.page.asset
        /\ form'.page.touched = form.page.touched
        /\ form'.page.attrs = form.page.attrs
        /\ form'.page.chose = TRUE
    BY <1>6 DEF ChangeModelOnly, FormTypeOK, Draft
  <2>2. Honest(form'.page)
    BY <1>0, <2>1 DEF Honest
  <2> QED
    BY <1>0, <1>6, <2>1, <2>2, FormMoves DEF ChangeModelOnly
<1>7. CASE Dismiss \/ UNCHANGED formVars
  BY <1>0, <1>7, FormMoves DEF Dismiss, formVars
<1>8. CASE Save
  BY <1>0, <1>8 DEF Save, Page, DraftsKnown, Honest, Backed
<1>9. CASE ServerSaves
  <2>1. /\ save \in [ page : Draft, answer : Answers ]
        /\ form' = form /\ save'.page = save.page
    BY <1>9 DEF ServerSaves, FormTypeOK
  <2>2. CASE row' = row
    BY <1>0, <1>9, <2>1, <2>2, FormMoves DEF ServerSaves
  <2>3. CASE Current(save.page) /\ row' = Accepted(save.page)
    <3>1. row'.version = row.version + 1
      BY <2>3 DEF Current, Accepted
    <3> QED
      BY <1>9, <2>1, <3>1, RowMoves DEF ServerSaves
  <2> QED
    BY <1>9, <2>2, <2>3 DEF ServerSaves
<1>10. ASSUME NEW p \in Place, Relocate(p)
       PROVE  DraftsKnown'
  <2>1. row'.version = row.version + 1
    BY <1>10 DEF Relocate, Bumped, FormTypeOK, Row
  <2> QED
    BY <1>10, <2>1, RowMoves DEF Relocate
<1>11. ASSUME NEW k \in Key, NEW v \in Value \cup {Nothing}, ColleagueSaves(k, v)
       PROVE  DraftsKnown'
  <2>1. row'.version = row.version + 1
    BY <1>11 DEF ColleagueSaves, Bumped, FormTypeOK, Row
  <2> QED
    BY <1>11, <2>1, RowMoves DEF ColleagueSaves
<1> QED
  BY <1>1, <1>2, <1>3, <1>4, <1>5, <1>6, <1>7, <1>8, <1>9, <1>10, <1>11 DEF FormNext

-----------------------------------------------------------------------------
(* What a save does                                                        *)

(* A save that lands is of the row as it is.                               *)
LEMMA LandsOnWhatItKnows ==
    ASSUME FormTypeOK, DraftsKnown, FormNext, Lands
    PROVE  /\ save.page \in Draft /\ Honest(save.page)
           /\ save.page.asset = row /\ row \in Row
           /\ row' = Accepted(save.page)
<1>1. save \in [ page : Draft, answer : Answers ]
  BY DEF Lands, FormTypeOK
<1>2. ServerSaves
  BY FormAssumption DEF Lands, FormNext, Refetch, OpenForm, CloseForm, FillIn, PickModel,
     ApplyDefaults, ChangeModelOnly, Dismiss, Save, AnswerSave, Relocate, ColleagueSaves
<1>3. Current(save.page) /\ row' = Accepted(save.page)
  BY <1>1, <1>2 DEF ServerSaves, Lands
<1> QED
  BY <1>1, <1>3 DEF Lands, DraftsKnown, Backed, Current, FormTypeOK

(* A key that was not typed keeps its value, if it has one.                *)
LEMMA KeepsUntouched ==
    ASSUME NEW page \in Draft, Honest(page), page.asset = row, row \in Row,
           NEW k \in Key, k \notin page.touched, row.attrs[k] # Nothing
    PROVE  Accepted(page).attrs[k] = row.attrs[k]
<1>1. page.attrs[k] = row.attrs[k]
  BY DEF Honest
<1>2. row.attrs[k] \notin {Nothing, Blank}
  BY FormAssumption DEF Row, Attrs
<1> QED
  BY <1>1, <1>2 DEF Accepted, Prepared

(* No save writes over what its author had not in front of them            *)
(* (AssetDetail's effect of [asset], and the version of Persist), for any  *)
(* form and any number of colleagues' saves.                               *)
THEOREM NothingUnseenIsEverOverwritten == FormSpec => NothingUnseenIsOverwritten
<1>1. ASSUME FormTypeOK, DraftsKnown, [FormNext]_formVars
      PROVE  [ Lands =>
                /\ \A k \in Key : row'.attrs[k] # row.attrs[k] =>
                                      k \in save.page.touched \/ row.attrs[k] = Nothing
                /\ row'.model # row.model => save.page.chose ]_formVars
  <2> SUFFICES ASSUME FormNext, Lands
               PROVE  /\ \A k \in Key : row'.attrs[k] # row.attrs[k] =>
                                      k \in save.page.touched \/ row.attrs[k] = Nothing
                      /\ row'.model # row.model => save.page.chose
    BY <1>1
  <2>1. /\ save.page \in Draft /\ Honest(save.page)
        /\ save.page.asset = row /\ row \in Row
        /\ row' = Accepted(save.page)
    BY <1>1, LandsOnWhatItKnows
  <2>2. \A k \in Key : row'.attrs[k] # row.attrs[k] =>
                           k \in save.page.touched \/ row.attrs[k] = Nothing
    BY <2>1, KeepsUntouched
  <2>3. row'.model # row.model => save.page.chose
    BY <2>1 DEF Accepted, Honest
  <2> QED
    BY <2>2, <2>3
<1>2. FormSpec => []FormTypeOK
  BY FormStaysTyped
<1> QED
  BY <1>1, <1>2, KnownInit, KnownStep, PTL DEF FormSpec, NothingUnseenIsOverwritten

(* No save moves the device (the place that AssetDetail sends from its     *)
(* cache), whoever moved it since.                                         *)
THEOREM SavesNeverMove == FormSpec => SavesMoveNothing
<1>1. ASSUME FormTypeOK, DraftsKnown, [FormNext]_formVars
      PROVE  [ Lands => row'.place = row.place ]_formVars
  BY <1>1, LandsOnWhatItKnows DEF Accepted
<1>2. FormSpec => []FormTypeOK
  BY FormStaysTyped
<1> QED
  BY <1>1, <1>2, KnownInit, KnownStep, PTL DEF FormSpec, SavesMoveNothing

-----------------------------------------------------------------------------
(* What the list counts and what it finds                                  *)

(* Induction up to n, for a set of numbers.                                *)
LEMMA UpTo ==
    ASSUME NEW n \in Nat, NEW S, 0 \in S,
           \A i \in 0..n : i < n /\ i \in S => i + 1 \in S
    PROVE  \A i \in 0..n : i \in S
<1> DEFINE T == { i \in 0..n : i \notin S }
<1> SUFFICES ASSUME T # {}
             PROVE  FALSE
  OBVIOUS
<1>1. T \subseteq Nat
  OBVIOUS
<1>2. PICK i \in T : \A j \in T : <<j, i>> \notin OpToRel(<, Nat)
  BY <1>1, WFMin, NatLessThanWellFounded
<1>3. i # 0 /\ i \in Nat /\ i <= n /\ i \notin S
  OBVIOUS
<1>4. i - 1 \in 0..n /\ i - 1 < n /\ i - 1 \in Nat /\ i - 1 < i /\ (i - 1) + 1 = i
  BY <1>3
<1>5. <<i - 1, i>> \in OpToRel(<, Nat)
  BY <1>3, <1>4 DEF OpToRel
<1>6. i - 1 \in S
  BY <1>2, <1>4, <1>5
<1> QED
  BY <1>3, <1>4, <1>6

(* SumFunction as the function it iterates.                                *)
Sums(iter, f, S) ==
    iter = [ s \in SUBSET S |->
               IF s = {} THEN 0
               ELSE f[CHOOSE x \in s : TRUE] + iter[s \ {CHOOSE x \in s : TRUE}] ]

LEMMA SumIs ==
    ASSUME NEW f, NEW S, DOMAIN f = S
    PROVE  SumFunction(f) = (CHOOSE iter : Sums(iter, f, S))[S]
BY DEF SumFunction, SumFunctionOnSet, FoldFunctionOnSet, MapThenFoldSet, Sums

(* A function that follows the recursion is the one it iterates.           *)
LEMMA SumUnique ==
    ASSUME NEW S, IsFiniteSet(S), NEW f, NEW g, NEW h, Sums(g, f, S), Sums(h, f, S)
    PROVE  g[S] = h[S]
<1> DEFINE pick(s) == CHOOSE x \in s : TRUE
           T == { s \in SUBSET S : g[s] # h[s] }
<1>1. ASSUME NEW s \in SUBSET S
      PROVE  /\ g[s] = IF s = {} THEN 0 ELSE f[pick(s)] + g[s \ {pick(s)}]
             /\ h[s] = IF s = {} THEN 0 ELSE f[pick(s)] + h[s \ {pick(s)}]
  BY DEF Sums
<1>2. ASSUME NEW s, s # {}
      PROVE  pick(s) \in s
  BY <1>2
<1> HIDE DEF pick
<1> SUFFICES ASSUME T # {}
             PROVE  FALSE
  OBVIOUS
<1>3. IsWellFoundedOn(StrictSubsetOrdering(S), SUBSET S)
  BY FS_StrictSubsetOrderingWellFounded, FS_FiniteSubsetsOfFinite
<1>4. T \subseteq SUBSET S
  OBVIOUS
<1>5. PICK s \in T : \A t \in T : <<t, s>> \notin StrictSubsetOrdering(S)
  BY <1>3, <1>4, WFMin
<1>6. s \in SUBSET S /\ g[s] # h[s]
  OBVIOUS
<1>7. s # {}
  BY <1>1, <1>6
<1>8. s \ {pick(s)} \in SUBSET S /\ s \ {pick(s)} # s
  BY <1>2, <1>6, <1>7
<1>9. <<s \ {pick(s)}, s>> \in StrictSubsetOrdering(S)
  BY <1>6, <1>8 DEF StrictSubsetOrdering
<1>10. g[s \ {pick(s)}] = h[s \ {pick(s)}]
  BY <1>5, <1>8, <1>9
<1> QED
  BY <1>1, <1>6, <1>7, <1>10

(* There is one, for numbers on a finite set.                              *)
LEMMA SumExists ==
    ASSUME NEW S, IsFiniteSet(S), NEW f \in [S -> Nat]
    PROVE  \E iter \in [SUBSET S -> Nat] : Sums(iter, f, S)
<1> DEFINE pick(s) == CHOOSE x \in s : TRUE
           upto(n) == { s \in SUBSET S : Cardinality(s) <= n }
           right(g, n) ==
              \A s \in upto(n) : g[s] = IF s = {} THEN 0 ELSE f[pick(s)] + g[s \ {pick(s)}]
           N == { n \in Nat : \E g \in [SUBSET S -> Nat] : right(g, n) }
<1>1. ASSUME NEW s \in SUBSET S
      PROVE  /\ Cardinality(s) \in Nat
             /\ Cardinality(s) <= Cardinality(S)
             /\ Cardinality(s) = 0 <=> s = {}
             /\ s # {} => /\ pick(s) \in s
                          /\ s \ {pick(s)} \in SUBSET S
                          /\ Cardinality(s \ {pick(s)}) = Cardinality(s) - 1
  <2>1. IsFiniteSet(s) /\ Cardinality(s) <= Cardinality(S)
    BY FS_Subset
  <2>2. s # {} => pick(s) \in s
    OBVIOUS
  <2> HIDE DEF pick
  <2>3. Cardinality(s) \in Nat
    BY <2>1, FS_CardinalityType
  <2>4. Cardinality(s) = 0 <=> s = {}
    BY <2>1, FS_EmptySet
  <2>5. s # {} => Cardinality(s \ {pick(s)}) = Cardinality(s) - 1
    BY <2>1, <2>2, FS_RemoveElement
  <2> QED
    BY <2>1, <2>2, <2>3, <2>4, <2>5
<1>2. Cardinality(S) \in Nat
  BY FS_CardinalityType
<1> HIDE DEF pick
<1>3. 0 \in N
  <2>2. ASSUME NEW s \in upto(0)
        PROVE  s = {}
    <3>1. s \in SUBSET S /\ Cardinality(s) <= 0
      OBVIOUS
    <3>2. Cardinality(s) \in Nat
      BY <1>1, <3>1
    <3>3. Cardinality(s) = 0
      BY <3>1, <3>2
    <3> QED
      BY <1>1, <3>1, <3>3
  <2>3. {} \in SUBSET S
    OBVIOUS
  <2> DEFINE zero == [ s \in SUBSET S |-> 0 ]
  <2>4. zero[{}] = 0
    BY <2>3
  <2>5. zero \in [SUBSET S -> Nat]
    OBVIOUS
  <2> HIDE DEF zero
  <2>6. right(zero, 0)
    <3> SUFFICES ASSUME NEW s \in upto(0)
                 PROVE  zero[s] = IF s = {} THEN 0 ELSE f[pick(s)] + zero[s \ {pick(s)}]
      OBVIOUS
    <3>1. s = {}
      BY <2>2
    <3> QED
      BY <2>4, <3>1
  <2> HIDE DEF right
  <2> QED
    BY <2>5, <2>6
<1>4. ASSUME NEW n \in Nat, n \in N
      PROVE  n + 1 \in N
  <2>1. PICK g \in [SUBSET S -> Nat] : right(g, n)
    BY <1>4
  <2> DEFINE h == [ s \in SUBSET S |->
                      IF s = {} THEN 0 ELSE f[pick(s)] + g[s \ {pick(s)}] ]
  <2>2. h \in [SUBSET S -> Nat]
    <3>1. ASSUME NEW s \in SUBSET S, s # {}
          PROVE  f[pick(s)] + g[s \ {pick(s)}] \in Nat
      BY <1>1, <3>1
    <3> QED
      BY <3>1
  <2>3. ASSUME NEW s \in upto(n)
        PROVE  h[s] = g[s]
    BY <2>1
  <2>4. ASSUME NEW s \in upto(n + 1)
        PROVE  h[s] = IF s = {} THEN 0 ELSE f[pick(s)] + h[s \ {pick(s)}]
    <3>1. CASE s = {}
      BY <3>1
    <3>2. CASE s # {}
      <4>1. s \ {pick(s)} \in upto(n)
        BY <1>1, <3>2
      <4>2. h[s \ {pick(s)}] = g[s \ {pick(s)}]
        BY <2>3, <4>1
      <4> QED
        BY <3>2, <4>2
    <3> QED
      BY <3>1, <3>2
  <2> HIDE DEF h
  <2>5. right(h, n + 1)
    BY <2>4
  <2> HIDE DEF right
  <2> QED
    BY <2>2, <2>5
<1>5. Cardinality(S) \in N
  <2> HIDE DEF N
  <2> QED
    BY <1>2, <1>3, <1>4, UpTo
<1>6. PICK g \in [SUBSET S -> Nat] : right(g, Cardinality(S))
  BY <1>5
<1>7. ASSUME NEW s \in SUBSET S
      PROVE  g[s] = IF s = {} THEN 0 ELSE f[pick(s)] + g[s \ {pick(s)}]
  BY <1>1, <1>6
<1>8. Sums(g, f, S)
  BY <1>7 DEF Sums, pick
<1> QED
  BY <1>8

LEMMA SumTyped ==
    ASSUME NEW S, IsFiniteSet(S), NEW f \in [S -> Nat]
    PROVE  SumFunction(f) \in Nat
<1>1. PICK g \in [SUBSET S -> Nat] : Sums(g, f, S)
  BY SumExists
<1> DEFINE iter == CHOOSE iter : Sums(iter, f, S)
<1>2. Sums(iter, f, S)
  BY <1>1
<1> HIDE DEF iter
<1>3. iter[S] = g[S]
  BY <1>1, <1>2, SumUnique
<1> QED
  BY <1>3, SumIs DEF iter

(* Ones are summed to how many there are.                                  *)
LEMMA SumOfOnes ==
    ASSUME NEW S, IsFiniteSet(S), NEW f \in [S -> {0, 1}]
    PROVE  SumFunction(f) = Cardinality({ d \in S : f[d] > 0 })
<1> DEFINE Ones(s) == { d \in s : f[d] > 0 }
           pick(s) == CHOOSE x \in s : TRUE
           count == [ s \in SUBSET S |-> Cardinality(Ones(s)) ]
<1>1. ASSUME NEW s \in SUBSET S, s # {}
      PROVE  Cardinality(Ones(s)) = f[pick(s)] + Cardinality(Ones(s \ {pick(s)}))
  <2>1. pick(s) \in s
    BY <1>1
  <2> HIDE DEF pick
  <2>2. IsFiniteSet(Ones(s)) /\ IsFiniteSet(Ones(s \ {pick(s)}))
    BY FS_Subset
  <2>3. Cardinality(Ones(s \ {pick(s)})) \in Nat
    BY <2>2, FS_CardinalityType
  <2>4. CASE f[pick(s)] = 0
    <3>1. Ones(s) = Ones(s \ {pick(s)})
      BY <2>1, <2>4
    <3> HIDE DEF Ones
    <3> QED
      BY <2>3, <2>4, <3>1
  <2>5. CASE f[pick(s)] = 1
    <3>1. Ones(s) = Ones(s \ {pick(s)}) \cup {pick(s)} /\ pick(s) \notin Ones(s \ {pick(s)})
      BY <2>1, <2>5
    <3> HIDE DEF Ones
    <3>2. Cardinality(Ones(s)) = Cardinality(Ones(s \ {pick(s)})) + 1
      BY <2>2, <3>1, FS_AddElement
    <3> QED
      BY <2>3, <2>5, <3>2
  <2> QED
    BY <2>1, <2>4, <2>5
<1>2. Sums(count, f, S)
  <2>1. Cardinality(Ones({})) = 0
    <3>1. Ones({}) = {}
      OBVIOUS
    <3> QED
      BY <3>1, FS_EmptySet
  <2>2. ASSUME NEW s \in SUBSET S
        PROVE  count[s] = IF s = {} THEN 0 ELSE f[pick(s)] + count[s \ {pick(s)}]
    <3> HIDE DEF Ones, pick
    <3>1. s \ {pick(s)} \in SUBSET S
      OBVIOUS
    <3>2. /\ count[s] = Cardinality(Ones(s))
          /\ count[s \ {pick(s)}] = Cardinality(Ones(s \ {pick(s)}))
      BY <3>1
    <3> HIDE DEF count
    <3>3. CASE s = {}
      BY <2>1, <3>2, <3>3
    <3>4. CASE s # {}
      BY <3>2, <3>4, <1>1
    <3> QED
      BY <3>3, <3>4
  <2> HIDE DEF Ones
  <2> QED
    BY <2>2 DEF Sums
<1> DEFINE iter == CHOOSE iter : Sums(iter, f, S)
<1>3. Sums(iter, f, S)
  BY <1>2
<1>4. count[S] = Cardinality(Ones(S))
  OBVIOUS
<1> HIDE DEF iter, count
<1>5. iter[S] = count[S]
  BY <1>2, <1>3, SumUnique
<1> QED
  BY <1>4, <1>5, SumIs DEF iter

(* Matching as the function it iterates.                                   *)
Finds(found, filter, devices) ==
    found = [ i \in 0..Len(Newest) |->
                IF i = 0 THEN <<>>
                ELSE IF Newest[i] \in devices /\ Fits(filter, Newest[i])
                THEN Append(found[i - 1], Newest[i])
                ELSE found[i - 1] ]

LEMMA MatchingIs ==
    ASSUME NEW filter, NEW devices
    PROVE  Matching(filter, devices) = (CHOOSE found : Finds(found, filter, devices))[Len(Newest)]
BY DEF Matching, Finds

LEMMA NewestTyped ==
    /\ Newest \in Seq(Device) /\ Len(Newest) \in Nat
    /\ \A i \in 1..Len(Newest) : Newest[i] \in Device
    /\ \A d \in Device : \E i \in 1..Len(Newest) : Newest[i] = d
    /\ \A i, j \in 1..Len(Newest) : Newest[i] = Newest[j] => i = j
    /\ IsFiniteSet(Device) /\ Cardinality(Device) = Len(Newest)
<1>1. Newest \in Seq(Device) /\ IsInjective(Newest)
  BY ListAssumption
<1>2. /\ Len(Newest) \in Nat
      /\ \A i \in 1..Len(Newest) : Newest[i] \in Device
      /\ \A d \in Device : \E i \in 1..Len(Newest) : Newest[i] = d
      /\ \A i, j \in 1..Len(Newest) : Newest[i] = Newest[j] => i = j
  BY <1>1 DEF Device, ToSet, IsInjective
<1>3. Newest \in [1..Len(Newest) -> Device]
  BY <1>1
<1>4. Newest \in Bijection(1..Len(Newest), Device)
  BY <1>2, <1>3 DEF Bijection, Injection, Surjection, IsInjective
<1>5. IsFiniteSet(Device) /\ Cardinality(Device) = Len(Newest)
  BY <1>2, <1>4, FS_CountingElements, FS_CardinalityType, FS_NatBijection DEF ExistsBijection
<1> QED
  BY <1>1, <1>2, <1>5

(* There is one.                                                           *)
LEMMA FindsExists ==
    ASSUME NEW filter, NEW devices
    PROVE  \E found : Finds(found, filter, devices)
<1> DEFINE fits(i) == Newest[i] \in devices /\ Fits(filter, Newest[i])
           after(g, i) == IF i = 0 THEN <<>>
                          ELSE IF fits(i) THEN Append(g[i - 1], Newest[i]) ELSE g[i - 1]
           right(g, n) == \A i \in 0..n : g[i] = after(g, i)
           N == { n \in Nat : \E g : right(g, n) }
<1>1. 0 \in N
  <2>1. right([ i \in 0..0 |-> <<>> ], 0)
    OBVIOUS
  <2> HIDE DEF right
  <2> QED
    BY <2>1
<1>2. ASSUME NEW n \in Nat, n \in N
      PROVE  n + 1 \in N
  <2>1. PICK g : right(g, n)
    BY <1>2
  <2> DEFINE h == [ i \in 0..(n + 1) |-> after(g, i) ]
  <2>2. ASSUME NEW i \in 0..(n + 1)
        PROVE  h[i] = after(h, i)
    <3>1. i # 0 => i - 1 \in 0..n /\ i - 1 \in 0..(n + 1)
      OBVIOUS
    <3>2. i # 0 => h[i - 1] = after(g, i - 1) /\ g[i - 1] = after(g, i - 1)
      <4> HIDE DEF after
      <4> QED
        BY <2>1, <3>1
    <3>3. h[i] = after(g, i)
      <4> HIDE DEF after
      <4> QED
        OBVIOUS
    <3> HIDE DEF h, fits
    <3> QED
      BY <3>2, <3>3
  <2>3. right(h, n + 1)
    <3> HIDE DEF h, after
    <3> QED
      BY <2>2
  <2> HIDE DEF right
  <2> QED
    BY <2>3
<1>3. Len(Newest) \in Nat
  BY NewestTyped
<1>4. Len(Newest) \in N
  <2> DEFINE len == Len(Newest)
  <2>1. len \in Nat
    BY <1>3
  <2> HIDE DEF N, len
  <2>2. \A i \in 0..len : i < len /\ i \in N => i + 1 \in N
    BY <1>2, <2>1
  <2>3. \A i \in 0..len : i \in N
    BY <1>1, <2>1, <2>2, UpTo
  <2>4. len \in 0..len
    BY <2>1
  <2> QED
    BY <2>3, <2>4 DEF len
<1>5. PICK g : right(g, Len(Newest))
  BY <1>4
<1> DEFINE found == [ i \in 0..Len(Newest) |-> g[i] ]
<1>6. ASSUME NEW i \in 0..Len(Newest)
      PROVE  found[i] = after(found, i)
  <2>1. i # 0 => i - 1 \in 0..Len(Newest)
    BY <1>3
  <2>2. found[i] = g[i] /\ (i # 0 => found[i - 1] = g[i - 1])
    BY <2>1
  <2>3. g[i] = after(g, i)
    <3> HIDE DEF after
    <3> QED
      BY <1>5
  <2> HIDE DEF found, fits
  <2>4. CASE i = 0
    BY <2>2, <2>3, <2>4
  <2>5. CASE i # 0
    <3> HIDE DEF found
    <3>1. after(g, i) = IF fits(i) THEN Append(g[i - 1], Newest[i]) ELSE g[i - 1]
      BY <2>5
    <3>2. after(found, i) = IF fits(i) THEN Append(found[i - 1], Newest[i]) ELSE found[i - 1]
      BY <2>5
    <3> QED
      BY <2>2, <2>3, <2>5, <3>1, <3>2
  <2> QED
    BY <2>4, <2>5
<1>7. found = [ i \in 0..Len(Newest) |-> found[i] ]
  OBVIOUS
<1> HIDE DEF found
<1>8. found = [ i \in 0..Len(Newest) |-> after(found, i) ]
  <2> HIDE DEF after
  <2> QED
    BY <1>6, <1>7
<1> QED
  BY <1>8 DEF Finds

(* What is found up to a device: devices up to it, each once, of those     *)
(* there are, and what was found before at its beginning.                  *)
Found(filter, devices) == CHOOSE found : Finds(found, filter, devices)

LEMMA FoundSteps ==
    ASSUME NEW filter, NEW devices
    PROVE  LET found == Found(filter, devices) IN
           /\ found[0] = <<>>
           /\ \A i \in 1..Len(Newest) :
                found[i] = IF Newest[i] \in devices /\ Fits(filter, Newest[i])
                           THEN Append(found[i - 1], Newest[i])
                           ELSE found[i - 1]
<1> DEFINE found == Found(filter, devices)
<1>1. Finds(found, filter, devices)
  BY FindsExists DEF Found
<1> HIDE DEF found
<1>2. 0 \in 0..Len(Newest) /\ \A i \in 1..Len(Newest) : i \in 0..Len(Newest) /\ i # 0
  BY NewestTyped
<1>3. found[0] = <<>>
  BY <1>1, <1>2 DEF Finds
<1>4. ASSUME NEW i \in 1..Len(Newest)
      PROVE  found[i] = IF Newest[i] \in devices /\ Fits(filter, Newest[i])
                        THEN Append(found[i - 1], Newest[i])
                        ELSE found[i - 1]
  BY <1>1, <1>2 DEF Finds
<1> QED
  BY <1>3, <1>4 DEF found

LEMMA FoundTyped ==
    ASSUME NEW filter, NEW devices
    PROVE  \A i \in 0..Len(Newest) :
              LET part == Found(filter, devices)[i] IN
              /\ part \in Seq(Device) /\ Len(part) <= i
              /\ \A p \in 1..Len(part) : \E j \in 1..i : part[p] = Newest[j]
              /\ \A p, q \in 1..Len(part) : part[p] = part[q] => p = q
<1> DEFINE found == Found(filter, devices)
           good(i, part) ==
              /\ part \in Seq(Device) /\ Len(part) <= i
              /\ \A p \in 1..Len(part) : \E j \in 1..i : part[p] = Newest[j]
              /\ \A p, q \in 1..Len(part) : part[p] = part[q] => p = q
           len == Len(Newest)
           N == { i \in 0..len : good(i, found[i]) }
<1>0. len \in Nat /\ \A i \in 1..len : Newest[i] \in Device
  BY NewestTyped
<1>1. /\ found[0] = <<>>
      /\ \A i \in 1..len : \/ found[i] = Append(found[i - 1], Newest[i])
                           \/ found[i] = found[i - 1]
  BY FoundSteps
<1>2. \A i, j \in 1..len : Newest[i] = Newest[j] => i = j
  BY NewestTyped
<1> HIDE DEF found, len
<1>3. 0 \in N
  <2>1. <<>> \in Seq(Device) /\ Len(<<>>) = 0 /\ 1..0 = {}
    OBVIOUS
  <2>2. good(0, <<>>)
    BY <2>1
  <2> HIDE DEF good
  <2> QED
    BY <1>0, <1>1, <2>2
<1>4. ASSUME NEW i \in 0..len, i < len, i \in N
      PROVE  i + 1 \in N
  <2>1. i + 1 \in 1..len /\ i + 1 \in 0..len /\ (i + 1) - 1 = i /\ i \in Nat
    BY <1>0, <1>4
  <2>2. good(i, found[i])
    BY <1>4
  <2>3. CASE found[i + 1] = found[i]
    <3>1. good(i + 1, found[i])
      BY <2>1, <2>2
    <3> QED
      BY <2>1, <2>3, <3>1
  <2>4. CASE found[i + 1] = Append(found[i], Newest[i + 1])
    <3> SUFFICES ASSUME NEW part, part = found[i],
                        NEW new, new = Newest[i + 1]
                 PROVE  good(i + 1, Append(part, new))
      <4> HIDE DEF good
      <4> QED
        BY <2>1, <2>4
    <3>1. /\ part \in Seq(Device) /\ Len(part) \in Nat /\ Len(part) <= i
          /\ new \in Device
      BY <1>0, <2>1, <2>2
    <3>2. /\ Append(part, new) \in Seq(Device)
          /\ Len(Append(part, new)) = Len(part) + 1
          /\ \A p \in 1..Len(part) : Append(part, new)[p] = part[p]
          /\ Append(part, new)[Len(part) + 1] = new
      BY <3>1
    <3>3. ASSUME NEW p \in 1..Len(part)
          PROVE  part[p] # new /\ \E j \in 1..(i + 1) : part[p] = Newest[j]
      <4>1. PICK j \in 1..i : part[p] = Newest[j]
        BY <2>2
      <4>2. j \in 1..len /\ j # i + 1 /\ j \in 1..(i + 1)
        BY <1>0, <2>1
      <4> QED
        BY <1>2, <2>1, <4>1, <4>2
    <3>4. ASSUME NEW p \in 1..(Len(part) + 1)
          PROVE  \E j \in 1..(i + 1) : Append(part, new)[p] = Newest[j]
      <4>1. CASE p = Len(part) + 1
        BY <2>1, <3>2, <4>1
      <4>2. CASE p # Len(part) + 1
        <5>1. p \in 1..Len(part)
          BY <3>1, <4>2
        <5> QED
          BY <3>2, <3>3, <5>1
      <4> QED
        BY <4>1, <4>2
    <3>5. ASSUME NEW p \in 1..(Len(part) + 1), NEW q \in 1..(Len(part) + 1),
                 Append(part, new)[p] = Append(part, new)[q]
          PROVE  p = q
      <4>1. p \in 1..Len(part) \/ p = Len(part) + 1
        BY <3>1
      <4>2. q \in 1..Len(part) \/ q = Len(part) + 1
        BY <3>1
      <4> QED
        BY <2>2, <3>2, <3>3, <3>5, <4>1, <4>2
    <3>6. Len(part) + 1 <= i + 1
      BY <2>1, <3>1
    <3> HIDE DEF N
    <3> QED
      BY <3>2, <3>4, <3>5, <3>6
  <2> QED
    BY <1>1, <2>1, <2>3, <2>4
<1>5. \A i \in 0..len : i \in N
  <2> HIDE DEF N
  <2> QED
    BY <1>0, <1>3, <1>4, UpTo
<1>6. \A i \in 0..len : good(i, found[i])
  <2> HIDE DEF good
  <2> QED
    BY <1>5
<1> QED
  BY <1>6 DEF found, len

(* What a list finds is devices, each once.                                *)
LEMMA MatchingTyped ==
    ASSUME NEW filter, NEW devices
    PROVE  LET all == Matching(filter, devices) IN
           /\ all \in Seq(Device)
           /\ Len(all) \in 0..Cardinality(Device)
           /\ \A p, q \in DOMAIN all : all[p] = all[q] => p = q
<1> DEFINE all == Matching(filter, devices)
<1>1. all = Found(filter, devices)[Len(Newest)]
  BY MatchingIs DEF Found
<1>2. Len(Newest) \in 0..Len(Newest)
  BY NewestTyped
<1>3. /\ all \in Seq(Device) /\ Len(all) <= Len(Newest)
      /\ \A p, q \in 1..Len(all) : all[p] = all[q] => p = q
  BY <1>1, <1>2, FoundTyped
<1> HIDE DEF all
<1>4. DOMAIN all = 1..Len(all) /\ Len(all) \in Nat
  BY <1>3
<1>5. Len(all) \in 0..Cardinality(Device)
  BY <1>3, <1>4, NewestTyped
<1> QED
  BY <1>3, <1>4, <1>5 DEF all

(* Where fewer devices are found, none is further back.                    *)
LEMMA PlacesFall ==
    ASSUME NEW filter, NEW fewer, NEW devices, fewer \subseteq devices
    PROVE  LET few == Matching(filter, fewer)
               all == Matching(filter, devices)
           IN  \A p \in DOMAIN few : \E q \in DOMAIN all : all[q] = few[p] /\ p <= q
<1> DEFINE few == Found(filter, fewer)
           all == Found(filter, devices)
           good(a, b) == /\ Len(a) <= Len(b)
                         /\ \A p \in 1..Len(a) : \E q \in 1..Len(b) : b[q] = a[p] /\ p <= q
           len == Len(Newest)
           N == { i \in 0..len : good(few[i], all[i]) }
<1>0. len \in Nat /\ \A i \in 1..len : Newest[i] \in Device
  BY NewestTyped
<1>1. /\ few[0] = <<>> /\ all[0] = <<>>
      /\ \A i \in 1..len :
            \/ few[i] = Append(few[i - 1], Newest[i]) /\ all[i] = Append(all[i - 1], Newest[i])
            \/ few[i] = few[i - 1] /\ all[i] = Append(all[i - 1], Newest[i])
            \/ few[i] = few[i - 1] /\ all[i] = all[i - 1]
  BY FoundSteps
<1>2. \A i \in 0..len : few[i] \in Seq(Device) /\ all[i] \in Seq(Device)
  BY FoundTyped
<1>3. few[len] = Matching(filter, fewer) /\ all[len] = Matching(filter, devices)
  BY MatchingIs DEF Found
<1> HIDE DEF few, all, len
<1>4. 0 \in N
  BY <1>0, <1>1
<1>5. ASSUME NEW i \in 0..len, i < len, i \in N
      PROVE  i + 1 \in N
  <2>1. i + 1 \in 1..len /\ i + 1 \in 0..len /\ (i + 1) - 1 = i
    BY <1>0, <1>5
  <2>2. ASSUME NEW a \in Seq(Device), NEW b \in Seq(Device), NEW new \in Device, good(a, b)
        PROVE  /\ good(Append(a, new), Append(b, new))
               /\ good(a, Append(b, new))
    <3>1. /\ Len(a) \in Nat /\ Len(b) \in Nat
          /\ Len(Append(a, new)) = Len(a) + 1 /\ Len(Append(b, new)) = Len(b) + 1
          /\ \A p \in 1..Len(a) : Append(a, new)[p] = a[p]
          /\ \A q \in 1..Len(b) : Append(b, new)[q] = b[q]
          /\ Append(a, new)[Len(a) + 1] = new /\ Append(b, new)[Len(b) + 1] = new
      OBVIOUS
    <3>2. ASSUME NEW p \in 1..Len(a)
          PROVE  \E q \in 1..(Len(b) + 1) : Append(b, new)[q] = a[p] /\ p <= q
      <4>1. PICK q \in 1..Len(b) : b[q] = a[p] /\ p <= q
        BY <2>2
      <4>2. q \in 1..(Len(b) + 1) /\ Append(b, new)[q] = b[q]
        BY <3>1
      <4> QED
        BY <4>1, <4>2
    <3>3. ASSUME NEW p \in 1..(Len(a) + 1)
          PROVE  \E q \in 1..(Len(b) + 1) : Append(b, new)[q] = Append(a, new)[p] /\ p <= q
      <4>1. CASE p \in 1..Len(a)
        BY <3>1, <3>2, <4>1
      <4>2. CASE p = Len(a) + 1
        <5>1. Len(b) + 1 \in 1..(Len(b) + 1) /\ p <= Len(b) + 1
          BY <2>2, <3>1, <4>2
        <5> QED
          BY <3>1, <4>2, <5>1
      <4>3. p \in 1..Len(a) \/ p = Len(a) + 1
        BY <3>1
      <4> QED
        BY <4>1, <4>2, <4>3
    <3>4. Len(a) <= Len(b) + 1 /\ Len(a) + 1 <= Len(b) + 1
      BY <2>2, <3>1
    <3>5. Len(Append(a, new)) = Len(a) + 1 /\ Len(Append(b, new)) = Len(b) + 1
      BY <3>1
    <3> QED
      BY <3>2, <3>3, <3>4, <3>5
  <2>3. good(few[i], all[i])
    BY <1>5
  <2>4. few[i] \in Seq(Device) /\ all[i] \in Seq(Device) /\ Newest[i + 1] \in Device
    BY <1>0, <1>2, <2>1
  <2> HIDE DEF good
  <2>5. /\ good(Append(few[i], Newest[i + 1]), Append(all[i], Newest[i + 1]))
        /\ good(few[i], Append(all[i], Newest[i + 1]))
    BY <2>2, <2>3, <2>4
  <2>6. good(few[i + 1], all[i + 1])
    BY <1>1, <2>1, <2>3, <2>5
  <2> QED
    BY <2>1, <2>6
<1>6. \A i \in 0..len : i \in N
  <2> HIDE DEF N
  <2> QED
    BY <1>0, <1>4, <1>5, UpTo
<1>7. good(few[len], all[len])
  <2>1. len \in N
    BY <1>0, <1>6
  <2> HIDE DEF good
  <2> QED
    BY <2>1
<1>8. \A filter2, devices2 : DOMAIN Matching(filter2, devices2) = 1..Len(Matching(filter2, devices2))
  BY MatchingTyped
<1> QED
  BY <1>3, <1>7, <1>8

(* A window on a sequence is the part of it that starts where it does.     *)
LEMMA WindowIs ==
    ASSUME NEW seq \in Seq(Device), NEW offset \in Nat, NEW limit \in Nat,
           \A p, q \in DOMAIN seq : seq[p] = seq[q] => p = q
    PROVE  LET part == Window(seq, offset, limit) IN
           /\ part \in Seq(Device) /\ Len(part) <= limit /\ Len(part) <= Len(seq)
           /\ IsInjective(part)
           /\ ToSet(part) = { seq[p] : p \in { p \in DOMAIN seq : offset < p /\ p <= offset + limit } }
           /\ part = <<>> /\ limit > 0 => Len(seq) <= offset
<1> DEFINE last == Min({offset + limit, Len(seq)})
           part == Window(seq, offset, limit)
<1>1. /\ last \in Nat /\ last <= offset + limit /\ last <= Len(seq)
      /\ last = offset + limit \/ last = Len(seq)
  <2>1. offset + limit \in Nat /\ Len(seq) \in Nat
    OBVIOUS
  <2> DEFINE both == {offset + limit, Len(seq)}
  <2>2. \E x \in both : \A y \in both : x <= y
    BY <2>1
  <2> HIDE DEF both
  <2>3. Min(both) \in both /\ \A y \in both : Min(both) <= y
    BY <2>2 DEF Min
  <2> QED
    BY <2>1, <2>3 DEF both
<1>2. part = SubSeq(seq, offset + 1, last)
  BY DEF Window
<1> HIDE DEF last, part
<1>3. /\ part \in Seq(Device)
      /\ Len(part) = (IF offset + 1 <= last THEN last - offset ELSE 0)
      /\ \A i \in 1..Len(part) : part[i] = seq[offset + i] /\ offset + i \in DOMAIN seq
                                 /\ offset + i <= last
  <2>1. \A i \in (offset + 1)..last : i \in 1..Len(seq) /\ seq[i] \in Device
    BY <1>1
  <2>2. part \in Seq(Device)
    BY <1>1, <1>2, <2>1
  <2>3. Len(part) = (IF offset + 1 <= last THEN last - offset ELSE 0)
    BY <1>1, <1>2
  <2>4. ASSUME NEW i \in 1..Len(part)
        PROVE  part[i] = seq[offset + i] /\ offset + i \in DOMAIN seq /\ offset + i <= last
    <3>1. offset + 1 <= last /\ i \in 1..(last - offset)
      BY <1>1, <2>3
    <3>2. offset + i \in Nat /\ 1 <= offset + i /\ offset + i <= last
      BY <1>1, <3>1
    <3>3. offset + i \in DOMAIN seq
      BY <1>1, <3>2
    <3>4. i \in 1..(last - (offset + 1) + 1) /\ (offset + 1) + i - 1 = offset + i
      BY <1>1, <3>1
    <3>5. part[i] = seq[(offset + 1) + i - 1]
      BY <1>1, <1>2, <3>1, <3>4
    <3> QED
      BY <3>2, <3>3, <3>4, <3>5
  <2> QED
    BY <2>2, <2>3, <2>4
<1>4. Len(part) <= limit /\ Len(part) <= Len(seq)
  BY <1>1, <1>3
<1>5. IsInjective(part)
  BY <1>3 DEF IsInjective
<1>6. ToSet(part) = { seq[p] : p \in { p \in DOMAIN seq : offset < p /\ p <= offset + limit } }
  <2>1. ASSUME NEW i \in DOMAIN part
        PROVE  \E p \in DOMAIN seq : offset < p /\ p <= offset + limit /\ part[i] = seq[p]
    <3>1. i \in 1..Len(part)
      BY <1>3
    <3>2. /\ offset + i \in DOMAIN seq /\ part[i] = seq[offset + i]
          /\ offset < offset + i /\ offset + i <= offset + limit
      BY <1>1, <1>3, <3>1
    <3> QED
      BY <3>2
  <2>2. ASSUME NEW p \in DOMAIN seq, offset < p, p <= offset + limit
        PROVE  \E i \in DOMAIN part : part[i] = seq[p]
    <3>1. p \in Nat /\ p <= last
      BY <1>1, <2>2
    <3>2. p - offset \in 1..Len(part) /\ offset + (p - offset) = p
      BY <1>1, <1>3, <2>2, <3>1
    <3>3. DOMAIN part = 1..Len(part)
      BY <1>3
    <3>4. part[p - offset] = seq[offset + (p - offset)]
      BY <1>3, <3>2
    <3> QED
      BY <3>2, <3>3, <3>4
  <2> QED
    BY <2>1, <2>2 DEF ToSet
<1>7. part = <<>> /\ limit > 0 => Len(seq) <= offset
  BY <1>1, <1>3
<1> QED
  BY <1>3, <1>4, <1>5, <1>6, <1>7 DEF part

-----------------------------------------------------------------------------
(* What holds of the list                                                  *)

(* A walk meets a device at most once more than the fleet was stirred, and *)
(* one that was met as often is not before it any more; as long as it is   *)
(* quiet, its total is true and it has met what it has passed.             *)
WalkSound(walk, devices, n) ==
    LET all == Matching(walk.filter, devices) IN
    /\ \A d \in Device : /\ walk.met[d] <= n + 1
                         /\ walk.met[d] = n + 1 => \A p \in DOMAIN all :
                                                      all[p] = d => p <= walk.offset
    /\ walk.quiet => /\ walk.total = Len(all)
                     /\ \A p \in DOMAIN all : p <= walk.offset => walk.met[all[p]] > 0

RowsSound(rows, total) ==
    /\ IsInjective(rows) /\ Len(rows) <= total
    /\ \E size \in ToSet(PageSizes) : Len(rows) <= size

ListSound(page, devices, n) ==
    /\ page \in Lists
    /\ RowsSound(page.rows, page.total)
    /\ page.walk # None => /\ page.walk.offset < page.walk.total
                           /\ WalkSound(page.walk, devices, n)

(* A list that was left does not hear the answer to its batch.  While a    *)
(* device is open that was opened from the list, the address it was given  *)
(* says what the list asked.                                               *)
ListInv ==
    /\ fleet \subseteq Device /\ unborn \subseteq Device \ fleet
    /\ list # None => ListSound(list, fleet, stirs)
    /\ carried \in Address
    /\ sent # None => sent \in Orders /\ sent.typed = Count(sent.ids)
    /\ list = None /\ sent # None => ~ sent.heard
    /\ left \in Question \cup {None}
    /\ left # None => list = None /\ carried = AddressOf(left)
    /\ clicks \in 0..MaxClicks /\ stirs \in 0..MaxStirs

LEMMA ListIsTyped == ListInv => ListTypeOK
<1> SUFFICES ASSUME ListInv
             PROVE  ListTypeOK
  OBVIOUS
<1>1. list \in Lists \cup {None} /\ sent \in Orders \cup {None}
  BY DEF ListInv, ListSound
<1>2. Showing => /\ IsInjective(list.rows)
                 /\ \E size \in ToSet(PageSizes) : Len(list.rows) <= size
                 /\ list.walk # None => list.walk.offset < list.walk.total
  BY DEF ListInv, ListSound, RowsSound, Showing
<1> QED
  BY <1>1, <1>2 DEF ListInv, ListTypeOK

LEMMA ListConstants ==
    /\ PageSizes \in Seq(Nat \ {0}) /\ DefaultSize \in ToSet(PageSizes)
    /\ ToSet(PageSizes) \subseteq Nat \ {0}
    /\ WalkPage \in Nat \ {0} /\ MaxStirs \in Nat /\ MaxClicks \in Nat
    /\ None \notin Nat /\ None \notin Category \cup Model /\ None \notin Device
    /\ Everything \in Filters /\ Plain \in Address /\ NothingPicked \in Picked
<1>1. PageSizes \in Seq(Nat \ {0}) /\ PageSizes # <<>>
  BY ListAssumption
<1>2. DefaultSize \in ToSet(PageSizes) /\ ToSet(PageSizes) \subseteq Nat \ {0}
  BY <1>1 DEF DefaultSize, ToSet
<1>3. Everything \in Filters /\ Plain \in Address
  BY DEF Everything, Filters, Plain, Address
<1>4. NothingPicked \in Picked
  BY ListAssumption DEF NothingPicked, Picked
<1> QED
  BY <1>1, <1>2, <1>3, <1>4, ListAssumption

LEMMA CountTyped ==
    ASSUME NEW picked \in Picked
    PROVE  Count(picked) \in Nat
<1>1. picked \in [Device -> Nat]
  BY ListConstants DEF Picked
<1> QED
  BY <1>1, NewestTyped, SumTyped DEF Count

LEMMA PicksTyped ==
    ASSUME NEW picked \in Picked, NEW devices, NEW met \in Picked
    PROVE  /\ Without(picked, devices) \in Picked /\ With(picked, devices) \in Picked
           /\ Land(picked, met) \in Picked
BY ListConstants DEF Picked, Without, With, Land

(* What a list mounts with.                                                *)
LEMMA MountedSound ==
    ASSUME NEW address \in Address, NEW devices, NEW n
    PROVE  /\ ListSound(Mounted(address), devices, n)
           /\ Mounted(address).asked.filter = address.filter
           /\ Mounted(address).asked.size
                = IF address.limit = None THEN DefaultSize ELSE address.limit
<1> DEFINE asked == Settled(Seeded(address))
<1>1. /\ asked \in Question /\ asked.filter = address.filter
      /\ asked.size = IF address.limit = None THEN DefaultSize ELSE address.limit
  BY ListConstants DEF Settled, Seeded, Asked, Question, Address
<1> HIDE DEF asked
<1>2. Mounted(address) = [ asked |-> asked, rows |-> <<>>, total |-> 0,
                           picked |-> NothingPicked, walk |-> None, box |-> None ]
  BY DEF Mounted, asked
<1>3. 0 \in 0..Cardinality(Device) /\ <<>> \in Seq(Device)
  BY NewestTyped
<1>4. Mounted(address) \in Lists
  BY <1>1, <1>2, <1>3, ListConstants DEF Lists
<1>5. RowsSound(<<>>, 0)
  BY ListConstants DEF RowsSound, IsInjective
<1> QED
  BY <1>1, <1>2, <1>4, <1>5 DEF ListSound

(* What an address says of a question comes back with it.                  *)
LEMMA AddressTold ==
    ASSUME NEW asked \in Question
    PROVE  /\ AddressOf(asked) \in Address
           /\ Mounted(AddressOf(asked)).asked.filter = asked.filter
           /\ Mounted(AddressOf(asked)).asked.size = asked.size
<1>1. /\ AddressOf(asked) \in Address
      /\ AddressOf(asked).filter = asked.filter
      /\ AddressOf(asked).limit = IF asked.size # DefaultSize THEN asked.size ELSE None
  BY ListConstants DEF AddressOf, Address, Question
<1>2. asked.size # None
  BY ListConstants DEF Question
<1> QED
  BY <1>1, <1>2, MountedSound

(* Another question, another choice or another confirmation leaves the     *)
(* rows and the walk as they are.                                          *)
LEMMA OthersSound ==
    ASSUME NEW page, NEW devices, NEW n, ListSound(page, devices, n),
           NEW asked \in Question, NEW picked \in Picked, NEW box \in Nat \cup {None},
           NEW new,
           new = [ asked |-> asked, rows |-> page.rows, total |-> page.total,
                   picked |-> picked, walk |-> page.walk, box |-> box ]
    PROVE  ListSound(new, devices, n)
<1>1. new \in Lists
  BY DEF ListSound, Lists
<1> QED
  BY <1>1 DEF ListSound

(* A walk is put in the place of another, or ends.                         *)
LEMMA WalksSound ==
    ASSUME NEW page, NEW devices, NEW n, ListSound(page, devices, n),
           NEW picked \in Picked, NEW walk \in Walks \cup {None}, NEW devices2, NEW n2,
           walk # None => walk.offset < walk.total /\ WalkSound(walk, devices2, n2),
           NEW new,
           new = [ asked |-> page.asked, rows |-> page.rows, total |-> page.total,
                   picked |-> picked, walk |-> walk, box |-> page.box ]
    PROVE  ListSound(new, devices2, n2)
<1>1. new \in Lists
  BY DEF ListSound, Lists
<1> QED
  BY <1>1 DEF ListSound

(* A walk that is disturbed stays sound when devices go, and when the      *)
(* fleet is stirred in any way.                                            *)
LEMMA WalkDisturbed ==
    ASSUME NEW walk \in Walks, NEW devices, NEW n \in Nat, WalkSound(walk, devices, n),
           NEW devices2, NEW n2 \in Nat,
           (n2 = n /\ devices2 \subseteq devices) \/ n2 = n + 1,
           NEW after, after = [walk EXCEPT !.quiet = FALSE]
    PROVE  /\ after \in Walks /\ after.offset = walk.offset /\ after.total = walk.total
           /\ WalkSound(after, devices2, n2)
<1>1. /\ after \in Walks /\ ~ after.quiet /\ after.filter = walk.filter
      /\ after.offset = walk.offset /\ after.total = walk.total /\ after.met = walk.met
      /\ walk.offset \in Nat /\ walk.met \in Picked
  BY DEF Walks
<1>2. \A d \in Device : walk.met[d] \in Nat
  BY <1>1, ListConstants DEF Picked
<1> DEFINE all == Matching(walk.filter, devices)
           all2 == Matching(walk.filter, devices2)
<1>3. ASSUME NEW d \in Device
      PROVE  /\ walk.met[d] <= n + 1
             /\ walk.met[d] = n + 1 => \A p \in DOMAIN all : all[p] = d => p <= walk.offset
  BY DEF WalkSound
<1>4. /\ all \in Seq(Device) /\ all2 \in Seq(Device)
      /\ DOMAIN all \subseteq Nat /\ DOMAIN all2 \subseteq Nat
  BY MatchingTyped
<1>5. devices2 \subseteq devices =>
         \A p \in DOMAIN all2 : \E q \in DOMAIN all : all[q] = all2[p] /\ p <= q
  BY PlacesFall
<1> HIDE DEF all, all2
<1>6. ASSUME NEW d \in Device
      PROVE  walk.met[d] <= n2 + 1
  BY <1>1, <1>2, <1>3
<1>7. ASSUME NEW d \in Device, walk.met[d] = n2 + 1, NEW p \in DOMAIN all2, all2[p] = d
      PROVE  p <= walk.offset
  <2>1. n2 = n /\ devices2 \subseteq devices
    BY <1>1, <1>2, <1>3, <1>7
  <2>2. PICK q \in DOMAIN all : all[q] = d /\ p <= q
    BY <1>5, <1>7, <2>1
  <2>3. q <= walk.offset
    BY <1>3, <1>7, <2>1, <2>2
  <2> QED
    BY <1>1, <1>4, <2>2, <2>3
<1> QED
  BY <1>1, <1>6, <1>7 DEF WalkSound, all2

LEMMA DisturbedSound ==
    ASSUME ListInv, \/ fleet' \subseteq fleet /\ stirs' = stirs
                    \/ stirs' = stirs + 1,
           Disturbed # None
    PROVE  ListSound(Disturbed, fleet', stirs')
<1>1. stirs \in Nat /\ stirs' \in Nat
  BY ListConstants DEF ListInv
<1>2. list # None
  BY DEF Disturbed, Showing
<1>3. ListSound(list, fleet, stirs) /\ list \in Lists
  BY <1>2 DEF ListInv, ListSound
<1>4. CASE list.walk = None
  BY <1>3, <1>4 DEF Disturbed, ListSound
<1>5. CASE list.walk # None
  <2> DEFINE after == [list.walk EXCEPT !.quiet = FALSE]
  <2>1. list.walk \in Walks /\ list.picked \in Picked
    BY <1>3, <1>5 DEF Lists
  <2>2. list.walk.offset < list.walk.total /\ WalkSound(list.walk, fleet, stirs)
    BY <1>3, <1>5 DEF ListSound
  <2>3. /\ after \in Walks /\ after.offset = list.walk.offset
        /\ after.total = list.walk.total /\ WalkSound(after, fleet', stirs')
    BY <1>1, <2>1, <2>2, WalkDisturbed
  <2>4. Disturbed = [list EXCEPT !.walk = after]
    BY <1>2, <1>5 DEF Disturbed, Showing
  <2> HIDE DEF after
  <2>5. Disturbed = [ asked |-> list.asked, rows |-> list.rows, total |-> list.total,
                      picked |-> list.picked, walk |-> after, box |-> list.box ]
    BY <1>3, <2>4 DEF Lists
  <2> QED
    BY <1>3, <2>1, <2>2, <2>3, <2>5, WalksSound
<1> QED
  BY <1>4, <1>5

(* What a walk has met when it has read another page.                      *)
LEMMA WalkReads ==
    ASSUME NEW walk \in Walks, NEW n \in 0..MaxStirs, WalkSound(walk, fleet, n),
           NEW met,
           met = [ d \in Device |-> walk.met[d] + (IF d \in ToSet(Reading(walk)) THEN 1 ELSE 0) ],
           NEW all, all = Matching(walk.filter, fleet)
    PROVE  /\ met \in Picked
           /\ \A d \in Device : /\ met[d] <= n + 1
                                /\ met[d] = n + 1 =>
                                     \A p \in DOMAIN all :
                                        all[p] = d => p <= walk.offset + WalkPage
           /\ walk.quiet => \A p \in DOMAIN all :
                               p <= walk.offset + WalkPage => met[all[p]] > 0
           /\ Reading(walk) = <<>> => Len(all) <= walk.offset
<1>1. /\ walk.offset \in Nat /\ walk.met \in Picked /\ \A d \in Device : walk.met[d] \in Nat
      /\ WalkPage \in Nat /\ WalkPage > 0 /\ n \in Nat /\ n <= MaxStirs /\ MaxStirs \in Nat
  BY ListConstants DEF Walks, Picked
<1>2. /\ all \in Seq(Device) /\ DOMAIN all \subseteq Nat
      /\ \A p \in DOMAIN all : all[p] \in Device
      /\ \A p, q \in DOMAIN all : all[p] = all[q] => p = q
  BY MatchingTyped
<1> DEFINE read == { all[p] : p \in { p \in DOMAIN all :
                                        walk.offset < p /\ p <= walk.offset + WalkPage } }
<1>3. /\ ToSet(Reading(walk)) = read
      /\ Reading(walk) = <<>> => Len(all) <= walk.offset
  BY <1>1, <1>2, WindowIs DEF Reading
<1>4. ASSUME NEW d \in Device
      PROVE  /\ walk.met[d] <= n + 1
             /\ walk.met[d] = n + 1 => \A p \in DOMAIN all : all[p] = d => p <= walk.offset
  BY DEF WalkSound
<1>5. walk.quiet => \A p \in DOMAIN all : p <= walk.offset => walk.met[all[p]] > 0
  BY DEF WalkSound
<1>6. \A d \in Device : met[d] = walk.met[d] + (IF d \in read THEN 1 ELSE 0)
  BY <1>3
<1>7. ASSUME NEW d \in Device
      PROVE  /\ met[d] \in Nat /\ met[d] <= n + 1
             /\ met[d] = n + 1 => \A p \in DOMAIN all :
                                     all[p] = d => p <= walk.offset + WalkPage
  <2>1. CASE d \in read
    <3>1. PICK p \in DOMAIN all : all[p] = d /\ walk.offset < p /\ p <= walk.offset + WalkPage
      BY <2>1
    <3>2. walk.met[d] # n + 1
      BY <1>1, <1>2, <1>4, <3>1
    <3>3. met[d] = walk.met[d] + 1
      BY <1>6, <2>1
    <3>4. \A q \in DOMAIN all : all[q] = d => q = p
      BY <1>2, <3>1
    <3> HIDE DEF read
    <3> QED
      BY <1>1, <1>4, <3>1, <3>2, <3>3, <3>4
  <2>2. CASE d \notin read
    <3>1. met[d] = walk.met[d]
      BY <1>1, <1>6, <2>2
    <3> HIDE DEF read
    <3> QED
      BY <1>1, <1>2, <1>4, <3>1
  <2> QED
    BY <2>1, <2>2
<1>8. met \in Picked
  <2>1. \A d \in Device : met[d] \in 0..(MaxStirs + 1)
    BY <1>1, <1>7
  <2>2. met = [ d \in Device |-> met[d] ]
    OBVIOUS
  <2> QED
    BY <2>1, <2>2 DEF Picked
<1>9. ASSUME walk.quiet, NEW p \in DOMAIN all, p <= walk.offset + WalkPage
      PROVE  met[all[p]] > 0
  <2>1. all[p] \in Device /\ p \in Nat
    BY <1>2
  <2>2. CASE p <= walk.offset
    BY <1>1, <1>5, <1>6, <1>9, <2>1, <2>2
  <2>3. CASE walk.offset < p
    <3>1. all[p] \in read
      BY <1>9, <2>3
    <3> HIDE DEF read
    <3> QED
      BY <1>1, <1>6, <2>1, <3>1
  <2> QED
    BY <1>1, <2>1, <2>2, <2>3
<1> QED
  BY <1>3, <1>7, <1>8, <1>9

LEMMA ListInvInit == ListInit => ListInv
<1> SUFFICES ASSUME ListInit
             PROVE  ListInv
  OBVIOUS
<1>1. ListSound(list, fleet, stirs)
  BY ListConstants, MountedSound DEF ListInit
<1>2. fleet \subseteq Device /\ unborn \subseteq Device \ fleet
  BY ListAssumption DEF ListInit
<1> QED
  BY <1>1, <1>2, ListConstants DEF ListInit, ListInv

(* A step of the list that shows, which leaves the fleet alone.            *)
LEMMA ShowingKeeps ==
    ASSUME ListInv, Showing, ListSound(list', fleet, stirs),
           UNCHANGED <<fleet, unborn, carried, stirs, left>>, clicks' \in 0..MaxClicks,
           sent' = sent \/ (sent' \in Orders /\ sent'.typed = Count(sent'.ids))
    PROVE  ListInv'
<1>1. left = None /\ list' # None
  BY NothingIsNoList DEF ListInv, Showing, ListSound
<1> QED
  BY <1>1 DEF ListInv

LEMMA AskKeeps ==
    ASSUME ListInv, Showing, clicks' \in 0..MaxClicks, NEW asked \in Question, Ask(asked)
    PROVE  ListInv'
<1>1. ListSound(list, fleet, stirs) /\ list \in Lists
  BY DEF ListInv, ListSound, Showing
<1>2. list' = [ asked |-> asked, rows |-> list.rows, total |-> list.total,
                picked |-> list.picked, walk |-> list.walk, box |-> list.box ]
  BY <1>1 DEF Ask, Lists
<1>3. list.picked \in Picked /\ list.box \in Nat \cup {None}
  BY <1>1 DEF Lists
<1>4. ListSound(list', fleet, stirs)
  BY <1>1, <1>2, <1>3, OthersSound
<1> QED
  BY <1>4, ShowingKeeps DEF Ask

LEMMA PickKeeps ==
    ASSUME ListInv, Showing, clicks' \in 0..MaxClicks, NEW picked \in Picked, Pick(picked)
    PROVE  ListInv'
<1>1. ListSound(list, fleet, stirs) /\ list \in Lists
  BY DEF ListInv, ListSound, Showing
<1>2. list' = [ asked |-> list.asked, rows |-> list.rows, total |-> list.total,
                picked |-> picked, walk |-> list.walk, box |-> list.box ]
  BY <1>1 DEF Pick, Lists
<1>3. list.asked \in Question /\ list.box \in Nat \cup {None}
  BY <1>1 DEF Lists
<1>4. ListSound(list', fleet, stirs)
  BY <1>1, <1>2, <1>3, OthersSound
<1> QED
  BY <1>4, ShowingKeeps DEF Pick

LEMMA BoxKeeps ==
    ASSUME ListInv, Showing, clicks' \in 0..MaxClicks, NEW box \in Nat \cup {None},
           list' = [list EXCEPT !.box = box],
           UNCHANGED <<fleet, unborn, carried, stirs, left>>,
           sent' = sent \/ (sent' \in Orders /\ sent'.typed = Count(sent'.ids))
    PROVE  ListInv'
<1>1. ListSound(list, fleet, stirs) /\ list \in Lists
  BY DEF ListInv, ListSound, Showing
<1>2. list' = [ asked |-> list.asked, rows |-> list.rows, total |-> list.total,
                picked |-> list.picked, walk |-> list.walk, box |-> box ]
  BY <1>1 DEF Lists
<1>3. list.asked \in Question /\ list.picked \in Picked
  BY <1>1 DEF Lists
<1>4. ListSound(list', fleet, stirs)
  BY <1>1, <1>2, <1>3, OthersSound
<1> QED
  BY <1>4, ShowingKeeps

(* A step of the server, a colleague or the row menu.                      *)
LEMMA FleetKeeps ==
    ASSUME ListInv, fleet' \subseteq Device, unborn' \subseteq Device \ fleet',
           \/ fleet' \subseteq fleet /\ stirs' = stirs
           \/ stirs' = stirs + 1,
           list' = Disturbed, UNCHANGED <<carried, left>>,
           clicks' \in 0..MaxClicks, stirs' \in 0..MaxStirs,
           sent' # None => /\ sent # None /\ sent' \in Orders
                           /\ sent'.ids = sent.ids /\ sent'.typed = sent.typed
                           /\ sent'.heard = sent.heard
    PROVE  ListInv'
<1>1. list' # None => ListSound(list', fleet', stirs')
  BY DisturbedSound
<1>2. list = None <=> list' = None
  <2>1. list = None => Disturbed = None
    BY DEF Disturbed, Showing
  <2>2. ASSUME list # None
        PROVE  Disturbed # None
    <3>1. list \in Lists
      BY <2>2 DEF ListInv, ListSound
    <3>2. list.walk # None => [list.walk EXCEPT !.quiet = FALSE] \in Walks
      BY <3>1 DEF Lists, Walks
    <3>3. Disturbed = list \/ /\ list.walk # None
                              /\ Disturbed = [list EXCEPT !.walk = [list.walk EXCEPT !.quiet = FALSE]]
      BY DEF Disturbed
    <3>4. Disturbed \in Lists
      <4> DEFINE walk == [list.walk EXCEPT !.quiet = FALSE]
      <4>1. CASE Disturbed = list
        BY <3>1, <4>1
      <4>2. CASE list.walk # None /\ Disturbed = [list EXCEPT !.walk = walk]
        <5>1. walk \in Walks
          BY <3>2, <4>2
        <5> HIDE DEF walk
        <5> QED
          BY <3>1, <4>2, <5>1 DEF Lists
      <4> QED
        BY <3>3, <4>1, <4>2
    <3> QED
      BY <3>4, NothingIsNoList
  <2> QED
    BY <2>1, <2>2
<1>3. sent' # None => sent' \in Orders /\ sent'.typed = Count(sent'.ids)
  BY DEF ListInv
<1>4. list' = None /\ sent' # None => ~ sent'.heard
  BY <1>2 DEF ListInv
<1>5. left' # None => list' = None /\ carried' = AddressOf(left')
  BY <1>2 DEF ListInv
<1> QED
  BY <1>1, <1>3, <1>4, <1>5 DEF ListInv

LEMMA NarrowAsks ==
    ASSUME NEW asked \in Question
    PROVE  /\ Settled(asked) \in Question
           /\ \A filter \in Filters : [asked EXCEPT !.filter = filter] \in Question
           /\ \A size \in ToSet(PageSizes) : [asked EXCEPT !.size = size] \in Question
           /\ \A n \in Nat : [asked EXCEPT !.page = n] \in Question
BY DEF Settled, Question

LEMMA NarrowKeeps == ListInv /\ Narrow => ListInv'
<1> SUFFICES ASSUME ListInv, Narrow
             PROVE  ListInv'
  OBVIOUS
<1>1. Showing /\ clicks' \in 0..MaxClicks
  BY ListConstants DEF Narrow, Click, ListInv
<1>2. list.asked \in Question
  BY <1>1 DEF ListInv, ListSound, Lists, Showing
<1>3. ASSUME NEW c \in Category \cup {None},
             Ask(Settled([list.asked EXCEPT !.filter = [Everything EXCEPT !.category = c]]))
      PROVE  ListInv'
  <2>1. [Everything EXCEPT !.category = c] \in Filters
    BY DEF Everything, Filters
  <2>2. Settled([list.asked EXCEPT !.filter = [Everything EXCEPT !.category = c]]) \in Question
    BY <1>2, <2>1, NarrowAsks
  <2> QED
    BY <1>1, <1>3, <2>2, AskKeeps
<1>4. ASSUME NEW m \in Model \cup {None}, Ask(Settled([list.asked EXCEPT !.filter.model = m]))
      PROVE  ListInv'
  <2>1. [list.asked.filter EXCEPT !.model = m] \in Filters
    BY <1>2 DEF Question, Filters
  <2>2. Settled([list.asked EXCEPT !.filter = [list.asked.filter EXCEPT !.model = m]]) \in Question
    BY <1>2, <2>1, NarrowAsks
  <2> QED
    BY <1>1, <1>4, <2>2, AskKeeps
<1> QED
  BY <1>3, <1>4 DEF Narrow

LEMMA FetchKeeps == ListInv /\ Fetch => ListInv'
<1> SUFFICES ASSUME ListInv, Fetch
             PROVE  ListInv'
  OBVIOUS
<1> DEFINE found == Matching(list.asked.filter, fleet)
           rows == Window(found, list.asked.page * list.asked.size, list.asked.size)
<1>1. Showing /\ ListSound(list, fleet, stirs) /\ list \in Lists
  BY DEF Fetch, ListInv, ListSound, Showing
<1>2. /\ list.asked \in Question /\ list.asked.page \in Nat
      /\ list.asked.size \in ToSet(PageSizes) /\ list.asked.size \in Nat
  BY <1>1, ListConstants DEF Lists, Question
<1>3. /\ found \in Seq(Device) /\ Len(found) \in 0..Cardinality(Device)
      /\ \A p, q \in DOMAIN found : found[p] = found[q] => p = q
  BY MatchingTyped
<1>4. list.asked.page * list.asked.size \in Nat
  BY <1>2
<1>5. list' = [list EXCEPT !.rows = rows, !.total = Len(found)]
  BY DEF Fetch
<1> HIDE DEF found
<1>6. rows \in Seq(Device) /\ IsInjective(rows) /\ Len(rows) <= list.asked.size /\ Len(rows) <= Len(found)
  BY <1>2, <1>3, <1>4, WindowIs
<1> HIDE DEF rows
<1>7. list' = [ asked |-> list.asked, rows |-> rows, total |-> Len(found),
                picked |-> list.picked, walk |-> list.walk, box |-> list.box ]
  BY <1>1, <1>5 DEF Lists
<1>8. list' \in Lists
  BY <1>1, <1>3, <1>6, <1>7 DEF Lists
<1>9. RowsSound(list'.rows, list'.total)
  BY <1>2, <1>6, <1>7 DEF RowsSound
<1>10. list'.walk = list.walk
  BY <1>7
<1>11. ListSound(list', fleet, stirs)
  BY <1>1, <1>8, <1>9, <1>10 DEF ListSound
<1>12. /\ UNCHANGED <<fleet, unborn, carried, stirs, left, sent>>
       /\ clicks' \in 0..MaxClicks
  BY DEF Fetch, ListInv
<1> QED
  BY <1>1, <1>11, <1>12, ShowingKeeps

LEMMA SelectAllKeeps == ListInv /\ SelectAll => ListInv'
<1> SUFFICES ASSUME ListInv, SelectAll
             PROVE  ListInv'
  OBVIOUS
<1> DEFINE walk == [ filter |-> list.asked.filter, total |-> list.total, offset |-> 0,
                     met |-> NothingPicked,
                     quiet |-> list.total = Len(Matching(list.asked.filter, fleet)) ]
<1>1. Showing /\ ListSound(list, fleet, stirs) /\ list \in Lists /\ clicks' \in 0..MaxClicks
  BY ListConstants DEF SelectAll, Click, ListInv, ListSound, Showing
<1>2. /\ list.asked.filter \in Filters /\ list.rows \in Seq(Device)
      /\ list.total \in Nat /\ list.picked \in Picked
  BY <1>1, NewestTyped DEF Lists, Question
<1>3. list.rows # <<>> /\ Len(list.rows) <= list.total
  BY <1>1 DEF SelectAll, AllTicked, ListSound, RowsSound
<1>4. 0 < list.total
  BY <1>2, <1>3
<1>5. walk \in Walks
  BY <1>2, ListConstants DEF Walks
<1>6. WalkSound(walk, fleet, stirs)
  <2>1. stirs \in Nat /\ \A d \in Device : walk.met[d] = 0
    BY ListConstants DEF ListInv, NothingPicked
  <2>2. DOMAIN Matching(walk.filter, fleet) \subseteq Nat \ {0}
    BY MatchingTyped
  <2>3. walk.quiet => walk.total = Len(Matching(walk.filter, fleet))
    OBVIOUS
  <2>4. walk.offset = 0
    OBVIOUS
  <2> HIDE DEF walk
  <2> QED
    BY <2>1, <2>2, <2>3, <2>4 DEF WalkSound
<1>7. walk.offset < walk.total
  BY <1>4
<1>8. list' = [list EXCEPT !.walk = walk]
  BY DEF SelectAll
<1> HIDE DEF walk
<1>9. list' = [ asked |-> list.asked, rows |-> list.rows, total |-> list.total,
                picked |-> list.picked, walk |-> walk, box |-> list.box ]
  BY <1>1, <1>8 DEF Lists
<1>10. ListSound(list', fleet, stirs)
  BY <1>1, <1>2, <1>5, <1>6, <1>7, <1>9, WalksSound
<1> QED
  BY <1>1, <1>10, ShowingKeeps DEF SelectAll

LEMMA WalkKeeps == ListInv /\ Walk => ListInv'
<1> SUFFICES ASSUME ListInv, Walk
             PROVE  ListInv'
  OBVIOUS
<1> DEFINE walk == list.walk
           items == Reading(walk)
           met == [ d \in Device |-> walk.met[d] + (IF d \in ToSet(items) THEN 1 ELSE 0) ]
           next == walk.offset + WalkPage
           on == [walk EXCEPT !.offset = next, !.met = met]
<1>1. Showing /\ ListSound(list, fleet, stirs) /\ list \in Lists /\ clicks' \in 0..MaxClicks
  BY DEF Walk, ListInv, ListSound, Showing
<1>2. /\ walk # None /\ walk \in Walks /\ WalkSound(walk, fleet, stirs)
      /\ list.picked \in Picked /\ stirs \in 0..MaxStirs
  BY <1>1 DEF Walk, ListSound, Lists, ListInv
<1>3. \/ list' = [list EXCEPT !.walk = None, !.picked = Land(list.picked, met)]
      \/ next < walk.total /\ list' = [list EXCEPT !.walk.offset = next, !.walk.met = met]
  <2>1. next \in Nat /\ walk.total \in Nat
    BY <1>2, ListConstants DEF Walks
  <2> QED
    BY <2>1 DEF Walk
<1>4. /\ met \in Picked
      /\ \A d \in Device : /\ met[d] <= stirs + 1
                           /\ met[d] = stirs + 1 =>
                                \A p \in DOMAIN Matching(walk.filter, fleet) :
                                   Matching(walk.filter, fleet)[p] = d => p <= next
      /\ walk.quiet => \A p \in DOMAIN Matching(walk.filter, fleet) :
                          p <= next => met[Matching(walk.filter, fleet)[p]] > 0
  BY <1>2, WalkReads
<1>5. next \in Nat
  BY <1>2, ListConstants DEF Walks
<1> HIDE DEF met, next, items
<1>6. CASE list' = [list EXCEPT !.walk = None, !.picked = Land(list.picked, met)]
  <2>1. list' = [ asked |-> list.asked, rows |-> list.rows, total |-> list.total,
                  picked |-> Land(list.picked, met), walk |-> None, box |-> list.box ]
    BY <1>1, <1>6 DEF Lists
  <2>2. Land(list.picked, met) \in Picked
    BY <1>2, <1>4, PicksTyped
  <2>3. ListSound(list', fleet, stirs)
    BY <1>1, <2>1, <2>2, WalksSound
  <2> QED
    BY <1>1, <2>3, ShowingKeeps DEF Walk
<1>7. CASE next < walk.total /\ list' = [list EXCEPT !.walk.offset = next, !.walk.met = met]
  <2>1. /\ on \in Walks /\ on.offset = next /\ on.met = met /\ on.filter = walk.filter
        /\ on.total = walk.total /\ on.quiet = walk.quiet
    BY <1>2, <1>4, <1>5 DEF Walks
  <2>2. list' = [list EXCEPT !.walk = on]
    BY <1>7
  <2>3. on.offset < on.total
    BY <1>7, <2>1
  <2> HIDE DEF on
  <2>4. WalkSound(on, fleet, stirs)
    BY <1>2, <1>4, <2>1 DEF WalkSound
  <2>5. list' = [ asked |-> list.asked, rows |-> list.rows, total |-> list.total,
                  picked |-> list.picked, walk |-> on, box |-> list.box ]
    BY <1>1, <2>2 DEF Lists
  <2>6. ListSound(list', fleet, stirs)
    BY <1>1, <1>2, <2>1, <2>3, <2>4, <2>5, WalksSound
  <2> QED
    BY <1>1, <2>6, ShowingKeeps DEF Walk
<1> QED
  BY <1>3, <1>6, <1>7

LEMMA ListServerKeeps == ListInv /\ (ServerDeletes \/ ServerMoves \/ RemoveOne \/ Colleague) => ListInv'
<1> SUFFICES ASSUME ListInv, ServerDeletes \/ ServerMoves \/ RemoveOne \/ Colleague
             PROVE  ListInv'
  OBVIOUS
<1>0. /\ fleet \subseteq Device /\ unborn \subseteq Device \ fleet
      /\ clicks \in 0..MaxClicks /\ stirs \in 0..MaxStirs
      /\ sent # None => sent \in Orders
  BY DEF ListInv
<1>1. ASSUME NEW answer \in {"done", "refused"}, sent # None,
             sent' = [sent EXCEPT !.answer = answer]
      PROVE  /\ sent # None /\ sent' \in Orders
             /\ sent'.ids = sent.ids /\ sent'.typed = sent.typed /\ sent'.heard = sent.heard
  BY <1>0, <1>1 DEF Orders
<1>2. CASE ServerDeletes /\ Deletable(sent)
  <2>1. /\ sent # None /\ sent' = [sent EXCEPT !.answer = "done"]
        /\ fleet' \subseteq fleet /\ list' = Disturbed
        /\ UNCHANGED <<unborn, carried, clicks, stirs, left>>
    BY <1>2 DEF ServerDeletes
  <2> QED
    BY <1>0, <1>1, <2>1, FleetKeeps
<1>3. ASSUME UNCHANGED <<fleet, list, unborn, carried, clicks, stirs, left>>,
             sent # None, sent' # None => /\ sent' \in Orders /\ sent'.ids = sent.ids
                                          /\ sent'.typed = sent.typed
                                          /\ sent'.heard = sent.heard
      PROVE  ListInv'
  BY <1>3 DEF ListInv
<1>4. CASE ServerDeletes /\ ~ Deletable(sent)
  <2>1. /\ sent # None /\ sent' = [sent EXCEPT !.answer = "refused"]
        /\ UNCHANGED <<fleet, list, unborn, carried, clicks, stirs, left>>
    BY <1>4 DEF ServerDeletes
  <2> QED
    BY <1>1, <1>3, <2>1
<1>5. CASE ServerMoves
  <2>1. /\ sent # None
        /\ \E answer \in {"done", "refused"} : sent' = [sent EXCEPT !.answer = answer]
        /\ UNCHANGED <<fleet, list, unborn, carried, clicks, stirs, left>>
    BY <1>5 DEF ServerMoves
  <2> QED
    BY <1>1, <1>3, <2>1
<1>6. CASE RemoveOne
  <2>1. /\ fleet' \subseteq fleet /\ list' = Disturbed /\ clicks' \in 0..MaxClicks
        /\ UNCHANGED <<unborn, carried, sent, stirs, left>>
    BY <1>0, <1>6, ListConstants DEF RemoveOne, Click
  <2> QED
    BY <1>0, <2>1, FleetKeeps
<1>7. CASE Colleague
  <2>1. /\ fleet' \subseteq Device /\ unborn' \subseteq Device \ fleet'
        /\ list' = Disturbed /\ stirs' = stirs + 1 /\ stirs' \in 0..MaxStirs
        /\ UNCHANGED <<carried, sent, clicks, left>>
    BY <1>0, <1>7, ListConstants DEF Colleague
  <2> QED
    BY <1>0, <2>1, FleetKeeps
<1> QED
  BY <1>2, <1>4, <1>5, <1>6, <1>7

LEMMA ListAnswerKeeps == ListInv /\ Answer => ListInv'
<1> SUFFICES ASSUME ListInv, Answer
             PROVE  ListInv'
  OBVIOUS
<1>1. sent # None /\ sent' = None /\ UNCHANGED <<fleet, unborn, carried, clicks, stirs, left>>
  BY DEF Answer
<1>2. CASE list' = list
  BY <1>1, <1>2 DEF ListInv
<1>3. CASE sent.heard /\ list' = [list EXCEPT !.picked = NothingPicked, !.box = None]
  <2>1. Showing /\ ListSound(list, fleet, stirs) /\ list \in Lists
    BY <1>1, <1>3 DEF ListInv, ListSound, Showing
  <2>2. list' = [ asked |-> list.asked, rows |-> list.rows, total |-> list.total,
                  picked |-> NothingPicked, walk |-> list.walk, box |-> None ]
    BY <1>3, <2>1 DEF Lists
  <2>3. list.asked \in Question
    BY <2>1 DEF Lists
  <2>4. ListSound(list', fleet, stirs)
    BY <2>1, <2>2, <2>3, ListConstants, OthersSound
  <2>5. left' = None /\ list' # None
    BY <1>1, <2>1, <2>4, NothingIsNoList DEF ListInv, ListSound, Showing
  <2> QED
    BY <1>1, <2>4, <2>5 DEF ListInv
<1> QED
  BY <1>2, <1>3 DEF Answer

LEMMA LeavingKeeps == ListInv /\ (OpenDevice \/ Record \/ Return) => ListInv'
<1> SUFFICES ASSUME ListInv, OpenDevice \/ Record \/ Return
             PROVE  ListInv'
  OBVIOUS
<1>1. sent # None => sent \in Orders /\ sent.typed = Count(sent.ids)
  BY DEF ListInv
<1>2. ASSUME sent' = Unheard
      PROVE  sent' # None => /\ sent' \in Orders /\ sent'.typed = Count(sent'.ids)
                             /\ ~ sent'.heard
  <2>1. CASE sent = None
    BY <1>2, <2>1 DEF Unheard
  <2>2. CASE sent # None
    <3>1. sent' = [sent EXCEPT !.heard = FALSE] /\ sent \in Orders
      BY <1>1, <1>2, <2>2 DEF Unheard
    <3>2. sent' \in Orders /\ sent'.typed = sent.typed /\ sent'.ids = sent.ids /\ ~ sent'.heard
      BY <3>1 DEF Orders
    <3> QED
      BY <1>1, <2>2, <3>2
  <2> QED
    BY <2>1, <2>2
<1>3. CASE OpenDevice
  <2>1. /\ list # None /\ list' = None /\ sent' = Unheard /\ clicks' \in 0..MaxClicks
        /\ left' = list.asked /\ carried' = AddressOf(list.asked)
        /\ UNCHANGED <<fleet, unborn, stirs>>
    BY <1>3, ListConstants DEF OpenDevice, Click, Showing, ListInv
  <2>2. list.asked \in Question
    BY <2>1 DEF ListInv, ListSound, Lists
  <2>3. carried' \in Address
    BY <2>1, <2>2, AddressTold
  <2> QED
    BY <1>2, <2>1, <2>2, <2>3 DEF ListInv
<1>4. CASE Record
  <2>1. /\ list' = None /\ left' = None /\ carried' = Plain /\ sent' = Unheard
        /\ clicks' \in 0..MaxClicks /\ stirs' = stirs
        /\ fleet' \subseteq Device /\ unborn' \subseteq Device \ fleet'
    BY <1>4, ListConstants DEF Record, Click, ListInv
  <2> QED
    BY <1>2, <2>1, ListConstants DEF ListInv
<1>5. CASE Return
  <2>1. /\ list = None /\ list' = Mounted(carried) /\ carried' = Plain /\ left' = None
        /\ UNCHANGED <<fleet, unborn, sent, clicks, stirs>>
    BY <1>5 DEF Return, Showing
  <2>2. ListSound(list', fleet, stirs)
    BY <2>1, MountedSound DEF ListInv
  <2>3. list' # None
    BY <2>2, NothingIsNoList DEF ListSound
  <2> QED
    BY <1>1, <2>1, <2>2, <2>3, ListConstants DEF ListInv
<1> QED
  BY <1>3, <1>4, <1>5

LEMMA TickKeeps == ListInv /\ (Tick \/ TickPage \/ Clear) => ListInv'
<1> SUFFICES ASSUME ListInv, Tick \/ TickPage \/ Clear
             PROVE  ListInv'
  OBVIOUS
<1>1. Showing /\ clicks' \in 0..MaxClicks /\ list.picked \in Picked
  BY ListConstants DEF Tick, TickPage, Clear, Click, ListInv, ListSound, Lists, Showing
<1>2. \A devices : Without(list.picked, devices) \in Picked /\ With(list.picked, devices) \in Picked
  BY <1>1, PicksTyped
<1>3. CASE Tick
  <2>1. PICK i, j \in DOMAIN list.rows :
           LET run == ToSet(SubSeq(list.rows, Min({i, j}), Max({i, j}))) IN
           Pick(IF Has(list.picked, list.rows[i]) THEN Without(list.picked, run)
                                                  ELSE With(list.picked, run))
    BY <1>3 DEF Tick
  <2> DEFINE run == ToSet(SubSeq(list.rows, Min({i, j}), Max({i, j})))
  <2>2. Pick(Without(list.picked, run)) \/ Pick(With(list.picked, run))
    BY <2>1
  <2> HIDE DEF run
  <2> QED
    BY <1>1, <1>2, <2>2, PickKeeps
<1>4. CASE TickPage
  BY <1>1, <1>2, <1>4, PickKeeps DEF TickPage
<1>5. CASE Clear
  BY <1>1, <1>5, PickKeeps, ListConstants DEF Clear
<1> QED
  BY <1>3, <1>4, <1>5

LEMMA PageKeeps == ListInv /\ (Turn \/ Resize) => ListInv'
<1> SUFFICES ASSUME ListInv, Turn \/ Resize
             PROVE  ListInv'
  OBVIOUS
<1>1. Showing /\ clicks' \in 0..MaxClicks /\ list.asked \in Question
  BY ListConstants DEF Turn, Resize, Click, ListInv, ListSound, Lists, Showing
<1>2. CASE Turn
  <2>1. PICK n \in 0..(PageCount - 1) : Ask([list.asked EXCEPT !.page = n])
    BY <1>2 DEF Turn
  <2>2. n \in Nat
    OBVIOUS
  <2> QED
    BY <1>1, <2>1, <2>2, NarrowAsks, AskKeeps
<1>3. CASE Resize
  <2>1. PICK size \in ToSet(PageSizes) : Ask(Settled([list.asked EXCEPT !.size = size]))
    BY <1>3 DEF Resize
  <2> QED
    BY <1>1, <2>1, NarrowAsks, AskKeeps
<1> QED
  BY <1>2, <1>3

LEMMA ActionBarKeeps == ListInv /\ (WalkFails \/ Type \/ Cancel \/ Confirm \/ Move) => ListInv'
<1> SUFFICES ASSUME ListInv, WalkFails \/ Type \/ Cancel \/ Confirm \/ Move
             PROVE  ListInv'
  OBVIOUS
<1>1. /\ Showing /\ clicks' \in 0..MaxClicks /\ ListSound(list, fleet, stirs)
      /\ list \in Lists /\ list.picked \in Picked
  BY ListConstants
     DEF WalkFails, Type, Cancel, Confirm, Move, Click, ListInv, ListSound, Lists, Showing
<1>2. Count(list.picked) \in Nat
  BY <1>1, CountTyped
<1>3. CASE WalkFails
  <2>1. list' = [ asked |-> list.asked, rows |-> list.rows, total |-> list.total,
                  picked |-> list.picked, walk |-> None, box |-> list.box ]
    BY <1>1, <1>3 DEF WalkFails, Lists
  <2>2. ListSound(list', fleet, stirs)
    BY <1>1, <2>1, WalksSound
  <2> QED
    BY <1>1, <1>3, <2>2, ShowingKeeps DEF WalkFails
<1>4. CASE Type
  BY <1>1, <1>2, <1>4, BoxKeeps DEF Type
<1>5. CASE Cancel
  BY <1>1, <1>5, BoxKeeps DEF Cancel
<1>6. ASSUME NEW what \in {"delete", "move"}, NEW typed, typed = Count(list.picked),
             sent' = [ what |-> what, ids |-> list.picked, typed |-> typed,
                       answer |-> None, heard |-> TRUE ]
      PROVE  sent' \in Orders /\ sent'.typed = Count(sent'.ids)
  BY <1>1, <1>2, <1>6 DEF Orders
<1>7. CASE Confirm
  <2>1. sent' \in Orders /\ sent'.typed = Count(sent'.ids)
    BY <1>6, <1>7 DEF Confirm, Armed
  <2> QED
    BY <1>1, <1>7, <2>1, BoxKeeps DEF Confirm
<1>8. CASE Move
  <2>1. sent' \in Orders /\ sent'.typed = Count(sent'.ids)
    BY <1>6, <1>8 DEF Move
  <2>2. list' = list /\ UNCHANGED <<fleet, unborn, carried, stirs, left>>
    BY <1>8 DEF Move, Click
  <2> QED
    BY <1>1, <2>1, <2>2, ShowingKeeps
<1> QED
  BY <1>3, <1>4, <1>5, <1>7, <1>8

LEMMA ListInvStep == ListInv /\ [ListNext]_listVars => ListInv'
<1> SUFFICES ASSUME ListInv, [ListNext]_listVars
             PROVE  ListInv'
  OBVIOUS
<1>1. CASE UNCHANGED listVars
  BY <1>1 DEF ListInv, listVars
<1> QED
  BY <1>1, NarrowKeeps, FetchKeeps, SelectAllKeeps, WalkKeeps, ListServerKeeps, ListAnswerKeeps,
     LeavingKeeps, TickKeeps, PageKeeps, ActionBarKeeps DEF ListNext

LEMMA ListAlways == ListSpec => []ListInv
BY ListInvInit, ListInvStep, PTL DEF ListSpec

(* The list, its walk, its batch and its address are what they are         *)
(* declared as (Assets, useSelection): above all, a page never repeats a   *)
(* device, and a walk meets one at most once more than colleagues stirred. *)
THEOREM ListStaysTyped == ListSpec => []ListTypeOK
BY ListAlways, ListIsTyped, PTL

(* Opening a device and coming back finds the filters and the page size    *)
(* that were left, for any fleet, filters and page sizes, and whatever is  *)
(* ticked, walked, deleted and answered meanwhile (AssetDetail's back,     *)
(* Assets' filters).                                                       *)
THEOREM FiltersAlwaysComeBack == ListSpec => FiltersComeBack
<1>1. ASSUME ListInv, [ListNext]_listVars
      PROVE  [ ~ Showing /\ list' # None /\ left # None =>
                  /\ list'.asked.filter = left.filter
                  /\ list'.asked.size = left.size ]_listVars
  <2> SUFFICES ASSUME ListNext, ~ Showing, list' # None, left # None
               PROVE  /\ list'.asked.filter = left.filter
                      /\ list'.asked.size = left.size
    BY <1>1 DEF listVars
  <2>1. left \in Question /\ carried = AddressOf(left)
    BY <1>1 DEF ListInv
  <2>2. Return
    <3>1. ~ ServerDeletes /\ ~ ServerMoves /\ ~ Colleague
      BY DEF ServerDeletes, ServerMoves, Colleague, Disturbed, Showing
    <3>2. ~ Answer
      BY <1>1 DEF Answer, ListInv, Showing
    <3>3. ~ OpenDevice /\ ~ Record
      BY DEF OpenDevice, Record
    <3> QED
      BY <3>1, <3>2, <3>3
         DEF ListNext, Narrow, Turn, Resize, Fetch, Tick, TickPage, Clear, SelectAll, Walk,
             WalkFails, Type, Cancel, Confirm, Move, RemoveOne, Click
  <2> QED
    BY <2>1, <2>2, AddressTold DEF Return
<1> QED
  BY <1>1, ListAlways, PTL DEF ListSpec, FiltersComeBack

(* A batch that may be deleted names each device once, so that as many are *)
(* named as are counted.                                                   *)
LEMMA NamedOnce ==
    ASSUME NEW batch \in Orders, Deletable(batch)
    PROVE  Cardinality(Named(batch)) = Count(batch.ids)
<1>1. batch.ids \in [Device -> Nat] /\ \A d \in Device : batch.ids[d] <= 1
  BY ListConstants DEF Orders, Picked, Deletable
<1>2. batch.ids \in [Device -> {0, 1}]
  BY <1>1
<1> QED
  BY <1>2, NewestTyped, SumOfOnes DEF Named, Count

(* For any fleet and any number of devices: what a confirmed batch deletes *)
(* is what was ticked, all of it, and as many as were typed, or nothing is *)
(* deleted (ConfirmDialog, ActionBar, DeleteMany).                         *)
THEOREM CountIsAlwaysHonest == ListSpec => CountIsHonest
<1>1. ASSUME ListInv, [ListNext]_listVars
      PROVE  [ sent # None /\ sent' # None /\ sent.what = "delete" /\ sent.answer # sent'.answer =>
                  LET gone == fleet \ fleet' IN
                  IF sent'.answer = "done"
                  THEN gone = Named(sent) /\ Cardinality(gone) = sent.typed
                  ELSE gone = {} ]_listVars
  <2> SUFFICES ASSUME ListNext, sent # None, sent' # None, sent.what = "delete",
                      sent.answer # sent'.answer
               PROVE  LET gone == fleet \ fleet' IN
                      IF sent'.answer = "done"
                      THEN gone = Named(sent) /\ Cardinality(gone) = sent.typed
                      ELSE gone = {}
    BY <1>1 DEF listVars
  <2>1. sent \in Orders /\ sent.typed = Count(sent.ids)
    BY <1>1 DEF ListInv
  <2>2. ServerDeletes
    <3>1. sent' # sent
      OBVIOUS
    <3>2. ~ OpenDevice /\ ~ Record
      <4>1. sent' # Unheard
        BY <2>1 DEF Unheard, Orders
      <4> QED
        BY <4>1 DEF OpenDevice, Record
    <3>3. ~ ServerMoves /\ ~ Answer /\ ~ Confirm /\ ~ Move
      BY DEF ServerMoves, Answer, Confirm, Move
    <3>4. ~ Narrow /\ ~ Turn /\ ~ Resize /\ ~ Tick /\ ~ TickPage /\ ~ Clear
      BY <3>1 DEF Narrow, Turn, Resize, Tick, TickPage, Clear, Ask, Pick
    <3>5. ~ Fetch /\ ~ SelectAll /\ ~ Walk /\ ~ WalkFails /\ ~ Type /\ ~ Cancel
      BY <3>1 DEF Fetch, SelectAll, Walk, WalkFails, Type, Cancel
    <3>6. ~ RemoveOne /\ ~ Return /\ ~ Colleague
      BY <3>1 DEF RemoveOne, Return, Colleague
    <3> QED
      BY <3>2, <3>3, <3>4, <3>5, <3>6 DEF ListNext
  <2>3. CASE Deletable(sent)
    <3>1. fleet' = fleet \ Named(sent) /\ sent' = [sent EXCEPT !.answer = "done"]
      BY <2>2, <2>3 DEF ServerDeletes
    <3>2. fleet \ fleet' = Named(sent)
      BY <2>3, <3>1 DEF Deletable
    <3>3. Cardinality(Named(sent)) = sent.typed
      BY <2>1, <2>3, NamedOnce
    <3>4. sent'.answer = "done"
      BY <2>1, <3>1 DEF Orders
    <3> QED
      BY <3>2, <3>3, <3>4
  <2>4. CASE ~ Deletable(sent)
    <3>1. fleet' = fleet /\ sent' = [sent EXCEPT !.answer = "refused"]
      BY <2>2, <2>4 DEF ServerDeletes
    <3>2. sent'.answer = "refused"
      BY <2>1, <3>1 DEF Orders
    <3> QED
      BY <3>1, <3>2
  <2> QED
    BY <2>3, <2>4
<1> QED
  BY <1>1, ListAlways, PTL DEF ListSpec, CountIsHonest

(* For any fleet, filter and size of a reading: a walk that starts from a  *)
(* true total and is not disturbed ticks all that its filter matches       *)
(* (SelectAllBanner).                                                      *)
THEOREM QuietWalksAlwaysTakeAll == ListSpec => QuietWalksTakeAll
<1>1. ASSUME ListInv, [ListNext]_listVars
      PROVE  [ Showing /\ list.walk # None /\ list.walk.quiet /\ Walk /\ list'.walk = None =>
                  \A d \in ToSet(Matching(list.walk.filter, fleet)) :
                     Has(list'.picked, d) ]_listVars
  <2> SUFFICES ASSUME Showing, list.walk # None, list.walk.quiet, Walk, list'.walk = None,
                      NEW d \in ToSet(Matching(list.walk.filter, fleet))
               PROVE  Has(list'.picked, d)
    BY <1>1
  <2> DEFINE walk == list.walk
             all == Matching(walk.filter, fleet)
             met == [ e \in Device |-> walk.met[e] + (IF e \in ToSet(Reading(walk)) THEN 1 ELSE 0) ]
             next == walk.offset + WalkPage
             on == [walk EXCEPT !.offset = next, !.met = met]
  <2>1. ListSound(list, fleet, stirs) /\ list \in Lists /\ stirs \in 0..MaxStirs
    BY <1>1 DEF ListInv, ListSound, Showing
  <2>2. /\ walk \in Walks /\ WalkSound(walk, fleet, stirs) /\ list.picked \in Picked
        /\ walk.total = Len(all) /\ next \in Nat /\ walk.offset \in Nat /\ walk.offset <= next
    BY <2>1, ListConstants DEF ListSound, Lists, Walks, WalkSound
  <2>3. /\ met \in Picked
        /\ \A p \in DOMAIN all : p <= next => met[all[p]] > 0
        /\ Reading(walk) = <<>> => Len(all) <= walk.offset
    BY <2>1, <2>2, WalkReads
  <2>4. /\ all \in Seq(Device) /\ Len(all) \in Nat /\ DOMAIN all = 1..Len(all)
    BY MatchingTyped
  <2>5. \/ /\ Reading(walk) = <<>> \/ next >= walk.total
           /\ list' = [list EXCEPT !.walk = None, !.picked = Land(list.picked, met)]
        \/ list' = [list EXCEPT !.walk.offset = next, !.walk.met = met]
    BY DEF Walk
  <2> HIDE DEF met, all, next
  <2>6. ~ (list' = [list EXCEPT !.walk.offset = next, !.walk.met = met])
    <3> SUFFICES ASSUME list' = [list EXCEPT !.walk.offset = next, !.walk.met = met]
                 PROVE  FALSE
      OBVIOUS
    <3>1. list' = [list EXCEPT !.walk = on]
      OBVIOUS
    <3>2. on \in Walks
      BY <2>2, <2>3 DEF Walks
    <3> HIDE DEF on
    <3>3. list'.walk = on
      BY <2>1, <3>1 DEF Lists
    <3> QED
      BY <3>2, <3>3, NothingIsNoList
  <2>7. Len(all) <= next /\ list' = [list EXCEPT !.walk = None, !.picked = Land(list.picked, met)]
    BY <2>2, <2>3, <2>4, <2>5, <2>6
  <2>8. PICK p \in DOMAIN all : all[p] = d
    BY DEF ToSet, all
  <2>9. d \in Device /\ met[d] > 0
    BY <2>2, <2>3, <2>4, <2>7, <2>8
  <2>10. list'.picked = Land(list.picked, met)
    BY <2>1, <2>7 DEF Lists
  <2> QED
    BY <2>9, <2>10 DEF Has, Land
<1> QED
  BY <1>1, ListAlways, PTL DEF ListSpec, QuietWalksTakeAll
=============================================================================
