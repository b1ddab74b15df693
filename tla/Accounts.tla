------------------------------ MODULE Accounts ------------------------------
(***************************************************************************)
(* Who may do what: accounts (internal/auth), roles (internal/authz), the  *)
(* handlers that change them (internal/httpapi), and the dialog that edits *)
(* a role (web/src/features/roles/RoleEditor.tsx).                         *)
(*                                                                         *)
(* Handlers run side by side.  Each looks things up on the read pool       *)
(* first, and then writes in a transaction of its own; between the two     *)
(* anything may have changed.  The role of an account is a foreign key.    *)
(* The dialog sends all the switches of a role as they were when it was    *)
(* opened, but for those that were clicked; a save that is refused leaves  *)
(* it open, as if it had not been sent.                                    *)
(*                                                                         *)
(* Names, passwords and addresses are left out, and so is what a handler   *)
(* looks up for the audit trail.  Whether an account owns devices is a     *)
(* choice.  The administrators' role is seeded, and no role becomes one.   *)
(***************************************************************************)
EXTENDS Naturals, FiniteSets, FiniteSetsExt

CONSTANTS
    User, Role, Permission,
    AdminRole,      \* authz.AdminRoleID: every permission, no switches
    UserRole,       \* authz.UserRoleID: what a new OIDC account gets
    UserSwitches,   \* the switches migration 016 gives it
    Manage,         \* role.manage
    Handler,        \* requests that may be under way at a time
    MaxRequests,    \* bound: requests there are
    Vacant,         \* no row, nothing under way
    Gone            \* a role that was deleted: its id does not come back

Account == [ active : BOOLEAN, role : Role, linked : BOOLEAN ]

ASSUME AccountsAssumption ==
    /\ {AdminRole, UserRole} \subseteq Role /\ AdminRole # UserRole
    /\ Manage \in Permission /\ UserSwitches \subseteq Permission
    /\ Vacant \notin Account \cup Role \cup {Gone}
    /\ \A s \in SUBSET Permission : s # Vacant /\ s # Gone
    /\ MaxRequests \in Nat

VARIABLES
    users,          \* the users table
    roles,          \* the switches of each role in the roles table
    handlers,       \* what each request has read, and will write
    editor,         \* the dialog of a role
    requests

accountsVars == <<users, roles, handlers, editor, requests>>

NewUser(role, linked) == [ active |-> TRUE, role |-> role, linked |-> linked ]

Exists(u) == users[u] # Vacant
Standing(r) == roles[r] \notin {Vacant, Gone}

Toggled(switches, p) == IF p \in switches THEN switches \ {p} ELSE switches \cup {p}

Holds(u, r) == Exists(u) /\ users[u].role = r

IsAdmin(u) == Holds(u, AdminRole) /\ users[u].active

(* usePermissions and the middleware, by role.manage.                      *)
MayManage(u) == IsAdmin(u) \/ (Exists(u) /\ users[u].active /\ Manage \in roles[users[u].role])

(* Serve seeds the account of the configuration file and the two roles.    *)
AccountsInit ==
    /\ \E u \in User : users = [ v \in User |-> IF v = u THEN NewUser(AdminRole, FALSE) ELSE Vacant ]
    /\ roles = [ r \in Role |-> CASE r = AdminRole -> {}
                                   [] r = UserRole -> UserSwitches
                                   [] OTHER -> Vacant ]
    /\ handlers = [ h \in Handler |-> Vacant ]
    /\ editor = Vacant
    /\ requests = 0

-----------------------------------------------------------------------------
Begin(h, job) ==
    /\ handlers[h] = Vacant
    /\ requests < MaxRequests
    /\ requests' = requests + 1
    /\ handlers' = [handlers EXCEPT ![h] = job]
    /\ UNCHANGED <<users, roles>>

Doing(h, what) == handlers[h] # Vacant /\ handlers[h].what = what

End(h) ==
    /\ handlers' = [handlers EXCEPT ![h] = Vacant]
    /\ UNCHANGED requests

Write(rows) == users' = rows /\ UNCHANGED <<roles, editor>>

NoChange == UNCHANGED <<users, roles, editor>>

(* createUser: the role is looked up, then the account is inserted.        *)
AskCreate(h) ==
    \E u \in User, r \in Role :
        /\ ~ Exists(u)
        /\ Standing(r)
        /\ Begin(h, [ what |-> "create", user |-> u, role |-> r, linked |-> FALSE ])
        /\ UNCHANGED editor

(* UpsertUser: an account with the address is linked; else the first ever  *)
(* to sign in through OIDC becomes an administrator.                       *)
Arrive(h) ==
    \E u \in User :
        /\ \/ /\ Exists(u)
              /\ ~ users[u].linked
              /\ Begin(h, [ what |-> "link", user |-> u ])
           \/ /\ ~ Exists(u)
              /\ LET first == \A v \in User : Exists(v) => ~ users[v].linked IN
                 Begin(h, [ what |-> "create", user |-> u, linked |-> TRUE,
                            role |-> IF first THEN AdminRole ELSE UserRole ])
        /\ UNCHANGED editor

(* Users.Create: the address is unique, and the role must be there.        *)
Create(h) ==
    LET job == handlers[h] IN
    /\ Doing(h, "create")
    /\ \/ /\ ~ Exists(job.user)
          /\ Standing(job.role)
          /\ Write([users EXCEPT ![job.user] = NewUser(job.role, job.linked)])
       \/ (Exists(job.user) \/ ~ Standing(job.role)) /\ NoChange
    /\ End(h)

LinkOIDC(h) ==
    /\ Doing(h, "link")
    /\ Write([users EXCEPT ![handlers[h].user].linked = TRUE])
    /\ End(h)

(* guardLastAdmin, inside the transaction: next is the role to come, or    *)
(* Vacant when the account is disabled.  The variant counts disabled       *)
(* accounts.                                                               *)
OtherAdminAccounts(u) == { v \in User \ {u} : Holds(v, AdminRole) }
OtherAdmins(u) == { v \in User \ {u} : IsAdmin(v) }

LeavesSomebody(u, next) == IsAdmin(u) /\ next # AdminRole => OtherAdmins(u) # {}

(* setUserRole: nobody changes their own.                                  *)
AskRole(h) ==
    \E actor, u \in User, r \in Role :
        /\ MayManage(actor)
        /\ Exists(u)
        /\ u # actor
        /\ Standing(r)
        /\ Begin(h, [ what |-> "role", user |-> u, role |-> r ])
        /\ UNCHANGED editor

SetRole(h) ==
    LET job == handlers[h] IN
    /\ Doing(h, "role")
    /\ \/ /\ LeavesSomebody(job.user, job.role)
          /\ Standing(job.role)
          /\ Write([users EXCEPT ![job.user].role = job.role])
       \/ ~ (LeavesSomebody(job.user, job.role) /\ Standing(job.role)) /\ NoChange
    /\ End(h)

(* patchUser, which may find that the account still owns devices.          *)
Disable ==
    \E u \in User :
        /\ Exists(u)
        /\ users[u].active
        /\ LeavesSomebody(u, Vacant)
        /\ Write([users EXCEPT ![u].active = FALSE])
        /\ UNCHANGED <<handlers, requests>>

Enable ==
    \E u \in User :
        /\ Exists(u)
        /\ ~ users[u].active
        /\ Write([users EXCEPT ![u].active = TRUE])
        /\ UNCHANGED <<handlers, requests>>

-----------------------------------------------------------------------------
(* A write of a role is noted by who goes on from what it was before.      *)
Overtaken(e, r) == IF e # Vacant /\ e.role = r THEN [e EXCEPT !.overtaken = TRUE] ELSE e

CreateRole ==
    \E r \in Role, switches \in SUBSET Permission :
        /\ roles[r] = Vacant
        /\ requests < MaxRequests
        /\ requests' = requests + 1
        /\ roles' = [roles EXCEPT ![r] = switches]
        /\ UNCHANGED <<users, handlers, editor>>

(* RoleEditor's state for a role; clicked is history.  The variant starts  *)
(* with every switch off.                                                  *)
OpenedBlank(r) == [ role |-> r, chosen |-> {}, clicked |-> {}, overtaken |-> FALSE ]
Opened(r) == [ role |-> r, chosen |-> roles[r], clicked |-> {}, overtaken |-> FALSE ]

OpenEditor ==
    \E r \in Role \ {AdminRole} :
        /\ editor = Vacant
        /\ Standing(r)
        /\ editor' = Opened(r)
        /\ UNCHANGED <<users, roles, handlers, requests>>

Toggle ==
    \E p \in Permission :
        /\ editor # Vacant
        /\ editor' = [editor EXCEPT !.chosen = Toggled(@, p), !.clicked = Toggled(@, p)]
        /\ UNCHANGED <<users, roles, handlers, requests>>

CloseEditor ==
    /\ editor # Vacant
    /\ editor' = Vacant
    /\ UNCHANGED <<users, roles, handlers, requests>>

(* Roles.Update looks the role up, and writes it whole.                    *)
SaveEditor(h) ==
    /\ editor # Vacant
    /\ Standing(editor.role)
    /\ Begin(h, [ what |-> "update", role |-> editor.role, chosen |-> editor.chosen,
                  clicked |-> editor.clicked, overtaken |-> editor.overtaken ])
    /\ editor' = Vacant

(* Another client's: a switch, or a new name alone, which writes the       *)
(* switches back as they were read.                                        *)
AskUpdate(h) ==
    \E r \in Role \ {AdminRole} :
        /\ Standing(r)
        /\ \E clicked \in { {} } \cup { {p} : p \in Permission } :
            Begin(h, [ what |-> "update", role |-> r, clicked |-> clicked, overtaken |-> FALSE,
                       chosen |-> SymDiff(roles[r], clicked) ])
        /\ UNCHANGED editor

(* An update of a role that is gone changes no row.                        *)
UpdateRole(h) ==
    LET job == handlers[h] IN
    /\ Doing(h, "update")
    /\ roles' = IF Standing(job.role) THEN [roles EXCEPT ![job.role] = job.chosen] ELSE roles
    /\ handlers' = [ g \in Handler |->
            IF g = h THEN Vacant
            ELSE IF Doing(g, "update") THEN Overtaken(handlers[g], job.role) ELSE handlers[g] ]
    /\ editor' = Overtaken(editor, job.role)
    /\ UNCHANGED <<users, requests>>

(* Roles.Delete counts on the read pool.                                   *)
AskDelete(h) ==
    \E r \in Role :
        /\ Standing(r)
        /\ \A u \in User : ~ Holds(u, r)
        /\ Begin(h, [ what |-> "delete", role |-> r ])
        /\ UNCHANGED editor

(* The foreign key, when the role is deleted; the variant has none, so     *)
(* that the count alone decides.                                           *)
UnusedWhenAsked(r) == TRUE
Unused(r) == \A u \in User : ~ Holds(u, r)

DeleteRole(h) ==
    LET r == handlers[h].role IN
    /\ Doing(h, "delete")
    /\ roles' = IF Unused(r) THEN [roles EXCEPT ![r] = Gone] ELSE roles
    /\ End(h)
    /\ UNCHANGED <<users, editor>>

AccountsNext ==
    \/ \E h \in Handler :
        \/ AskCreate(h) \/ Arrive(h) \/ Create(h) \/ LinkOIDC(h)
        \/ AskRole(h) \/ SetRole(h)
        \/ SaveEditor(h) \/ AskUpdate(h) \/ UpdateRole(h)
        \/ AskDelete(h) \/ DeleteRole(h)
    \/ Disable \/ Enable \/ CreateRole
    \/ OpenEditor \/ Toggle \/ CloseEditor

AccountsSpec == AccountsInit /\ [][AccountsNext]_accountsVars

-----------------------------------------------------------------------------
Switches == SUBSET Permission

Editor == [ role : Role, chosen : Switches, clicked : Switches, overtaken : BOOLEAN ]

Job ==
    [ what : {"create"}, user : User, role : Role, linked : BOOLEAN ]
    \cup [ what : {"link"}, user : User ]
    \cup [ what : {"role"}, user : User, role : Role ]
    \cup [ what : {"update"}, role : Role, chosen : Switches, clicked : Switches,
            overtaken : BOOLEAN ]
    \cup [ what : {"delete"}, role : Role ]

(* The tables, the requests and the dialog are what they are declared as,  *)
(* and a request changes the role of, or links, an account that is there.  *)
AccountsTypeOK ==
    /\ users \in [ User -> Account \cup {Vacant} ]
    /\ roles \in [ Role -> Switches \cup {Vacant, Gone} ]
    /\ handlers \in [ Handler -> Job \cup {Vacant} ]
    /\ \A h \in Handler : Doing(h, "role") \/ Doing(h, "link") => Exists(handlers[h].user)
    /\ editor \in Editor \cup {Vacant}
    /\ requests \in 0..MaxRequests

(* There is always an enabled administrator, however disabling, changing   *)
(* roles and deleting them interleave ("no order of operations that ends   *)
(* with nobody in charge", authz.Roles.Delete and guardLastAdmin).         *)
AdminRemains == \E u \in User : IsAdmin(u)

(* An account's role is there: one that is deleted after its accounts were *)
(* counted, while another is given it, is kept (the foreign key beside     *)
(* Roles.Delete and SetRole).                                              *)
RolesStayWhileUsed == \A u \in User : Exists(u) => Standing(users[u].role)

(* A save flips the switches that were clicked in its dialog and no other, *)
(* unless another save of the role came in between (RoleEditor and         *)
(* Roles.Update, which write all of them).                                 *)
SwitchesAreExplained ==
    [][ \A r \in Role : Standing(r) /\ roles'[r] # roles[r] /\ roles'[r] # Gone =>
            \E h \in Handler :
                /\ Doing(h, "update") /\ handlers'[h] = Vacant
                /\ \/ handlers[h].overtaken
                   \/ SymDiff(roles[r], roles'[r]) = handlers[h].clicked ]_accountsVars
=============================================================================
