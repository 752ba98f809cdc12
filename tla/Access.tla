------------------------------- MODULE Access -------------------------------
(***************************************************************************)
(* Users, roles and API keys: the tables behind Settings -> Access, and the *)
(* requests that change them.  A request authenticates, loads what it is    *)
(* about, counts or looks up, and commits; each of these is a query of its  *)
(* own under READ COMMITTED, so that requests interleave between them.      *)
(*                                                                         *)
(* A commit writes the columns whose values differ from the loaded ones.   *)
(***************************************************************************)
EXTENDS Naturals, FiniteSets

CONSTANTS
    User,         \* user names
    Admin,        \* the user named ADMIN_USER in .env
    RoleId,
    SuperRole,    \* the system role with the slug superadmin
    NoRole,
    Module,       \* MODULE_KEYS
    AccessModule, \* settings_access
    Key,          \* ids of API keys
    NoKey,
    Request,      \* the requests that are made
    Handler,      \* requests in flight
    Restarts      \* whether the panel may restart

Level == 0..2     \* LEVEL_RANK: none, read, full
Perms == [Module -> Level]
Scope == UNION {[d -> Level] : d \in SUBSET Module}   \* {} or absent: no scope
Optional == {{}, {TRUE}, {FALSE}}                     \* a field of a body, or none

AllFull == [m \in Module |-> 2]
AllNone == [m \in Module |-> 0]
NoScope == [m \in {} |-> 0]

\* A request names what it is about; the fields it has no use for hold anything.
RequestType ==
    [op : {"create_user", "update_user", "delete_user", "create_role", "update_role",
           "delete_role", "create_api_key", "revoke_api_key"},
     user : User, super : Optional, active : Optional, role : RoleId \cup {NoRole},
     perms : Perms, key : Key, scope : Scope]

ASSUME AccessAssumption ==
    /\ Admin \in User
    /\ SuperRole \in RoleId /\ NoRole \notin RoleId
    /\ AccessModule \in Module /\ NoKey \notin Key
    /\ Request \subseteq RequestType
    /\ Restarts \in BOOLEAN

VARIABLES
    users,    \* the table users: per name its row
    roles,    \* the table roles
    keys,     \* the table api_keys
    task      \* per handler its request, its principal and the query it is at

tables == <<users, roles, keys>>
vars == <<tables, task>>

Row == [exists : BOOLEAN, super : BOOLEAN, active : BOOLEAN, role : RoleId \cup {NoRole}]
RoleRow == [exists : BOOLEAN, perms : Perms]
KeyRow == [exists : BOOLEAN, owner : User, scope : Scope, revoked : BOOLEAN]
NoRow == [exists |-> FALSE, super |-> FALSE, active |-> FALSE, role |-> NoRole]

\* actor and super: the principal.  row and seen: the user and the permissions of the
\* role the request has loaded.
Query == {"idle", "load", "demote", "disable", "role", "count", "commit"}
Task == [at : Query, request : Request \cup {NoKey}, actor : User, super : BOOLEAN,
         row : Row, seen : Perms]
NoTask == [at |-> "idle", request |-> NoKey, actor |-> Admin, super |-> FALSE,
           row |-> NoRow, seen |-> AllNone]

TypeOK ==
    /\ users \in [User -> Row]
    /\ roles \in [RoleId -> RoleRow]
    /\ keys \in [Key -> KeyRow]
    /\ task \in [Handler -> Task]

Init ==
    /\ users = [u \in User |->
           IF u = Admin THEN [exists |-> TRUE, super |-> TRUE, active |-> TRUE,
                              role |-> SuperRole]
                        ELSE NoRow]
    /\ roles = [r \in RoleId |-> [exists |-> r = SuperRole, perms |-> AllFull]]
    /\ keys = [k \in Key |-> [exists |-> FALSE, owner |-> Admin, scope |-> NoScope,
                              revoked |-> FALSE]]
    /\ task = [h \in Handler |-> NoTask]

-----------------------------------------------------------------------------
(***************************************************************************)
(* Principals: principal_from_user and resolve_bearer.                     *)
(***************************************************************************)

\* Mutant: the scope of the key replaces the level of the role.
TakeScope(a, b) == b
MinLevel(a, b) == IF a <= b THEN a ELSE b

Inherited(u) ==
    IF users[u].super THEN AllFull
    ELSE IF users[u].role = NoRole THEN AllNone ELSE roles[users[u].role].perms

Narrowed(p, s) == [m \in Module |-> IF m \in DOMAIN s THEN MinLevel(p[m], s[m]) ELSE p[m]]

ScopeOf(k) == IF k = NoKey THEN NoScope ELSE keys[k].scope

\* A key with a scope does not carry the bypass of a Super Admin.
IsSuper(u, k) == users[u].super /\ DOMAIN ScopeOf(k) = {}

Can(u, k, m, need) == IsSuper(u, k) \/ Narrowed(Inherited(u), ScopeOf(k))[m] >= need

\* A token of the user u, or one of its keys, that is still good.
Accepted(u, k) ==
    /\ users[u].exists /\ users[u].active
    /\ k # NoKey => keys[k].exists /\ keys[k].owner = u /\ ~keys[k].revoked

-----------------------------------------------------------------------------
Goto(h, q) == task' = [task EXCEPT ![h].at = q]
Done(h) == task' = [task EXCEPT ![h] = NoTask]
Ask(h) == task[h].request
AtQuery(h, op, q) == task[h].at = q /\ Ask(h).op = op

ActiveSupers == {u \in User : users[u].exists /\ users[u].super /\ users[u].active}
\* Mutant: _count_superadmins counts disabled accounts as well.
OthersEvenDisabled(u) == {v \in User : users[v].exists /\ users[v].super} \ {u}
Others(u) == ActiveSupers \ {u}

\* The value of a column after a body that may name it.
New(old, field) == IF field = {} THEN old ELSE field = {TRUE}

\* require_module("settings_access", "full"), and what a handler checks before its
\* first query.
Authenticate(h, u, k, r) ==
    /\ task[h].at = "idle"
    /\ Accepted(u, k)
    /\ Can(u, k, AccessModule, 2)
    /\ CASE r.op = "create_user" -> r.super = {TRUE} => IsSuper(u, k)
         [] r.op = "create_role" -> r.role # SuperRole
         [] r.op = "create_api_key" -> k = NoKey /\ (r.user = u \/ IsSuper(u, k))
         [] OTHER -> TRUE
    /\ task' = [task EXCEPT ![h] =
           [NoTask EXCEPT !.at = IF r.op = "create_user" THEN "role" ELSE "load",
                          !.request = r, !.actor = u, !.super = IsSuper(u, k)]]
    /\ UNCHANGED tables

-----------------------------------------------------------------------------
(***************************************************************************)
(* PUT users: load, at most two counts, the role, commit.                  *)
(***************************************************************************)

Super(h) == New(task[h].row.super, Ask(h).super)

\* Where update_user goes after the checks it has made so far.
ToRole(r) == IF r.role # NoRole THEN "role" ELSE "commit"
ToDisable(r, super) == IF super /\ r.active = {FALSE} THEN "disable" ELSE ToRole(r)
ToDemote(r, super) ==
    IF super /\ r.super = {FALSE} THEN "demote" ELSE ToDisable(r, New(super, r.super))

LoadUser(h) ==
    /\ AtQuery(h, "update_user", "load")
    /\ LET r == Ask(h)
           row == users[r.user]
       IN  IF row.exists /\ (row.super => task[h].super) /\ (r.super = {TRUE} => task[h].super)
           THEN task' = [task EXCEPT ![h].row = row, ![h].at = ToDemote(r, row.super)]
           ELSE Done(h)
    /\ UNCHANGED tables

Demote(h) ==
    /\ AtQuery(h, "update_user", "demote")
    /\ IF Others(Ask(h).user) = {} THEN Done(h) ELSE Goto(h, ToDisable(Ask(h), FALSE))
    /\ UNCHANGED tables

Disable(h) ==
    /\ AtQuery(h, "update_user", "disable")
    /\ IF Others(Ask(h).user) = {} THEN Done(h) ELSE Goto(h, ToRole(Ask(h)))
    /\ UNCHANGED tables

\* The lookup of the role in PUT users and POST users; the latter then looks for
\* the user name.
LoadRole(h) ==
    /\ task[h].at = "role" /\ Ask(h).op \in {"update_user", "create_user"}
    /\ LET r == Ask(h)
       IN  IF /\ r.role # NoRole /\ roles[r.role].exists
              /\ r.role = SuperRole => task[h].super
           THEN Goto(h, IF r.op = "update_user" THEN "commit" ELSE "load")
           ELSE Done(h)
    /\ UNCHANGED tables

\* The UPDATE holds the columns that differ from the loaded row.  It fails if the
\* row or the role it refers to is gone.
CommitUpdate(h) ==
    /\ AtQuery(h, "update_user", "commit")
    /\ LET r == Ask(h)
           u == r.user
           was == task[h].row
           role == IF r.role = NoRole THEN was.role ELSE r.role
           Written(old, new, now) == IF new = old THEN now ELSE new
       IN  IF users[u].exists /\ (role # was.role => roles[role].exists)
           THEN users' = [users EXCEPT
                    ![u].super = Written(was.super, Super(h), @),
                    ![u].active = Written(was.active, New(was.active, r.active), @),
                    ![u].role = Written(was.role, role, @)]
           ELSE UNCHANGED users
    /\ Done(h)
    /\ UNCHANGED <<roles, keys>>

-----------------------------------------------------------------------------
(***************************************************************************)
(* POST and DELETE users.                                                  *)
(***************************************************************************)

\* A user name is unique, here and in the table.
NameFree(h) ==
    /\ AtQuery(h, "create_user", "load")
    /\ IF users[Ask(h).user].exists THEN Done(h) ELSE Goto(h, "commit")
    /\ UNCHANGED tables

CommitCreate(h) ==
    /\ AtQuery(h, "create_user", "commit")
    /\ LET r == Ask(h)
       IN  IF ~users[r.user].exists /\ roles[r.role].exists
           THEN users' = [users EXCEPT ![r.user] =
                    [exists |-> TRUE, super |-> r.super = {TRUE},
                     active |-> New(TRUE, r.active), role |-> r.role]]
           ELSE UNCHANGED users
    /\ Done(h)
    /\ UNCHANGED <<roles, keys>>

LoadVictim(h) ==
    /\ AtQuery(h, "delete_user", "load")
    /\ LET u == Ask(h).user
           row == users[u]
       IN  IF row.exists /\ u # task[h].actor /\ (row.super => task[h].super)
           THEN Goto(h, IF row.super THEN "count" ELSE "commit")
           ELSE Done(h)
    /\ UNCHANGED tables

CountOthers(h) ==
    /\ AtQuery(h, "delete_user", "count")
    /\ IF Others(Ask(h).user) = {} THEN Done(h) ELSE Goto(h, "commit")
    /\ UNCHANGED tables

\* The ORM clears the owner of the user's keys before it deletes the user, and the
\* column is NOT NULL: a user with keys, revoked ones too, is not deleted.
CommitDelete(h) ==
    /\ AtQuery(h, "delete_user", "commit")
    /\ LET u == Ask(h).user
       IN  IF \A k \in Key : ~(keys[k].exists /\ keys[k].owner = u)
           THEN users' = [users EXCEPT ![u] = NoRow]
           ELSE UNCHANGED users
    /\ Done(h)
    /\ UNCHANGED <<roles, keys>>

-----------------------------------------------------------------------------
(***************************************************************************)
(* Roles.                                                                  *)
(***************************************************************************)

\* The query for the role.  Only a Super Admin edits the role of that name, which
\* is a system role and is never deleted.
LoadRoleRow(h) ==
    /\ task[h].at = "load" /\ Ask(h).op \in {"create_role", "update_role", "delete_role"}
    /\ LET r == Ask(h)
           found == r.role # NoRole /\ roles[r.role].exists
       IN  \/ /\ r.op = "create_role" /\ ~found /\ r.role # NoRole
              /\ Goto(h, "commit")
           \/ /\ r.op = "update_role" /\ found /\ (r.role = SuperRole => task[h].super)
              /\ task' = [task EXCEPT ![h].seen = roles[r.role].perms, ![h].at = "commit"]
           \/ /\ r.op = "delete_role" /\ found /\ r.role # SuperRole
              /\ Goto(h, "count")
           \/ /\ \/ r.role = NoRole
                 \/ found = (r.op = "create_role")
                 \/ r.role = SuperRole /\ (r.op = "delete_role" \/ ~task[h].super)
              /\ Done(h)
    /\ UNCHANGED tables

\* Mutant: delete_role without the count of the role's users.
CountNothing(h) ==
    /\ AtQuery(h, "delete_role", "count")
    /\ Goto(h, "commit")
    /\ UNCHANGED tables

CountUsers(h) ==
    /\ AtQuery(h, "delete_role", "count")
    /\ IF \E u \in User : users[u].exists /\ users[u].role = Ask(h).role
       THEN Done(h) ELSE Goto(h, "commit")
    /\ UNCHANGED tables

CommitRole(h) ==
    /\ task[h].at = "commit" /\ Ask(h).op \in {"create_role", "update_role"}
    /\ LET r == Ask(h)
           p == IF r.role = SuperRole THEN AllFull ELSE r.perms
           written == \/ r.op = "create_role" /\ ~roles[r.role].exists
                      \/ r.op = "update_role" /\ roles[r.role].exists /\ p # task[h].seen
       IN  roles' = IF written
                    THEN [roles EXCEPT ![r.role] = [exists |-> TRUE, perms |-> p]]
                    ELSE roles
    /\ Done(h)
    /\ UNCHANGED <<users, keys>>

\* ON DELETE SET NULL, and the ORM does the same.
CommitDeleteRole(h) ==
    /\ AtQuery(h, "delete_role", "commit")
    /\ LET role == Ask(h).role
       IN  /\ roles' = [roles EXCEPT ![role].exists = FALSE]
           /\ users' = [u \in User |->
                  IF users[u].role = role THEN [users[u] EXCEPT !.role = NoRole] ELSE users[u]]
    /\ Done(h)
    /\ UNCHANGED keys

-----------------------------------------------------------------------------
(***************************************************************************)
(* API keys.                                                               *)
(***************************************************************************)

LoadOwner(h) ==
    /\ AtQuery(h, "create_api_key", "load")
    /\ IF users[Ask(h).user].exists /\ users[Ask(h).user].active THEN Goto(h, "commit") ELSE Done(h)
    /\ UNCHANGED tables

\* The id is new, the owner must exist.  Key bounds the keys that are ever made.
CommitKey(h) ==
    /\ AtQuery(h, "create_api_key", "commit")
    /\ LET r == Ask(h)
           fresh == {k \in Key : ~keys[k].exists}
       IN  IF users[r.user].exists /\ fresh # {}
           THEN \E k \in fresh :
                    keys' = [keys EXCEPT ![k] = [exists |-> TRUE, owner |-> r.user,
                                                 scope |-> r.scope, revoked |-> FALSE]]
           ELSE UNCHANGED keys
    /\ Done(h)
    /\ UNCHANGED <<users, roles>>

LoadKey(h) ==
    /\ AtQuery(h, "revoke_api_key", "load")
    /\ LET k == keys[Ask(h).key]
       IN  IF k.exists /\ (k.owner = task[h].actor \/ task[h].super)
           THEN Goto(h, "commit") ELSE Done(h)
    /\ UNCHANGED tables

CommitRevoke(h) ==
    /\ AtQuery(h, "revoke_api_key", "commit")
    /\ keys' = [keys EXCEPT ![Ask(h).key].revoked = TRUE]
    /\ Done(h)
    /\ UNCHANGED <<users, roles>>

-----------------------------------------------------------------------------
\* The panel restarts, with requests under way or not, and runs
\* ensure_admin_user: it creates the administrator of .env, and promotes them if no
\* other account is a Super Admin, disabled ones included.
Restart ==
    /\ Restarts
    /\ task' = [h \in Handler |-> NoTask]
    /\ LET row == users[Admin]
           alone == \A u \in User \ {Admin} : ~(users[u].exists /\ users[u].super)
       IN  users' = [users EXCEPT ![Admin] =
               IF ~row.exists
               THEN [exists |-> TRUE, super |-> TRUE, active |-> TRUE, role |-> SuperRole]
               ELSE IF ~row.super /\ alone
               THEN [row EXCEPT !.super = TRUE, !.role = SuperRole]
               ELSE [row EXCEPT !.role = IF @ = NoRole THEN SuperRole ELSE @]]
    /\ UNCHANGED <<roles, keys>>

UserStep(h) ==
    \/ LoadUser(h) \/ Demote(h) \/ Disable(h) \/ LoadRole(h) \/ CommitUpdate(h)
    \/ NameFree(h) \/ CommitCreate(h)
    \/ LoadVictim(h) \/ CountOthers(h) \/ CommitDelete(h)
OtherStep(h) ==
    \/ LoadRoleRow(h) \/ CountUsers(h) \/ CommitRole(h) \/ CommitDeleteRole(h)
    \/ LoadOwner(h) \/ CommitKey(h) \/ LoadKey(h) \/ CommitRevoke(h)

Next ==
    \/ \E h \in Handler :
        \/ \E u \in User, k \in Key \cup {NoKey}, r \in Request : Authenticate(h, u, k, r)
        \/ UserStep(h) \/ OtherStep(h)
    \/ Restart

Spec == Init /\ [][Next]_vars

-----------------------------------------------------------------------------
(***************************************************************************)
(* Properties.                                                             *)
(***************************************************************************)

\* "Super Admin - full access; cannot be locked out as the last superadmin":
\* through demotions, disabling, deletions and restarts somebody who may do
\* everything can log in.
SuperAdminRemains == ActiveSupers # {}

\* "Optional per-key scopes can only narrow access": whatever happens to the role
\* and the flags of its owner after the key was created, there is nothing the key
\* may do and a session of its owner may not.
KeysOnlyNarrow ==
    \A k \in Key : keys[k].exists =>
        \A m \in Module, need \in {1, 2} :
            Can(keys[k].owner, k, m, need) => Can(keys[k].owner, NoKey, m, need)

\* Deleting a role takes it away from nobody.
DeletedRoleIsUnused ==
    [][\A r \in RoleId : roles[r].exists /\ ~roles'[r].exists
        => \A u \in User : users[u].exists => users[u].role # r]_vars
=============================================================================
