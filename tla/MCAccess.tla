------------------------------ MODULE MCAccess ------------------------------
(***************************************************************************)
(* Instances of Access for TLC: two accounts, one custom role, one key.     *)
(***************************************************************************)
EXTENDS Access, TLC

CONSTANTS admin, bob, super, custom, access, other, k1

Blank == [op |-> "update_user", user |-> bob, super |-> {}, active |-> {}, role |-> NoRole,
          perms |-> AllNone, key |-> k1, scope |-> NoScope]
AccessOnly == [AllNone EXCEPT ![access] = 2]

\* PUT users, every combination of the two flags, with and without a role.
Updates ==
    {[Blank EXCEPT !.user = u, !.super = s, !.active = a] :
        u \in {admin, bob}, s \in Optional, a \in Optional}
    \cup {[Blank EXCEPT !.role = custom]}
Creations ==
    {[Blank EXCEPT !.op = "create_user", !.user = u, !.super = s, !.role = custom] :
        u \in {admin, bob}, s \in {{}, {TRUE}}}
Deletions == {[Blank EXCEPT !.op = "delete_user", !.user = u] : u \in {admin, bob}}
RoleRequests ==
    {[Blank EXCEPT !.op = o, !.role = custom, !.perms = AccessOnly] :
        o \in {"create_role", "update_role", "delete_role"}}
    \cup {[Blank EXCEPT !.op = "update_role", !.role = custom]}
    \cup {[Blank EXCEPT !.op = o, !.role = super] : o \in {"update_role", "delete_role"}}
KeyRequests ==
    {[Blank EXCEPT !.op = "create_api_key", !.user = u, !.scope = s] :
        u \in {admin, bob}, s \in {NoScope, other :> 1, access :> 2 @@ other :> 2}}
    \cup {[Blank EXCEPT !.op = "revoke_api_key"]}

MCRequests == Updates \cup Creations \cup Deletions \cup RoleRequests \cup KeyRequests
MCLockoutRequests ==
    {[Blank EXCEPT !.op = "create_user", !.super = {TRUE}, !.role = super]}
    \cup {[Blank EXCEPT !.user = u, !.active = {FALSE}] : u \in {admin, bob}}
=============================================================================
