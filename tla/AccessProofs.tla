--------------------------- MODULE AccessProofs -----------------------------
(***************************************************************************)
(* What holds of the access tables for every set of users, roles, keys and *)
(* requests. With any number of requests in flight every row is well       *)
(* typed, and a key never allows what its owner may not do. With one       *)
(* request at a time a Super Admin who can log in remains, and no role is  *)
(* deleted that somebody has.                                              *)
(***************************************************************************)
EXTENDS Access, TLAPS

\* A handler that is at a query has a request.
Working(t) == t.at # "idle" => t.request \in Request

IInv ==
    /\ TypeOK
    /\ \A h \in Handler : Working(task[h])

-----------------------------------------------------------------------------
LEMMA ConstantsTyped ==
    /\ AllFull \in Perms /\ AllNone \in Perms /\ NoScope \in Scope
    /\ NoRow \in Row
    /\ NoTask \in Task /\ Working(NoTask)
<1>1. AllFull \in Perms /\ AllNone \in Perms
  BY DEF AllFull, AllNone, Perms, Level
<1>2. NoScope \in Scope
  BY DEF NoScope, Scope, Level
<1>3. NoRow \in Row
  BY DEF NoRow, Row
<1>4. NoTask \in Task /\ Working(NoTask)
  BY <1>1, <1>3, AccessAssumption DEF NoTask, Task, Query, Working
<1> QED BY <1>1, <1>2, <1>3, <1>4

\* The fields of a request, in the shape the steps use them.
LEMMA RequestFields ==
  ASSUME NEW r \in Request
  PROVE  /\ r.user \in User /\ r.super \in Optional /\ r.active \in Optional
         /\ r.role \in RoleId \cup {NoRole} /\ r.perms \in Perms
         /\ r.key \in Key /\ r.scope \in Scope
<1>1. r \in RequestType
  BY AccessAssumption
<1> QED BY <1>1 DEF RequestType

\* A field of a body that is absent leaves a Boolean as it is.
LEMMA NewBoolean ==
  ASSUME NEW old \in BOOLEAN, NEW field
  PROVE  New(old, field) \in BOOLEAN
<1>1. (field = {TRUE}) \in BOOLEAN
  BY Zenon
<1>2. CASE field = {}
  BY <1>2 DEF New
<1>3. CASE field # {}
  BY <1>1, <1>3, Zenon DEF New
<1> QED BY <1>2, <1>3

LEMMA TaskSet ==
  ASSUME IInv, NEW h \in Handler, NEW t \in Task, Working(t),
         task' = [task EXCEPT ![h] = t]
  PROVE  task' \in [Handler -> Task] /\ \A k \in Handler : Working(task'[k])
  BY DEF IInv, TypeOK

LEMMA DoneGood ==
  ASSUME IInv, NEW h \in Handler, Done(h)
  PROVE  task' \in [Handler -> Task] /\ \A k \in Handler : Working(task'[k])
  BY ConstantsTyped, TaskSet DEF Done

LEMMA GotoGood ==
  ASSUME IInv, NEW h \in Handler, task[h].at # "idle", NEW q \in Query, Goto(h, q)
  PROVE  task' \in [Handler -> Task] /\ \A k \in Handler : Working(task'[k])
<1> DEFINE t == [task[h] EXCEPT !.at = q]
<1>1. task[h] \in Task /\ task[h].request \in Request
  BY DEF IInv, TypeOK, Working
<1>2. t \in Task /\ Working(t)
  BY <1>1 DEF Task, Working
<1>3. task' = [task EXCEPT ![h] = t]
  BY DEF Goto
<1> QED BY <1>2, <1>3, TaskSet

\* The query a user update goes to next.
LEMMA NextQuery ==
  ASSUME NEW r, NEW b
  PROVE  ToRole(r) \in Query /\ ToDisable(r, b) \in Query /\ ToDemote(r, b) \in Query
  BY DEF ToRole, ToDisable, ToDemote, Query

-----------------------------------------------------------------------------
LEMMA AuthenticateStep ==
  ASSUME IInv, NEW h \in Handler, NEW u \in User, NEW k \in Key \cup {NoKey},
         NEW r \in Request, Authenticate(h, u, k, r)
  PROVE  IInv'
<1> DEFINE t == [NoTask EXCEPT !.at = IF r.op = "create_user" THEN "role" ELSE "load",
                               !.request = r, !.actor = u, !.super = IsSuper(u, k)]
<1>1. IsSuper(u, k) \in BOOLEAN /\ users[u] \in Row
  BY DEF IsSuper, IInv, TypeOK, Row
<1>2. t \in Task /\ Working(t)
  BY <1>1, ConstantsTyped DEF NoTask, Task, Query, Working
<1>3. task' = [task EXCEPT ![h] = t]
  BY DEF Authenticate
<1>4. task' \in [Handler -> Task] /\ \A i \in Handler : Working(task'[i])
  BY <1>2, <1>3, TaskSet
<1> QED BY <1>4 DEF Authenticate, IInv, TypeOK, tables

\* The steps that only read: they leave the tables alone and end or go on.
LEMMA ReadStep ==
  ASSUME IInv, NEW h \in Handler,
         \/ Demote(h) \/ Disable(h) \/ LoadRole(h) \/ NameFree(h) \/ LoadVictim(h)
         \/ CountOthers(h) \/ CountUsers(h) \/ LoadOwner(h) \/ LoadKey(h)
  PROVE  IInv'
<1>1. task[h].at # "idle" /\ UNCHANGED tables
  BY DEF Demote, Disable, LoadRole, NameFree, LoadVictim, CountOthers, CountUsers,
         LoadOwner, LoadKey, AtQuery
<1>2. Done(h) \/ \E q \in Query : Goto(h, q)
  BY NextQuery DEF Demote, Disable, LoadRole, NameFree, LoadVictim, CountOthers,
         CountUsers, LoadOwner, LoadKey, Query
<1>3. task' \in [Handler -> Task] /\ \A k \in Handler : Working(task'[k])
  BY <1>1, <1>2, DoneGood, GotoGood
<1> QED BY <1>1, <1>3 DEF IInv, TypeOK, tables

LEMMA LoadUserStep ==
  ASSUME IInv, NEW h \in Handler, LoadUser(h)
  PROVE  IInv'
<1> DEFINE row == users[Ask(h).user]
           t == [task[h] EXCEPT !.row = row, !.at = ToDemote(Ask(h), row.super)]
<1>1. task[h] \in Task /\ task[h].request \in Request
  BY DEF LoadUser, AtQuery, IInv, TypeOK, Working
<1>2. row \in Row
  BY <1>1, RequestFields DEF Ask, IInv, TypeOK
<1>3. t \in Task /\ Working(t)
  BY <1>1, <1>2, NextQuery DEF Task, Working
<1>4. task' = [task EXCEPT ![h] = t] \/ Done(h)
  BY DEF LoadUser
<1>5. task' \in [Handler -> Task] /\ \A k \in Handler : Working(task'[k])
  BY <1>3, <1>4, TaskSet, DoneGood
<1> QED BY <1>5 DEF LoadUser, IInv, TypeOK, tables

LEMMA LoadRoleRowStep ==
  ASSUME IInv, NEW h \in Handler, LoadRoleRow(h)
  PROVE  IInv'
<1> DEFINE p == roles[Ask(h).role].perms
           t == [task[h] EXCEPT !.seen = p, !.at = "commit"]
           update == Ask(h).role # NoRole /\ task' = [task EXCEPT ![h] = t]
<1>1. task[h] \in Task /\ task[h].request \in Request /\ task[h].at # "idle"
  BY DEF LoadRoleRow, IInv, TypeOK, Working
<1>2. ASSUME Ask(h).role # NoRole PROVE t \in Task /\ Working(t)
  <2>1. Ask(h).role \in RoleId
    BY <1>1, <1>2, RequestFields DEF Ask
  <2>2. roles[Ask(h).role] \in RoleRow
    BY <2>1 DEF IInv, TypeOK
  <2>3. p \in Perms
    BY <2>2 DEF RoleRow
  <2> QED BY <1>1, <2>3 DEF Task, Working, Query
<1>3. Done(h) \/ (\E q \in Query : Goto(h, q)) \/ update
  BY DEF LoadRoleRow, Query
<1>4. task' \in [Handler -> Task] /\ \A k \in Handler : Working(task'[k])
  BY <1>1, <1>2, <1>3, TaskSet, DoneGood, GotoGood
<1> QED BY <1>4 DEF LoadRoleRow, IInv, TypeOK, tables

LEMMA CommitUserStep ==
  ASSUME IInv, NEW h \in Handler, CommitUpdate(h) \/ CommitCreate(h) \/ CommitDelete(h)
  PROVE  IInv'
<1> DEFINE r == Ask(h)
           was == task[h].row
           role == IF r.role = NoRole THEN was.role ELSE r.role
           Written(old, new, now) == IF new = old THEN now ELSE new
<1>1. r \in Request /\ task[h] \in Task
  BY DEF CommitUpdate, CommitCreate, CommitDelete, AtQuery, Ask, IInv, TypeOK, Working
<1>2. r.user \in User /\ r.role \in RoleId \cup {NoRole}
  BY <1>1, RequestFields
<1>3. /\ was.super \in BOOLEAN /\ was.active \in BOOLEAN
      /\ was.role \in RoleId \cup {NoRole}
  <2>1. was \in Row
    BY <1>1 DEF Task
  <2> QED BY <2>1 DEF Row
<1>4. Super(h) \in BOOLEAN /\ New(was.active, r.active) \in BOOLEAN /\ New(TRUE, r.active) \in BOOLEAN
  BY <1>3, NewBoolean DEF Super
<1>5. users' \in [User -> Row]
  <2>1. CASE CommitUpdate(h)
    <3> DEFINE old == users[r.user]
               row == [old EXCEPT
                    !.super = Written(was.super, Super(h), @),
                    !.active = Written(was.active, New(was.active, r.active), @),
                    !.role = Written(was.role, role, @)]
    <3>1. old \in Row
      BY <1>2 DEF IInv, TypeOK
    <3>2. row \in Row
      BY <1>2, <1>3, <1>4, <3>1 DEF Row
    <3>3. users' = users \/ users' = [users EXCEPT ![r.user] = row]
      BY <2>1, <1>2 DEF CommitUpdate, IInv, TypeOK
    <3> QED BY <1>2, <3>2, <3>3 DEF IInv, TypeOK
  <2>2. CASE CommitCreate(h)
    <3> DEFINE row == [exists |-> TRUE, super |-> r.super = {TRUE},
                       active |-> New(TRUE, r.active), role |-> r.role]
    <3>1. (r.super = {TRUE}) \in BOOLEAN
      BY Zenon
    <3>2. row \in Row
      BY <1>2, <1>4, <3>1 DEF Row
    <3>3. users' = users \/ users' = [users EXCEPT ![r.user] = row]
      BY <2>2 DEF CommitCreate
    <3> QED BY <1>2, <3>2, <3>3 DEF IInv, TypeOK
  <2>3. CASE CommitDelete(h)
    BY <2>3, ConstantsTyped DEF CommitDelete, IInv, TypeOK
  <2> QED BY <2>1, <2>2, <2>3
<1>6. task' \in [Handler -> Task] /\ \A k \in Handler : Working(task'[k])
  BY DoneGood DEF CommitUpdate, CommitCreate, CommitDelete
<1> QED BY <1>5, <1>6 DEF CommitUpdate, CommitCreate, CommitDelete, IInv, TypeOK

LEMMA CommitRoleStep ==
  ASSUME IInv, NEW h \in Handler, CommitRole(h) \/ CommitDeleteRole(h)
  PROVE  IInv'
<1>1. Ask(h) \in Request
  BY DEF CommitRole, CommitDeleteRole, AtQuery, Ask, IInv, TypeOK, Working
<1>2. task' \in [Handler -> Task] /\ \A k \in Handler : Working(task'[k])
  BY DoneGood DEF CommitRole, CommitDeleteRole
<1>3. CASE CommitRole(h)
  <2>1. roles' \in [RoleId -> RoleRow]
    BY <1>1, <1>3, RequestFields, ConstantsTyped DEF CommitRole, IInv, TypeOK, RoleRow
  <2> QED BY <1>2, <1>3, <2>1 DEF CommitRole, IInv, TypeOK
<1>4. CASE CommitDeleteRole(h)
  <2>1. roles' \in [RoleId -> RoleRow]
    BY <1>4 DEF CommitDeleteRole, IInv, TypeOK, RoleRow
  <2>2. users' \in [User -> Row]
    BY <1>4 DEF CommitDeleteRole, IInv, TypeOK, Row
  <2> QED BY <1>2, <1>4, <2>1, <2>2 DEF CommitDeleteRole, IInv, TypeOK
<1> QED BY <1>3, <1>4

LEMMA CommitKeyStep ==
  ASSUME IInv, NEW h \in Handler, CommitKey(h) \/ CommitRevoke(h)
  PROVE  IInv'
<1>1. Ask(h) \in Request
  BY DEF CommitKey, CommitRevoke, AtQuery, Ask, IInv, TypeOK, Working
<1> DEFINE key == [exists |-> TRUE, owner |-> Ask(h).user, scope |-> Ask(h).scope,
                   revoked |-> FALSE]
<1>2. keys' \in [Key -> KeyRow]
  <2>1. key \in KeyRow
    BY <1>1, RequestFields DEF KeyRow
  <2>2. CASE CommitKey(h)
    <3>1. keys' = keys \/ \E k \in Key : keys' = [keys EXCEPT ![k] = key]
      BY <2>2 DEF CommitKey
    <3> QED BY <2>1, <3>1 DEF IInv, TypeOK
  <2>3. CASE CommitRevoke(h)
    BY <2>3 DEF CommitRevoke, IInv, TypeOK, KeyRow
  <2> QED BY <2>2, <2>3
<1>3. task' \in [Handler -> Task] /\ \A k \in Handler : Working(task'[k])
  BY DoneGood DEF CommitKey, CommitRevoke
<1> QED BY <1>2, <1>3 DEF CommitKey, CommitRevoke, IInv, TypeOK

LEMMA RestartStep ==
  ASSUME IInv, Restart
  PROVE  IInv'
<1> DEFINE row == users[Admin]
           fresh == [exists |-> TRUE, super |-> TRUE, active |-> TRUE, role |-> SuperRole]
           promoted == [row EXCEPT !.super = TRUE, !.role = SuperRole]
           kept == [row EXCEPT !.role = IF @ = NoRole THEN SuperRole ELSE @]
<1>1. users' \in [User -> Row]
  <2>1. Admin \in User /\ row \in Row
    BY AccessAssumption DEF IInv, TypeOK
  <2>2. fresh \in Row /\ promoted \in Row
    BY <2>1, AccessAssumption DEF Row
  <2>3. kept \in Row
    BY <2>1, AccessAssumption DEF Row
  <2>4. \E new \in {fresh, promoted, kept} : users' = [users EXCEPT ![Admin] = new]
    BY DEF Restart
  <2> QED BY <2>1, <2>2, <2>3, <2>4 DEF IInv, TypeOK
<1>2. task' \in [Handler -> Task] /\ \A k \in Handler : Working(task'[k])
  BY ConstantsTyped DEF Restart
<1> QED BY <1>1, <1>2 DEF Restart, IInv, TypeOK

LEMMA InitInductive == Init => IInv
<1> SUFFICES ASSUME Init PROVE IInv
  OBVIOUS
<1>1. users \in [User -> Row]
  BY ConstantsTyped, AccessAssumption DEF Init, Row
<1>2. roles \in [RoleId -> RoleRow]
  BY ConstantsTyped DEF Init, RoleRow
<1>3. keys \in [Key -> KeyRow]
  BY ConstantsTyped, AccessAssumption DEF Init, KeyRow
<1> QED BY <1>1, <1>2, <1>3, ConstantsTyped DEF Init, IInv, TypeOK

LEMMA NextInductive == IInv /\ [Next]_vars => IInv'
<1> SUFFICES ASSUME IInv, [Next]_vars PROVE IInv'
  OBVIOUS
<1>1. ASSUME NEW h \in Handler, UserStep(h) PROVE IInv'
  BY <1>1, LoadUserStep, ReadStep, CommitUserStep DEF UserStep
<1>2. ASSUME NEW h \in Handler, OtherStep(h) PROVE IInv'
  BY <1>2, LoadRoleRowStep, ReadStep, CommitRoleStep, CommitKeyStep DEF OtherStep
<1>3. CASE UNCHANGED vars
  BY <1>3 DEF vars, tables, IInv, TypeOK
<1> QED BY <1>1, <1>2, <1>3, AuthenticateStep, RestartStep DEF Next

\* Every reachable state of the access tables is well typed, whatever requests
\* interleave and wherever the panel restarts.
THEOREM AccessTypeCorrect == Spec => []TypeOK
<1>1. IInv => TypeOK
  BY DEF IInv
<1> QED BY <1>1, InitInductive, NextInductive, PTL DEF Spec

-----------------------------------------------------------------------------
\* The permissions an account inherits are levels.
LEMMA InheritedPerms ==
  ASSUME TypeOK, NEW u \in User
  PROVE  Inherited(u) \in Perms
  BY ConstantsTyped DEF Inherited, TypeOK, Row, RoleRow

\* A scope never raises a level.
LEMMA NarrowedBelow ==
  ASSUME NEW p \in Perms, NEW s \in Scope, NEW m \in Module
  PROVE  Narrowed(p, s)[m] \in Level /\ Narrowed(p, s)[m] <= p[m]
<1>1. p[m] \in 0..2
  BY DEF Perms, Level
<1>2. ASSUME m \in DOMAIN s PROVE s[m] \in 0..2
  BY <1>2 DEF Scope, Level
<1> QED BY <1>1, <1>2 DEF Narrowed, MinLevel, Level

LEMMA TypedKeysNarrow == TypeOK => KeysOnlyNarrow
<1> SUFFICES ASSUME TypeOK, NEW k \in Key, keys[k].exists, NEW m \in Module,
                    NEW need \in {1, 2}, Can(keys[k].owner, k, m, need)
             PROVE  Can(keys[k].owner, NoKey, m, need)
  BY DEF KeysOnlyNarrow
<1> DEFINE u == keys[k].owner
<1>1. u \in User /\ ScopeOf(k) \in Scope
  BY AccessAssumption DEF TypeOK, KeyRow, ScopeOf
<1>2. ScopeOf(NoKey) = NoScope /\ DOMAIN NoScope = {}
  BY DEF ScopeOf, NoScope
<1>3. CASE IsSuper(u, k)
  BY <1>2, <1>3 DEF IsSuper, Can
<1>4. CASE ~IsSuper(u, k)
  <2> DEFINE p == Inherited(u)
  <2>1. p \in Perms
    BY <1>1, InheritedPerms
  <2>2. Narrowed(p, ScopeOf(k))[m] >= need /\ Narrowed(p, ScopeOf(k))[m] <= p[m]
    BY <1>1, <1>4, <2>1, NarrowedBelow DEF Can
  <2>3. Narrowed(p, NoScope)[m] = p[m]
    BY <1>2 DEF Narrowed
  <2>4. p[m] \in 0..2 /\ Narrowed(p, ScopeOf(k))[m] \in 0..2
    BY <1>1, <2>1, NarrowedBelow DEF Perms, Level
  <2>5. p[m] >= need
    BY <2>2, <2>4
  <2> QED BY <1>2, <2>3, <2>5 DEF Can
<1> QED BY <1>3, <1>4

\* Whatever is done to its owner's role and flags after a key was made, and by any
\* number of concurrent requests: the key allows nothing its owner may not do.
THEOREM AccessKeysOnlyNarrow == Spec => []KeysOnlyNarrow
  BY AccessTypeCorrect, TypedKeysNarrow, PTL

-----------------------------------------------------------------------------
(***************************************************************************)
(* One request at a time.  The counts of the handlers are then still true    *)
(* when they commit; with two requests in flight they need not be, and the  *)
(* run AccessLockout loses the last Super Admin.                           *)
(***************************************************************************)
OneAtATime == \A g, h \in Handler : g = h

ActiveSuper(row) == row.exists /\ row.super /\ row.active

\* The account an update leaves behind is a Super Admin if it was one, or it is
\* not the only one.
SparesSupers(h) ==
    LET r == Ask(h)
        row == task[h].row
    IN  ActiveSuper(row) =>
            \/ Others(r.user) # {}
            \/ New(row.super, r.super) /\ New(row.active, r.active)

\* What the request of a handler has looked at is as it was.
Steady(h) ==
    LET r == Ask(h)
    IN  /\ r.op = "update_user" /\ task[h].at \in {"demote", "disable", "role", "commit"}
              => task[h].row = users[r.user]
        /\ r.op = "update_user" /\ task[h].at \in {"role", "commit"} => SparesSupers(h)
        /\ AtQuery(h, "delete_user", "commit") /\ users[r.user].super => Others(r.user) # {}
        /\ AtQuery(h, "delete_role", "commit")
              => \A u \in User : users[u].exists => users[u].role # r.role

SerialInv == SuperAdminRemains /\ \A h \in Handler : Steady(h)

LEMMA InitSerial == Init => SerialInv
<1> SUFFICES ASSUME Init PROVE SerialInv
  OBVIOUS
<1>1. Admin \in ActiveSupers
  BY AccessAssumption DEF Init, ActiveSupers
<1>2. \A h \in Handler : task[h].at = "idle"
  BY DEF Init, NoTask
<1> QED BY <1>1, <1>2 DEF SerialInv, SuperAdminRemains, Steady, AtQuery

\* A step that ends the request, or leaves it at a query where it relies on nothing.
LEMMA Unburdened ==
    ASSUME OneAtATime, NEW h \in Handler,
           \/ task'[h].at \in {"idle", "load", "count"}
           \/ task'[h].at = "role" /\ task'[h].request.op = "create_user"
           \/ task'[h].at = "commit"
              /\ task'[h].request.op \notin {"update_user", "delete_user", "delete_role"},
           SuperAdminRemains'
    PROVE  SerialInv'
<1>1. Steady(h)'
  BY DEF Steady, AtQuery, Ask
<1>2. \A g \in Handler : g = h
  BY DEF OneAtATime
<1> QED BY <1>1, <1>2 DEF SerialInv

LEMMA TaskDone ==
    ASSUME IInv, NEW h \in Handler, Done(h)
    PROVE  task'[h].at = "idle"
BY DEF Done, IInv, TypeOK, NoTask

LEMMA TaskGoto ==
    ASSUME IInv, NEW h \in Handler, NEW q, Goto(h, q)
    PROVE  /\ task'[h].at = q /\ task'[h].request = task[h].request
           /\ task'[h].row = task[h].row
BY DEF Goto, IInv, TypeOK, Task

LEMMA SameSupers ==
    ASSUME SuperAdminRemains, UNCHANGED users
    PROVE  SuperAdminRemains'
BY DEF SuperAdminRemains, ActiveSupers

\* The queries of an update before its commit.
LEMMA UpdateSerial ==
    ASSUME OneAtATime, IInv, SerialInv, NEW h \in Handler,
           LoadUser(h) \/ Demote(h) \/ Disable(h)
    PROVE  SerialInv'
<1> DEFINE r == Ask(h)
           u == r.user
<1>0. UNCHANGED users /\ SuperAdminRemains' /\ \A g \in Handler : g = h
  BY SameSupers DEF LoadUser, Demote, Disable, tables, SerialInv, OneAtATime
<1>1. r \in Request /\ r.op = "update_user" /\ u \in User /\ users[u] \in Row
  BY RequestFields DEF LoadUser, Demote, Disable, AtQuery, Ask, IInv, TypeOK, Working
<1>2. r.super \in Optional /\ r.active \in Optional /\ users[u].super \in BOOLEAN
      /\ users[u].active \in BOOLEAN
  BY <1>1, RequestFields DEF Row
<1>3. CASE Done(h)
  BY <1>0, <1>3, TaskDone, Unburdened
<1>4. ASSUME ~Done(h)
      PROVE  /\ task'[h].request = r /\ task'[h].row = users[u]
             /\ task'[h].at \in {"demote", "disable", "role", "commit"}
             /\ task'[h].at \in {"role", "commit"} /\ ActiveSuper(users[u]) =>
                    \/ Others(u) # {}
                    \/ New(users[u].super, r.super) /\ New(users[u].active, r.active)
  <2>1. CASE LoadUser(h)
    <3> DEFINE row == users[u]
    <3>1. task' = [task EXCEPT ![h].row = row, ![h].at = ToDemote(r, row.super)]
      BY <1>4, <2>1 DEF LoadUser
    <3>2. /\ task'[h].request = r /\ task'[h].row = row
          /\ task'[h].at = ToDemote(r, row.super)
      BY <3>1 DEF IInv, TypeOK, Task, Ask
    <3>3. CASE row.super /\ r.super = {FALSE}
      BY <3>2, <3>3 DEF ToDemote
    <3>4. CASE row.super /\ r.super # {FALSE} /\ r.active = {FALSE}
      <4>1. New(row.super, r.super) = TRUE
        BY <1>2, <3>4 DEF New, Optional
      <4> QED BY <3>2, <3>4, <4>1 DEF ToDemote, ToDisable
    <3>5. CASE row.super /\ r.super # {FALSE} /\ r.active # {FALSE}
      <4>1. New(row.super, r.super) = TRUE /\ New(row.active, r.active) \in {TRUE, row.active}
        BY <1>2, <3>5 DEF New, Optional
      <4>2. task'[h].at \in {"role", "commit"}
        BY <3>2, <3>5 DEF ToDemote, ToDisable, ToRole
      <4> QED BY <3>2, <4>1, <4>2 DEF ActiveSuper
    <3>6. CASE ~row.super
      BY <3>2, <3>6 DEF ToDemote, ToDisable, ToRole, ActiveSuper
    <3> QED BY <3>3, <3>4, <3>5, <3>6
  <2>2. CASE Demote(h)
    <3>1. Others(u) # {} /\ Goto(h, ToDisable(r, FALSE))
      BY <1>4, <2>2 DEF Demote
    <3>2. ToDisable(r, FALSE) \in {"role", "commit"}
      BY DEF ToDisable, ToRole
    <3>3. task[h].row = users[u]
      BY <2>2 DEF Demote, AtQuery, SerialInv, Steady
    <3> QED BY <3>1, <3>2, <3>3, TaskGoto DEF Ask
  <2>3. CASE Disable(h)
    <3>1. Others(u) # {} /\ Goto(h, ToRole(r))
      BY <1>4, <2>3 DEF Disable
    <3>2. ToRole(r) \in {"role", "commit"}
      BY DEF ToRole
    <3>3. task[h].row = users[u]
      BY <2>3 DEF Disable, AtQuery, SerialInv, Steady
    <3> QED BY <3>1, <3>2, <3>3, TaskGoto DEF Ask
  <2> QED BY <2>1, <2>2, <2>3
<1>5. ASSUME ~Done(h) PROVE Steady(h)'
  <2>1. \A v \in User : Others(v)' = Others(v)
    BY <1>0 DEF Others, ActiveSupers
  <2>2. SparesSupers(h)' \/ task'[h].at \notin {"role", "commit"}
    BY <1>0, <1>4, <1>5, <2>1 DEF SparesSupers, Ask, Others, ActiveSupers
  <2> QED BY <1>0, <1>1, <1>4, <1>5, <2>2 DEF Steady, AtQuery, Ask
<1> QED BY <1>0, <1>3, <1>5 DEF SerialInv

\* The lookup of a role and of a user name.
LEMMA LookupSerial ==
    ASSUME OneAtATime, IInv, SerialInv, NEW h \in Handler, LoadRole(h) \/ NameFree(h)
    PROVE  SerialInv'
<1>0. UNCHANGED users /\ SuperAdminRemains' /\ \A g \in Handler : g = h
  BY SameSupers DEF LoadRole, NameFree, tables, SerialInv, OneAtATime
<1>1. CASE Done(h)
  BY <1>0, <1>1, TaskDone, Unburdened
<1>2. CASE ~Done(h) /\ Ask(h).op = "create_user"
  <2>1. Goto(h, "load") \/ Goto(h, "commit")
    BY <1>2 DEF LoadRole, NameFree
  <2>2. task'[h].at \in {"load", "commit"} /\ task'[h].request.op = "create_user"
    BY <1>2, <2>1, TaskGoto DEF Ask
  <2> QED BY <1>0, <2>2, Unburdened
<1>3. CASE ~Done(h) /\ Ask(h).op = "update_user"
  <2>1. Goto(h, "commit") /\ task[h].at = "role"
    BY <1>3 DEF LoadRole, NameFree, AtQuery
  <2>2. task'[h].at = "commit" /\ task'[h].request = task[h].request
        /\ task'[h].row = task[h].row
    BY <2>1, TaskGoto
  <2>3. task[h].row = users[Ask(h).user] /\ SparesSupers(h)
    BY <1>3, <2>1 DEF SerialInv, Steady
  <2>4. SparesSupers(h)'
    BY <1>0, <2>2, <2>3 DEF SparesSupers, Ask, Others, ActiveSupers
  <2>5. Steady(h)'
    BY <1>0, <1>3, <2>2, <2>3, <2>4 DEF Steady, AtQuery, Ask
  <2> QED BY <1>0, <2>5 DEF SerialInv
<1> QED BY <1>1, <1>2, <1>3 DEF LoadRole, NameFree, AtQuery

\* The commits that change users.
LEMMA CommitUpdateSerial ==
    ASSUME OneAtATime, IInv, SerialInv, NEW h \in Handler, CommitUpdate(h)
    PROVE  SerialInv'
<1> DEFINE r == Ask(h)
           u == r.user
           row == users[u]
<1>1. r \in Request /\ u \in User /\ row \in Row /\ Done(h)
  BY RequestFields DEF CommitUpdate, AtQuery, Ask, IInv, TypeOK, Working
<1>2. task[h].row = row /\ SparesSupers(h)
  BY DEF CommitUpdate, AtQuery, SerialInv, Steady
<1>3. CASE UNCHANGED users
  BY <1>1, <1>3, SameSupers, TaskDone, Unburdened DEF SerialInv
<1>4. CASE ~UNCHANGED users
  <2>1. /\ row.exists
        /\ \A v \in User \ {u} : users'[v] = users[v]
        /\ users'[u].exists = row.exists
        /\ users'[u].super = Super(h)
        /\ users'[u].active = New(row.active, r.active)
    BY <1>1, <1>2, <1>4 DEF CommitUpdate, IInv, TypeOK, Row
  <2>2. Others(u) \subseteq ActiveSupers'
    BY <2>1 DEF Others, ActiveSupers
  <2>3. Others(u) # {} => SuperAdminRemains'
    BY <2>2 DEF SuperAdminRemains
  <2>4. ASSUME Others(u) = {} PROVE SuperAdminRemains'
    <3>1. u \in ActiveSupers
      BY <2>4 DEF Others, SerialInv, SuperAdminRemains
    <3>2. Super(h) /\ New(row.active, r.active)
      BY <1>2, <2>4, <3>1 DEF SparesSupers, ActiveSuper, ActiveSupers, Super
    <3> QED BY <1>1, <2>1, <3>2 DEF SuperAdminRemains, ActiveSupers
  <2> QED BY <1>1, <2>3, <2>4, TaskDone, Unburdened
<1> QED BY <1>3, <1>4

LEMMA CommitCreateSerial ==
    ASSUME OneAtATime, IInv, SerialInv, NEW h \in Handler, CommitCreate(h)
    PROVE  SerialInv'
<1>1. Done(h) /\ \A v \in ActiveSupers : users'[v] = users[v]
  BY DEF CommitCreate, ActiveSupers, IInv, TypeOK
<1>2. SuperAdminRemains'
  BY <1>1 DEF SuperAdminRemains, SerialInv, ActiveSupers
<1> QED BY <1>1, <1>2, TaskDone, Unburdened

LEMMA CommitDeleteSerial ==
    ASSUME OneAtATime, IInv, SerialInv, NEW h \in Handler, CommitDelete(h)
    PROVE  SerialInv'
<1> DEFINE u == Ask(h).user
<1>1. Done(h) /\ \A v \in User \ {u} : users'[v] = users[v]
  BY DEF CommitDelete, IInv, TypeOK
<1>2. \E v \in ActiveSupers : v # u
  <2>1. CASE users[u].super
    BY <2>1 DEF CommitDelete, SerialInv, Steady, Others
  <2>2. CASE ~users[u].super
    BY <2>2 DEF SerialInv, SuperAdminRemains, ActiveSupers
  <2> QED BY <2>1, <2>2
<1>3. SuperAdminRemains'
  BY <1>1, <1>2 DEF SuperAdminRemains, ActiveSupers
<1> QED BY <1>1, <1>3, TaskDone, Unburdened

\* The checks of a deletion.
LEMMA DeleteSerial ==
    ASSUME OneAtATime, IInv, SerialInv, NEW h \in Handler,
           LoadVictim(h) \/ CountOthers(h) \/ CountUsers(h)
    PROVE  SerialInv'
<1> DEFINE r == Ask(h)
<1>0. UNCHANGED users /\ SuperAdminRemains' /\ \A g \in Handler : g = h
  BY SameSupers DEF LoadVictim, CountOthers, CountUsers, tables, SerialInv, OneAtATime
<1>1. CASE Done(h) \/ Goto(h, "count")
  <2>1. task'[h].at \in {"idle", "count"}
    BY <1>1, TaskDone, TaskGoto
  <2> QED BY <1>0, <2>1, Unburdened
<1>2. CASE Goto(h, "commit") /\ ~Done(h)
  <2>1. task'[h].at = "commit" /\ task'[h].request = r
    BY <1>2, TaskGoto DEF Ask
  <2>2. /\ r.op \in {"delete_user", "delete_role"}
        /\ r.op = "delete_user" /\ users[r.user].super => Others(r.user) # {}
        /\ r.op = "delete_role" => \A u \in User : users[u].exists => users[u].role # r.role
    <3>1. CASE LoadVictim(h)
      <4>1. ~users[r.user].super
        <5>1. SUFFICES ASSUME users[r.user].super PROVE FALSE
          OBVIOUS
        <5>2. Goto(h, "count")
          BY <1>2, <3>1, <5>1 DEF LoadVictim
        <5> QED BY <2>1, <5>2, TaskGoto
      <4> QED BY <3>1, <4>1 DEF LoadVictim, AtQuery
    <3>2. CASE CountOthers(h)
      BY <1>2, <3>2 DEF CountOthers, AtQuery
    <3>3. CASE CountUsers(h)
      BY <1>2, <3>3 DEF CountUsers, AtQuery
    <3> QED BY <3>1, <3>2, <3>3
  <2>3. \A v \in User : Others(v)' = Others(v)
    BY <1>0 DEF Others, ActiveSupers
  <2>4. Steady(h)'
    BY <1>0, <2>1, <2>2, <2>3 DEF Steady, AtQuery, Ask, Others, ActiveSupers
  <2> QED BY <1>0, <2>4 DEF SerialInv
<1> QED BY <1>1, <1>2 DEF LoadVictim, CountOthers, CountUsers

\* Requests about roles and keys.
LEMMA OtherSerial ==
    ASSUME OneAtATime, IInv, SerialInv, NEW h \in Handler,
           \/ LoadRoleRow(h) \/ CommitRole(h) \/ CommitDeleteRole(h) \/ LoadOwner(h)
           \/ CommitKey(h) \/ LoadKey(h) \/ CommitRevoke(h)
    PROVE  SerialInv'
<1>1. CASE CommitDeleteRole(h)
  <2>1. Done(h) /\ \A u \in User : /\ users'[u].exists = users[u].exists
                                   /\ users'[u].super = users[u].super
                                   /\ users'[u].active = users[u].active
    BY <1>1 DEF CommitDeleteRole, IInv, TypeOK, Row
  <2>2. SuperAdminRemains'
    BY <2>1 DEF SerialInv, SuperAdminRemains, ActiveSupers
  <2> QED BY <2>1, <2>2, TaskDone, Unburdened
<1>2. CASE ~CommitDeleteRole(h)
  <2>1. SuperAdminRemains'
    BY <1>2, SameSupers DEF LoadRoleRow, CommitRole, LoadOwner, CommitKey, LoadKey,
                            CommitRevoke, tables, SerialInv
  <2>2. \/ Done(h)
        \/ Ask(h).op \in {"create_role", "update_role", "create_api_key", "revoke_api_key"}
           /\ task'[h].at = "commit" /\ task'[h].request = task[h].request
        \/ task'[h].at = "count"
    BY <1>2, TaskGoto
       DEF LoadRoleRow, CommitRole, LoadOwner, CommitKey, LoadKey, CommitRevoke, AtQuery,
           IInv, TypeOK, Task
  <2> QED BY <2>1, <2>2, TaskDone, Unburdened DEF Ask
<1> QED BY <1>1, <1>2

LEMMA RestartSerial ==
    ASSUME IInv, SerialInv, Restart
    PROVE  SerialInv'
<1>1. \A h \in Handler : task'[h].at = "idle"
  BY DEF Restart, NoTask
<1>2. \A u \in ActiveSupers : users'[u].exists /\ users'[u].super /\ users'[u].active
  BY AccessAssumption DEF Restart, ActiveSupers, IInv, TypeOK, Row
<1>3. SuperAdminRemains'
  BY <1>2 DEF SuperAdminRemains, SerialInv, ActiveSupers
<1> QED BY <1>1, <1>3 DEF SerialInv, Steady, AtQuery

LEMMA NextSerial ==
    ASSUME OneAtATime
    PROVE  IInv /\ SerialInv /\ [Next]_vars => SerialInv'
<1> SUFFICES ASSUME IInv, SerialInv, [Next]_vars PROVE SerialInv'
  OBVIOUS
<1>1. ASSUME NEW h \in Handler, NEW u \in User, NEW k \in Key \cup {NoKey},
             NEW r \in Request, Authenticate(h, u, k, r)
      PROVE  SerialInv'
  <2>1. SuperAdminRemains'
    BY <1>1, SameSupers DEF Authenticate, tables, SerialInv
  <2>2. \/ task'[h].at = "load"
        \/ task'[h].at = "role" /\ task'[h].request.op = "create_user"
    BY <1>1 DEF Authenticate, NoTask, IInv, TypeOK
  <2> QED BY <2>1, <2>2, Unburdened
<1>2. ASSUME NEW h \in Handler, UserStep(h) PROVE SerialInv'
  BY <1>2, UpdateSerial, LookupSerial, CommitUpdateSerial, CommitCreateSerial,
     CommitDeleteSerial, DeleteSerial DEF UserStep
<1>3. ASSUME NEW h \in Handler, OtherStep(h) PROVE SerialInv'
  BY <1>3, DeleteSerial, OtherSerial DEF OtherStep
<1>4. CASE Restart
  BY <1>4, RestartSerial
<1>5. CASE UNCHANGED vars
  BY <1>5 DEF vars, tables, SerialInv, SuperAdminRemains, ActiveSupers, Steady, AtQuery,
              Ask, SparesSupers, Others
<1> QED BY <1>1, <1>2, <1>3, <1>4, <1>5 DEF Next

\* "Super Admin - full access; cannot be locked out as the last superadmin": with
\* requests that come one at a time, and through any number of restarts, somebody
\* who may do everything can log in.
THEOREM AccessSuperAdminRemains ==
    ASSUME OneAtATime
    PROVE  Spec => []SuperAdminRemains
<1>1. IInv /\ SerialInv /\ [Next]_vars => SerialInv'
  BY NextSerial
<1>2. SerialInv => SuperAdminRemains
  BY DEF SerialInv
<1> QED BY <1>1, <1>2, InitSerial, InitInductive, NextInductive, PTL DEF Spec

-----------------------------------------------------------------------------
RoleStep ==
    \A r \in RoleId : roles[r].exists /\ ~roles'[r].exists
        => \A u \in User : users[u].exists => users[u].role # r

LEMMA NextRoleStep == IInv /\ SerialInv /\ [Next]_vars => RoleStep
<1> SUFFICES ASSUME IInv, SerialInv, [Next]_vars PROVE RoleStep
  OBVIOUS
<1>1. CASE UNCHANGED roles
  BY <1>1 DEF RoleStep
<1>2. ASSUME NEW h \in Handler, CommitRole(h) PROVE RoleStep
  <2>1. \A r \in RoleId : roles[r].exists => roles'[r].exists
    BY <1>2 DEF CommitRole, IInv, TypeOK, RoleRow
  <2> QED BY <2>1 DEF RoleStep
<1>3. ASSUME NEW h \in Handler, CommitDeleteRole(h) PROVE RoleStep
  <2>1. \A r \in RoleId \ {Ask(h).role} : roles'[r] = roles[r]
    BY <1>3 DEF CommitDeleteRole, IInv, TypeOK
  <2>2. \A u \in User : users[u].exists => users[u].role # Ask(h).role
    BY <1>3 DEF CommitDeleteRole, SerialInv, Steady
  <2> QED BY <2>1, <2>2 DEF RoleStep
<1>4. ASSUME NEW h \in Handler, UserStep(h) PROVE UNCHANGED roles
  BY <1>4 DEF UserStep, LoadUser, Demote, Disable, LoadRole, CommitUpdate, NameFree,
              CommitCreate, LoadVictim, CountOthers, CommitDelete, tables
<1>5. ASSUME NEW h \in Handler, OtherStep(h), ~CommitRole(h), ~CommitDeleteRole(h)
      PROVE  UNCHANGED roles
  BY <1>5 DEF OtherStep, LoadRoleRow, CountUsers, LoadOwner, CommitKey, LoadKey,
              CommitRevoke, tables
<1>6. ASSUME NEW h \in Handler, NEW u \in User, NEW k \in Key \cup {NoKey},
             NEW r \in Request, Authenticate(h, u, k, r)
      PROVE  UNCHANGED roles
  BY <1>6 DEF Authenticate, tables
<1>7. ASSUME Restart \/ UNCHANGED vars PROVE UNCHANGED roles
  BY <1>7 DEF Restart, vars, tables
<1> QED BY <1>1, <1>2, <1>3, <1>4, <1>5, <1>6, <1>7 DEF Next

\* With requests that come one at a time, a role that is deleted is nobody's:
\* ON DELETE SET NULL never takes rights away.
THEOREM AccessDeletedRoleIsUnused ==
    ASSUME OneAtATime
    PROVE  Spec => DeletedRoleIsUnused
<1>1. IInv /\ SerialInv /\ [Next]_vars => SerialInv'
  BY NextSerial
<1>2. IInv /\ SerialInv /\ [Next]_vars => [RoleStep]_vars
  BY NextRoleStep
<1> QED BY <1>1, <1>2, InitSerial, InitInductive, NextInductive, PTL
        DEF Spec, DeletedRoleIsUnused, RoleStep
=============================================================================
