------------------------------ MODULE OsUsers -------------------------------
(***************************************************************************)
(* The users and groups of the host (api/users.py, collectors/users.py).   *)
(* The panel keeps no copy: it reads passwd and group, decides, and starts *)
(* a command of the host.  Between the decision and the command there is   *)
(* an await, and no lock.                                                  *)
(*                                                                         *)
(* A command is tried as the panel's user and, whatever made it fail, a    *)
(* second time with sudo.  One that times out is not killed: it stays      *)
(* behind (stray) and may do its work after the request was answered.      *)
(*                                                                         *)
(* Abstracted: uids and gids are a class, names that NAME_RE refuses do    *)
(* not occur, comments are left out, and of a home directory all but that  *)
(* its removal may fail; allow_mutations is on.                            *)
(***************************************************************************)
EXTENDS FiniteSets, Naturals

CONSTANTS
    Handler,   \* requests that may be in progress at once
    User,      \* account names
    Group,     \* group names
    Shell,
    Text,      \* password fields of requests: [pwd, more]
    Asked,     \* the commands that requests ask for
    MaxStray,  \* bound on the commands left behind at one time
    None

VARIABLES
    account,   \* passwd and shadow
    group,     \* group
    system,    \* the setting allow_system_mutations
    stray,     \* commands that timed out and still run
    job,       \* the requests
    sole       \* the request that has had nothing else beside it

vars == <<account, group, system, stray, job, sole>>

Pwd == {t.pwd : t \in Text}
Entry == [uid : {"root", "system", "normal"}, shell : Shell, pwd : Pwd \union {None},
          locked : BOOLEAN]
GroupEntry == [gid : {"root", "system", "normal"}, members : SUBSET User]
Idle == [at |-> "idle", cmd |-> None, ok |-> FALSE]

TypeOK ==
    /\ account \in [User -> Entry \union {None}]
    /\ group \in [Group -> GroupEntry \union {None}]
    /\ system \in BOOLEAN /\ Cardinality(stray) <= MaxStray /\ sole \subseteq Handler
    /\ \A h \in Handler : job[h].at \in {"idle", "self", "sudo", "chpasswd"}

\* A host with root and its group, a daemon's account in a system group, and room
\* for others.
InitWith(root, daemon, adm, shell) ==
    /\ account = [u \in User |->
          IF u \notin {root, daemon} THEN None
          ELSE [uid |-> IF u = root THEN "root" ELSE "system", shell |-> shell,
                pwd |-> None, locked |-> TRUE]]
    /\ group = [g \in Group |->
          IF g \notin {root, adm} THEN None
          ELSE [gid |-> IF g = root THEN "root" ELSE "system",
                members |-> IF g = root THEN {} ELSE {daemon}]]
    /\ system = FALSE /\ stray = {} /\ sole = {}
    /\ job = [h \in Handler |-> Idle]

-----------------------------------------------------------------------------
(***************************************************************************)
(* The host's commands.                                                    *)
(***************************************************************************)
Exists(c) == account[c.user] # None

\* chpasswd sets the password of every line it reads, which unlocks the account.
LinesOf(c) == {<<c.user, c.text.pwd>>} \union c.text.more
Chpasswd(c) ==
    /\ \A l \in LinesOf(c) : account[l[1]] # None
    /\ account' = [u \in User |->
          IF \E l \in LinesOf(c) : l[1] = u
          THEN [account[u] EXCEPT !.pwd = (CHOOSE l \in LinesOf(c) : l[1] = u)[2],
                                  !.locked = FALSE]
          ELSE account[u]]
    /\ UNCHANGED group

\* The account is a member of these groups and of no other.
MemberOf(u, groups) ==
    group' = [g \in Group |->
        IF group[g] = None THEN None
        ELSE [group[g] EXCEPT !.members = (@ \ {u}) \union (IF g \in groups THEN {u} ELSE {})]]

\* useradd refuses a name that exists and a group that does not.
UserAdd(c) ==
    /\ ~Exists(c) /\ \A g \in c.groups : group[g] # None
    /\ account' = [account EXCEPT ![c.user] =
          [uid |-> "normal", shell |-> c.shell, pwd |-> None, locked |-> TRUE]]
    /\ MemberOf(c.user, c.groups)
UserDel(c) ==
    /\ Exists(c)
    /\ account' = [account EXCEPT ![c.user] = None]
    /\ MemberOf(c.user, {})
\* userdel -r that cannot remove the home directory fails with the account gone.
HalfDone(c) == c.do = "userdel" /\ UserDel(c)

\* usermod -U leaves an account without a password locked, and says so, with 0.
UserMod(c) ==
    /\ Exists(c)
    /\ \/ c.do = "lock" /\ account' = [account EXCEPT ![c.user].locked = TRUE] /\ UNCHANGED group
       \/ /\ c.do = "unlock" /\ UNCHANGED group
          /\ account' = [account EXCEPT ![c.user].locked = (account[c.user].pwd = None)]
       \/ c.do = "shell" /\ account' = [account EXCEPT ![c.user].shell = c.shell] /\ UNCHANGED group
       \/ /\ c.do = "groups" /\ UNCHANGED account
          /\ \A g \in c.groups : group[g] # None
          /\ MemberOf(c.user, c.groups)

GroupCommand(c) ==
    /\ UNCHANGED account
    /\ \/ /\ c.do = "groupadd" /\ \A g \in c.groups : group[g] = None
          /\ group' = [g \in Group |-> IF g \in c.groups THEN [gid |-> "normal", members |-> {}]
                                       ELSE group[g]]
       \/ /\ c.do \in {"groupdel", "gpasswd -a", "gpasswd -d"}
          /\ \A g \in c.groups : group[g] # None
          /\ c.do = "gpasswd -a" => Exists(c)
          /\ c.do = "gpasswd -d" => \A g \in c.groups : c.user \in group[g].members
          /\ group' = [g \in Group |->
                IF g \notin c.groups THEN group[g]
                ELSE IF c.do = "groupdel" THEN None
                ELSE [group[g] EXCEPT !.members =
                         IF c.do = "gpasswd -a" THEN @ \union {c.user} ELSE @ \ {c.user}]]

Effect(c) ==
    \/ c.do = "useradd" /\ UserAdd(c)
    \/ c.do = "userdel" /\ UserDel(c)
    \/ c.do = "chpasswd" /\ Chpasswd(c)
    \/ UserMod(c)
    \/ GroupCommand(c)

-----------------------------------------------------------------------------
(***************************************************************************)
(* The requests.                                                           *)
(***************************************************************************)
\* Mutant: a line break is let through.
AnyPassword(t) == TRUE
\* _valid_password: the text is one line for chpasswd.
ValidPassword(t) == t # None => t.more = {}

\* _deny_system_user, not.
MayTouch(c) ==
    /\ Exists(c) /\ account[c.user].uid # "root"
    /\ system \/ account[c.user].uid = "normal"

\* What each handler refuses before it runs its command.
CreateUser(c) == c.do = "useradd" /\ ValidPassword(c.text)
DeleteUser(c) == c.do = "userdel" /\ MayTouch(c)
SetUserLocked(c) == c.do \in {"lock", "unlock"} /\ MayTouch(c)
SetUserShell(c) == c.do = "shell" /\ MayTouch(c)
SetUserGroups(c) == c.do = "groups" /\ MayTouch(c)
SetUserPassword(c) ==
    c.do = "chpasswd" /\ ValidPassword(c.text) /\ MayTouch(c)
CreateGroup(c) == c.do = "groupadd"
DeleteGroup(c) ==
    /\ c.do = "groupdel"
    /\ \A g \in c.groups :
        group[g] # None /\ group[g].gid # "root" /\ (system \/ group[g].gid = "normal")
ChangeMember(c) == c.do \in {"gpasswd -a", "gpasswd -d"}

Accepts(c) ==
    \/ CreateUser(c) \/ DeleteUser(c) \/ SetUserLocked(c)
    \/ SetUserShell(c) \/ SetUserGroups(c) \/ SetUserPassword(c)
    \/ CreateGroup(c) \/ DeleteGroup(c) \/ ChangeMember(c)

\* The route reads the settings and calls the collector, which refuses or
\* starts its command; what the settings said goes with it.  The answers given
\* before it (ok) are forgotten.
Submit(h, c) ==
    /\ job[h].at = "idle" /\ Accepts(c)
    /\ job' = [o \in Handler |->
          IF o = h THEN [Idle EXCEPT !.at = IF c.do = "chpasswd" THEN "chpasswd" ELSE "self",
                                     !.cmd = [c EXCEPT !.system = system]]
          ELSE [job[o] EXCEPT !.ok = FALSE]]
    /\ sole' = IF stray = {} /\ \A o \in Handler : job[o].at = "idle" THEN {h} ELSE {}
    /\ UNCHANGED <<account, group, system, stray>>

Command(h) ==
    IF job[h].at = "chpasswd" THEN [job[h].cmd EXCEPT !.do = "chpasswd"] ELSE job[h].cmd
Ends(h, ok) ==
    job' = [job EXCEPT ![h] = [Idle EXCEPT !.ok = ok]] /\ sole' = sole \ {h}

\* A user made with a password goes on to chpasswd.
Succeeds(h) ==
    /\ job[h].at # "idle" /\ Effect(Command(h))
    /\ IF Command(h).do = "useradd" /\ job[h].cmd.text # None
       THEN job' = [job EXCEPT ![h].at = "chpasswd"] /\ UNCHANGED sole
       ELSE Ends(h, TRUE)
    /\ UNCHANGED <<system, stray>>

\* Mutant: a password that is not set is not worth a warning.
NoWarning(h) == job[h].cmd.do = "useradd" /\ job[h].at = "chpasswd"
\* ok without a warning.
AllWell(h) == FALSE

\* _run_privileged: whatever the reason, once more with sudo.
Fails(h) ==
    /\ job[h].at # "idle"
    /\ IF job[h].at = "self" THEN job' = [job EXCEPT ![h].at = "sudo"] /\ UNCHANGED sole
       ELSE Ends(h, AllWell(h))
    /\ UNCHANGED system
CommandFails(h) ==
    /\ Fails(h) /\ UNCHANGED stray
    /\ HalfDone(Command(h)) \/ UNCHANGED <<account, group>>
CommandTimesOut(h) ==
    /\ Fails(h) /\ UNCHANGED <<account, group>>
    /\ Cardinality(stray) < MaxStray /\ stray' = stray \union {Command(h)}

\* A command left behind does its work, or gives up.
StrayEnds(c) ==
    /\ stray' = stray \ {c}
    /\ Effect(c) \/ UNCHANGED <<account, group>>
    /\ UNCHANGED <<system, job, sole>>

SettingsChange ==
    /\ system' = ~system
    /\ UNCHANGED <<account, group, stray, job, sole>>

Next ==
    \/ \E h \in Handler :
        \/ \E c \in Asked : Submit(h, c)
        \/ Succeeds(h) \/ CommandFails(h) \/ CommandTimesOut(h)
    \/ \E c \in stray : StrayEnds(c)
    \/ SettingsChange

-----------------------------------------------------------------------------
(***************************************************************************)
(* Properties.                                                             *)
(***************************************************************************)
InHand == {Command(h) : h \in {o \in Handler : job[o].at # "idle"}} \union stray

\* The command changes the account u, and the settings allowed system accounts
\* when its request came.
LetAt(c, u) ==
    /\ c.system /\ c.user = u
    /\ c.do \in {"userdel", "chpasswd", "lock", "unlock", "shell"}

\* No request, however it overlaps others, the settings or a command that was
\* given up, changes the account of root or removes the group of root; a system
\* account is changed or removed, and a system group removed, only by a request
\* for that account or group which the settings allowed when it came.  Who is a
\* member of a system group is not claimed: the code guards the account whose
\* groups are set, and neither the groups nor a single membership.
ProtectedStay ==
    [][/\ \A u \in User :
            account[u] # None /\ account'[u] # account[u] =>
                \/ account[u].uid = "normal"
                \/ account[u].uid = "system" /\ \E c \in InHand : LetAt(c, u)
       /\ \A g \in Group :
            group[g] # None /\ group'[g] = None =>
                \/ group[g].gid = "normal"
                \/ /\ group[g].gid = "system"
                   /\ \E c \in InHand : c.system /\ c.do = "groupdel" /\ g \in c.groups
      ]_vars

\* What an answer ok says of the host.
Holds(c) ==
    LET memberOf == {g \in Group : group[g] # None /\ c.user \in group[g].members}
        a == account[c.user]
    IN  /\ c.do = "useradd" => a # None /\ a.shell = c.shell /\ c.groups \subseteq memberOf
        /\ c.do = "userdel" => a = None /\ memberOf = {}
        /\ c.do \in {"useradd", "chpasswd"} /\ c.text # None => a.pwd = c.text.pwd /\ ~a.locked
        /\ c.do = "lock" => a.locked
        /\ c.do = "unlock" => ~a.locked \/ a.pwd = None
        /\ c.do = "shell" => a.shell = c.shell
        /\ c.do = "groups" => memberOf = c.groups
        /\ c.do = "groupadd" => \A g \in c.groups : group[g] # None
        /\ c.do = "groupdel" => \A g \in c.groups : group[g] = None
        /\ c.do = "gpasswd -a" => c.groups \subseteq memberOf
        /\ c.do = "gpasswd -d" => c.groups \cap memberOf = {}

\* A request that had nothing else beside it and is answered ok, without a
\* warning, has done all of it, the commands it gave up and repeated included.
LoneAnswersHold ==
    [][\A h \in sole : \A c \in Asked :
        /\ job[h].at # "idle" /\ job'[h].at = "idle" /\ job'[h].ok
        /\ job[h].cmd = [c EXCEPT !.system = job[h].cmd.system]
        => Holds(c)'
      ]_vars
=============================================================================
