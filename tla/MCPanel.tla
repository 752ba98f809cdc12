------------------------------ MODULE MCPanel -------------------------------
(***************************************************************************)
(* Instances for TLC of the parts of the panel that share no state with one *)
(* another: users, roles and keys; its life between .env and database; the  *)
(* settings, the metrics hub, the journal, the file manager, the host's     *)
(* accounts, a jail of fail2ban.  A behaviour picks the part that moves.    *)
(* The file manager is explored with archives and with new folders apart.   *)
(* Requests about the accounts come one at a time, or two at once with no   *)
(* command given up, each over some of the commands; those about the jail   *)
(* one at a time, or two at once with one parameter and one address and the *)
(* service running.                                                         *)
(***************************************************************************)
EXTENDS MCAccess, Sequences

CONSTANTS Client, Database, AdminName, Password, None, SetupRequest, Prepared,
          Viewer, MaxFrame, Session, PeerKey, MaxTime, Retention,
          FileRoot, FileTree, FileOperation, FileText, MaxCopies, MaxDepth,
          OsUser, OsGroup, OsShell, OsText, OsAsked, MaxStray,
          JailParams, JailValue, JailAddr, JailCidr, JailShipped,
          SettingValue, SettingSecret, SaveRequest, c1, c2, c3, d1, d2, a1, a2, p1, p2, v, mask

ASSUME HubAssumption == MaxFrame \in Nat
ASSUME JournalAssumption == MaxTime \in Nat /\ Retention \in Nat

VARIABLES
    part,
    env, boot, engine, schemas, logins, worker, pending,
    doc, saver,
    latest, clients, got, round, todo, blocked,
    time, since, rows, seen, pruned,
    fs, job,
    account, group, system, stray, userJob, userSole,
    service, runtime, dropin, jailJob, jailSole

W(d, a, p) == [kind |-> "wizard", db |-> d, admin |-> a, pwd |-> p]
U(d, a, p) == [kind |-> "update", db |-> d, admin |-> a, pwd |-> p]
E(f, d, a, p) == [flag |-> f, db |-> d, admin |-> a, pwd |-> p]
MCSetupRequest == {W(d1, a1, p1), W(d2, a2, p2), U(d2, None, None), U(None, a2, p1)}
MCTwoWizards == {W(d1, a1, p1), W(d2, a2, p2)}
MCPrepared == {E("absent", None, None, None), E("absent", d1, a1, p1), E("false", d1, a1, p1)}

Life == INSTANCE PanelLife

\* The wizard's body has all the fields; a .env that says it is set up, or names a
\* database, has an administrator, if only by the defaults of config.py.
ASSUME LifeAssumption ==
    /\ SetupRequest \subseteq Life!Body /\ Prepared \subseteq Life!Env
    /\ \A r \in SetupRequest : r.kind = "wizard" => None \notin {r.db, r.admin, r.pwd}
    /\ \A e \in Prepared : Life!is_setup_complete(e) => None \notin {e.db, e.admin, e.pwd}

NoSave == [name |-> None, pg |-> None, rest |-> None, on |-> None, pwd |-> None]
MCSaveRequest ==
    {[NoSave EXCEPT !.pg = TRUE, !.rest = v],
     [NoSave EXCEPT !.name = v, !.pg = FALSE, !.on = TRUE, !.pwd = mask],
     [NoSave EXCEPT !.on = FALSE, !.pwd = p1], [NoSave EXCEPT !.on = TRUE]}
Settings == INSTANCE SettingsStore
    WITH Saver <- Client, Value <- SettingValue, Secret <- SettingSecret, Mask <- mask,
         Unset <- None

\* What the panel shows in place of a password is no password.
ASSUME SettingsAssumption ==
    /\ SaveRequest \subseteq Settings!SettingsUpdate
    /\ {mask, None} \cap SettingSecret = {}

Hub == INSTANCE MetricsHub
Journal == INSTANCE HistoryJournal

\* A folder with three links in it: to a folder inside, to one outside, and, under the
\* name of an archive in the making, to the file in that.
N(base) == <<base, "", 1>>
Mount == <<N("mnt")>>
In(base) == <<N("mnt"), N(base)>>
DirNode == [kind |-> "dir", data |-> "", target |-> <<<<"", "", 0>>>>]
LinkNode(p) == [kind |-> "link", data |-> "", target |-> p]
MCTree ==
    Mount :> DirNode @@ In("a") :> DirNode @@ <<N("etc")>> :> DirNode
    @@ In("in") :> LinkNode(In("a")) @@ In("out") :> LinkNode(<<N("etc")>>)
    @@ <<N("mnt"), <<"a", "lnxadmin-up", 1>>>> :> LinkNode(<<N("etc"), N("f")>>)
    @@ <<N("etc"), N("f")>> :> [DirNode EXCEPT !.kind = "file", !.data = "x"]
O(op, rel, name) == [op |-> op, rel |-> rel, dest |-> <<>>, name |-> N(name)]
MCOperation ==
    {O("write", <<N("in"), N("f")>>, "f"), O("mkdir", <<>>, "a"),
     [O("mkdirs", <<>>, "f") EXCEPT !.dest = <<N("a")>>],
     [O("mkdirs", <<>>, "f") EXCEPT !.dest = <<N("in")>>],
     O("touch", <<N("a")>>, "f"), O("upload", <<>>, "a"), O("delete", <<N("a")>>, "a"),
     O("move", <<N("out")>>, "a"), O("pack", <<N("a")>>, "a"), O("extract", <<<<"a", "zip", 1>>>>, "a")}
Files == INSTANCE FileManager
    WITH User <- Client, Root <- FileRoot, Tree <- FileTree, Operation <- FileOperation, Text <- FileText

\* The mount is not the root of the file system.  Every node of the tree lies in a
\* folder, and a link has a target.
ASSUME FilesAssumption ==
    /\ {"", "zip", "lnxadmin-up", "m"} \subseteq FileText
    /\ FileRoot \in Files!Path \ {<<>>} /\ MaxCopies \in Nat /\ MaxDepth \in Nat
    /\ \A p \in DOMAIN FileTree :
        /\ p \in Files!Path \ {<<>>} /\ FileTree[p].kind \in {"dir", "file", "link"}
        /\ Files!Is(FileTree, Files!Front(p), "dir")
        /\ FileTree[p].kind = "link" => FileTree[p].target \in Files!Path
    /\ \A o \in FileOperation :
        /\ o.rel \in Files!Path /\ o.dest \in Files!Path /\ o.name \in Files!Name
        /\ o.op \in {"write", "mkdir", "touch", "mkdirs", "upload", "delete", "move", "pack", "extract"}

\* root, a daemon and one person; a password of one line, and one whose second
\* line would be read as another account's.
OneLine == [pwd |-> "x", more |-> {}]
TwoLines == [pwd |-> "x", more |-> {<<"root", "x">>}]
C(do, user, text, groups) ==
    [do |-> do, user |-> user, shell |-> IF do = "shell" THEN "nologin" ELSE "bash",
     text |-> text, groups |-> groups, system |-> FALSE]
MCAsked ==
    {C(do, "eve", None, {}) : do \in {"userdel", "lock", "unlock", "shell", "groups"}}
    \union {C("useradd", "eve", OneLine, {"adm"}), C("userdel", "daemon", None, {}),
            C("chpasswd", "root", OneLine, {}), C("chpasswd", "eve", OneLine, {}),
            C("chpasswd", "eve", TwoLines, {}),
            C("gpasswd -a", "eve", None, {"adm"}), C("gpasswd -d", "eve", None, {"adm"}),
            C("groupadd", "eve", None, {"adm"}), C("groupdel", "eve", None, {"adm"}),
            C("groupdel", "eve", None, {"root"})}
MCText == {OneLine, TwoLines}
Users == INSTANCE OsUsers
    WITH Handler <- Client, User <- OsUser, Group <- OsGroup, Shell <- OsShell,
         Text <- OsText, Asked <- OsAsked, job <- userJob, sole <- userSole

HostCommand ==
    [do : {"useradd", "userdel", "chpasswd", "lock", "unlock", "shell", "groups",
           "groupadd", "groupdel", "gpasswd -a", "gpasswd -d"},
     user : OsUser, shell : OsShell, text : OsText \union {None}, groups : SUBSET OsGroup,
     system : BOOLEAN]
\* A request for a password has one.
ASSUME UsersAssumption ==
    /\ OsAsked \subseteq HostCommand /\ MaxStray \in Nat
    /\ \A c \in OsAsked : c.do = "chpasswd" => c.text # None
    /\ None \notin Users!Entry \union Users!GroupEntry
    /\ {"root", "daemon"} \subseteq OsUser /\ "bash" \in OsShell

MCShipped == [params |-> <<"10m", "10m">>, ignore |-> {"shipped", "localhost"}]
Jail == INSTANCE Fail2ban
    WITH Handler <- Client, Params <- JailParams, Value <- JailValue, Addr <- JailAddr,
         Cidr <- JailCidr, Shipped <- JailShipped, job <- jailJob, sole <- jailSole

ASSUME JailAssumption ==
    /\ JailParams \in Nat /\ \A list \in SUBSET JailAddr : list # None
    /\ JailShipped.ignore \subseteq JailAddr /\ JailCidr \subseteq JailAddr

Asking == {h \in Client : jailJob[h].at # "idle"}
Acting == {h \in Client : userJob[h].at # "idle"}

lifeVars == <<env, boot, engine, schemas, logins, worker, pending>>
settingsVars == <<doc, saver>>
hubVars == <<latest, clients, got, round, todo, blocked>>
journalVars == <<time, since, rows, seen, pruned>>
filesVars == <<fs, job>>
usersVars == <<account, group, system, stray, userJob, userSole>>
jailVars == <<service, runtime, dropin, jailJob, jailSole>>

Parts == {"access", "life", "settings", "hub", "journal", "files", "folders", "users alone",
          "users together", "jail alone", "jail together"}
PanelInit ==
    /\ part \in Parts
    /\ Init /\ Life!Init /\ (part # "life" => env.db = None)
    /\ Settings!Init /\ Hub!Init /\ Journal!Init /\ Files!Init
    /\ Users!InitWith("root", "daemon", "adm", "bash") /\ Jail!Init
    /\ part # "jail alone" => service = "running"
PanelNext ==
    /\ UNCHANGED part
    /\ \/ part = "access" /\ Next
          /\ UNCHANGED <<lifeVars, settingsVars, hubVars, journalVars, filesVars, usersVars, jailVars>>
       \/ part = "life" /\ Life!Next
          /\ UNCHANGED <<vars, settingsVars, hubVars, journalVars, filesVars, usersVars, jailVars>>
       \/ part = "settings" /\ Settings!Next
          /\ UNCHANGED <<vars, lifeVars, hubVars, journalVars, filesVars, usersVars, jailVars>>
       \/ part = "hub" /\ Hub!Next
          /\ UNCHANGED <<vars, lifeVars, settingsVars, journalVars, filesVars, usersVars, jailVars>>
       \/ part = "journal" /\ Journal!Next
          /\ UNCHANGED <<vars, lifeVars, settingsVars, hubVars, filesVars, usersVars, jailVars>>
       \/ /\ part \in {"files", "folders"} /\ Files!Next
          /\ \A u \in Client :
                job'[u].do \notin IF part = "files" THEN {"mkdirs", "touch"} ELSE {"pack"}
          /\ UNCHANGED <<vars, lifeVars, settingsVars, hubVars, journalVars, usersVars, jailVars>>
       \/ /\ part \in {"users alone", "users together"} /\ Users!Next
          /\ \/ /\ part = "users alone" /\ Cardinality(Acting') < 2
                /\ \A h \in Acting' : userJob'[h].cmd.do \notin {"shell", "groups", "unlock", "gpasswd -d"}
             \/ /\ part = "users together" /\ stray' = {}
                /\ \A h \in Acting' : userJob'[h].cmd.do \notin {"lock", "groupadd", "gpasswd -a"}
          /\ UNCHANGED <<vars, lifeVars, settingsVars, hubVars, journalVars, filesVars, jailVars>>
       \/ /\ part \in {"jail alone", "jail together"} /\ Jail!Next
          /\ \/ part = "jail alone" /\ Cardinality(Asking') < 2
             \/ /\ part = "jail together" /\ service' = "running"
                /\ \A h \in Client :
                    /\ \A p \in 2..JailParams : jailJob'[h].want[p] = None
                    /\ jailJob'[h].addr \notin JailShipped.ignore
                    /\ jailJob'[h].op \notin {"install", "start", "stop"}
          /\ UNCHANGED <<vars, lifeVars, settingsVars, hubVars, journalVars, filesVars, usersVars>>
PanelSpec ==
    PanelInit
    /\ [][PanelNext]_<<part, vars, lifeVars, settingsVars, hubVars, journalVars, filesVars,
                    usersVars, jailVars>>

Symmetry == Permutations(Client)

\* The state of every part has its type.
PartsTypeOK ==
    /\ TypeOK /\ Life!TypeOK /\ Settings!TypeOK
    /\ Hub!TypeOK /\ Journal!TypeOK /\ Files!TypeOK /\ Users!TypeOK /\ Jail!TypeOK
\* setup.py: a request answered ok lets its administrator in, unless overlapped.
LoneOkMeansSignIn == Life!LoneOkMeansSignIn
\* setup.py: so does every wizard that is answered ok.
OkMeansSignIn == Life!OkMeansSignIn
\* persistence.py: a boot rewrites no password.
PasswordsChangeOnRequest == Life!PasswordsChangeOnRequest
\* persistence.py: a boot creates the administrator of .env if there is none.
BootHeals == Life!BootHeals
\* settings.py: a save that nobody overlaps shows what it asked for.
LoneSaveShows == Settings!LoneSaveShows
\* ws_hub.py: who is in the hub and not ahead of the broadcast has the latest frame.
ClientsUpToDate == Hub!ClientsUpToDate
\* persistence.py: the journal tells of the connections the last sample saw.
JournalMatchesSample == Journal!JournalMatchesSample
\* fileman.py: requests change what they name, inside the mounted folder.
RequestsKeepToTheirs == Files!RequestsKeepToTheirs
\* users.py: no request changes root, or a system account that is protected, or
\* removes such a group.
ProtectedStay == Users!ProtectedStay
\* users.py: a lone request answered ok has done all of it.
LoneUserAnswersHold == Users!LoneAnswersHold
\* fail2ban.py: a reload keeps what a lone request persisted, and what was there.
PanelChangesSurvive == Jail!PanelChangesSurvive
=============================================================================
