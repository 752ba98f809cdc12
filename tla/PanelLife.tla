----------------------------- MODULE PanelLife ------------------------------
(***************************************************************************)
(* The life of the panel between its bootstrap file and its database: the   *)
(* setup wizard, Settings -> Connection, the engine both of them rebind,    *)
(* and the boot that creates the administrator named in .env.               *)
(*                                                                         *)
(* A step is the code between two awaits of a request or of the lifespan.   *)
(* init_db, a session and a commit use the engine that was current when     *)
(* they were begun (pending.eng), whatever another request does meanwhile.     *)
(* A database may be refused, and a query may fail, at any moment.          *)
(*                                                                         *)
(* Abstracted: the access check of the wizard beyond its first test (token, *)
(* loopback, limiter), the JWT secret, ports and origins, and the flags of  *)
(* a user row: demotions and deletions are in Access.                       *)
(***************************************************************************)
EXTENDS FiniteSets

CONSTANTS
    Client,      \* requests in flight
    Database,    \* what db_host, db_port, db_user, db_name stand for together
    AdminName,       \* administrator names
    Password,
    None,        \* an absent field, value or row; in none of the sets above
    SetupRequest,\* bodies of POST /complete and PUT /connection
    Prepared     \* contents of .env a panel may be installed with; not set up by flag

Env == [flag : {"absent", "true", "false"}, db : Database \cup {None},
        admin : AdminName \cup {None}, pwd : Password \cup {None}]
Body == [kind : {"wizard", "update"}, db : Database \cup {None},
         admin : AdminName \cup {None}, pwd : Password \cup {None}]

VARIABLES
    env,      \* the keys of .env; replaced atomically
    boot,     \* where the process is
    engine,   \* the database the global engine points at
    schemas,   \* databases that hold the schema
    logins,    \* per database and name the password of its row
    worker,   \* whether the background worker runs
    pending      \* per request its body, its await and the engine it uses there

vars == <<env, boot, engine, schemas, logins, worker, pending>>

NoTask == [pc |-> "idle", req |-> None, cfg |-> None, eng |-> None, lone |-> TRUE]

\* The flag decides; without it an installation that names a database counts as set up.
is_setup_complete(e) == e.flag = "true" \/ (e.flag = "absent" /\ e.db # None)

\* A new host, or one that was deployed with a .env, for use or for the wizard.
Init ==
    /\ env \in Prepared
    /\ boot = "down" /\ engine = None /\ worker = FALSE
    /\ schemas = {}
    /\ logins = [d \in Database |-> [a \in AdminName |-> None]]
    /\ pending = [c \in Client |-> NoTask]

At(c, pc) == pending[c].pc = pc
Running == {c \in Client : ~At(c, "idle")}
\* Request c ends.
Ended(c) == [pending EXCEPT ![c] = NoTask]
Goes(c, pc, eng) == [pending EXCEPT ![c].pc = pc, ![c].eng = eng]

\* A field of an update that is absent keeps what the request read in .env at its start.
Merged(r, e) ==
    [db |-> IF r.db = None THEN e.db ELSE r.db,
     admin |-> IF r.admin = None THEN e.admin ELSE r.admin,
     pwd |-> IF r.pwd = None THEN e.pwd ELSE r.pwd]

----------------------------------------------------------------------------
\* The process.

\* The module core.db is loaded and the lifespan begins.
Start ==
    /\ boot = "down"
    /\ engine' = IF is_setup_complete(env) \/ env.pwd # None THEN env.db ELSE None
    /\ boot' = IF is_setup_complete(env) THEN "init" ELSE "up"
    /\ UNCHANGED <<env, schemas, logins, worker, pending>>

BootTables ==
    /\ boot = "init"
    /\ schemas' = schemas \cup {engine} /\ boot' = "admin"
    /\ UNCHANGED <<env, engine, logins, worker, pending>>

\* Mutant: the row is brought in line with .env at every start.
EnsureByOverwriting(us) == [us EXCEPT ![env.admin] = env.pwd]

\* Mutant: the administrator of .env is created only in an empty table.
EnsureInEmptyTable(us) ==
    IF \E a \in AdminName : us[a] # None THEN us ELSE [us EXCEPT ![env.admin] = env.pwd]

ensure_admin_user(us) ==
    IF us[env.admin] # None THEN us ELSE [us EXCEPT ![env.admin] = env.pwd]

BootAdmin ==
    /\ boot = "admin"
    /\ logins' = [logins EXCEPT ![engine] = ensure_admin_user(@)]
    /\ worker' = TRUE /\ boot' = "up"
    /\ UNCHANGED <<env, engine, schemas, pending>>

\* A crash, a shutdown, or a lifespan whose database fails.
Down ==
    /\ boot # "down"
    /\ boot' = "down" /\ engine' = None /\ worker' = FALSE
    /\ pending' = [c \in Client |-> NoTask]
    /\ UNCHANGED <<env, schemas, logins>>

----------------------------------------------------------------------------
\* The requests.

\* apply_bootstrap replaces the keys that are named, configure_engine reads them back.
apply_bootstrap(r) ==
    LET m == Merged(r, env)
    IN  [flag |-> IF r.kind = "wizard" THEN "true" ELSE env.flag,
         db |-> m.db, admin |-> m.admin, pwd |-> m.pwd]

\* Mutant: the engine is not rebound.
BootstrapOnly(r) == env' = apply_bootstrap(r) /\ engine' = engine

Bootstrap(r) == env' = apply_bootstrap(r) /\ engine' = env'.db

Started(c, r, pc, eng) ==
    [k \in Client |->
        IF k = c THEN [pc |-> pc, req |-> r, cfg |-> env, eng |-> eng, lone |-> Running = {}]
        ELSE [pending[k] EXCEPT !.lone = At(k, "idle")]]

\* The wizard needs a panel that is not set up, Settings -> Connection one that
\* is.  An update that changes no database field is saved without an await.
Begin(c, r) ==
    /\ boot = "up" /\ At(c, "idle")
    /\ is_setup_complete(env) <=> r.kind = "update"
    /\ {r.db, r.admin, r.pwd} # {None}
    /\ IF r.db # None
       THEN pending' = Started(c, r, "test", None) /\ UNCHANGED <<env, engine>>
       ELSE Bootstrap(r) /\ pending' = Started(c, r, "init", engine')
    /\ UNCHANGED <<boot, schemas, logins, worker>>

\* The connection was tested: save it, rebind the engine, begin init_db.
Save(c) ==
    /\ At(c, "test")
    /\ Bootstrap(pending[c].req)
    /\ pending' = Goes(c, "init", engine')
    /\ UNCHANGED <<boot, schemas, logins, worker>>

\* The schema exists; the next session is taken from the engine of now.
InitDb(c) ==
    /\ At(c, "init")
    /\ schemas' = schemas \cup {pending[c].eng}
    /\ pending' = IF pending[c].req.pwd = None THEN Ended(c) ELSE Goes(c, "upsert", engine)
    /\ UNCHANGED <<env, boot, engine, logins, worker>>

\* The wizard seeds the display name afterwards, in a session of its own.
_upsert_admin(c) ==
    /\ At(c, "upsert") /\ pending[c].eng \in schemas
    /\ logins' = [logins EXCEPT ![pending[c].eng][Merged(pending[c].req, pending[c].cfg).admin] =
                    pending[c].req.pwd]
    /\ pending' = IF pending[c].req.kind = "wizard" THEN Goes(c, "seed", engine) ELSE Ended(c)
    /\ UNCHANGED <<env, boot, engine, schemas, worker>>

Seed(c) ==
    /\ At(c, "seed") /\ pending[c].eng \in schemas
    /\ env' = [env EXCEPT !.flag = "true"]
    /\ worker' = TRUE
    /\ pending' = Ended(c)
    /\ UNCHANGED <<boot, engine, schemas, logins>>

\* 400 when the test fails, 500 when a query does; nothing is taken back.
Fail(c) ==
    /\ ~At(c, "idle")
    /\ pending' = Ended(c)
    /\ UNCHANGED <<env, boot, engine, schemas, logins, worker>>

Next ==
    \/ Start \/ BootTables \/ BootAdmin \/ Down
    \/ \E c \in Client :
        \/ \E r \in SetupRequest : Begin(c, r)
        \/ Save(c) \/ InitDb(c) \/ _upsert_admin(c) \/ Seed(c) \/ Fail(c)

Spec == Init /\ [][Next]_vars

----------------------------------------------------------------------------
TypeOK ==
    /\ env \in Env /\ boot \in {"down", "init", "admin", "up"}
    /\ engine \in Database \cup {None} /\ schemas \subseteq Database
    /\ logins \in [Database -> [AdminName -> Password \cup {None}]]
    /\ worker \in BOOLEAN
    /\ \A c \in Client :
        /\ pending[c].pc \in {"idle", "test", "init", "upsert", "seed"}
        /\ pending[c].pc # "idle" => boot = "up" /\ pending[c].req \in SetupRequest

\* The request c is answered with ok.
AnswersOk(c) ==
    \/ Seed(c)
    \/ pending[c].req.kind = "update" /\ (_upsert_admin(c) \/ InitDb(c))

\* The administrator c named signs in with the password c gave, on the
\* database the panel uses from now on.
SignsIn(c) ==
    LET who == Merged(pending[c].req, pending[c].cfg).admin
    IN  env'.db \in schemas' /\ engine' = env'.db /\ logins'[env'.db][who] = pending[c].req.pwd

\* "Setup complete. You can sign in now.": whatever the wizard or Settings ->
\* Connection has gone through before, also after refused databases, failed
\* queries and crashes, a request with a password that is answered ok leaves an
\* administrator who can sign in with it.  Here for a request that had the panel
\* to itself.
LoneOkMeansSignIn ==
    [][\A c \in Client :
        pending[c].pc \in {"upsert", "seed"} /\ pending[c].lone /\ AnswersOk(c) /\ pending'[c].pc = "idle"
            => SignsIn(c)]_vars

\* The same of every request, as the answer of the wizard says it.
OkMeansSignIn ==
    [][\A c \in Client : At(c, "seed") /\ AnswersOk(c) => SignsIn(c)]_vars

\* A restart never rewrites a password: only a request that carries one does.
PasswordsChangeOnRequest ==
    [][\A d \in Database, a \in AdminName :
        logins'[d][a] # logins[d][a] /\ logins[d][a] # None
            => \E c \in Client : At(c, "upsert") /\ logins'[d][a] = pending[c].req.pwd]_vars

\* A boot heals a wizard that failed half way: once the panel serves a configured
\* installation it started with, the administrator of .env is in its database.
BootHeals ==
    [][boot # "up" /\ boot' = "up" /\ is_setup_complete(env)
        => env.db \in schemas' /\ logins'[env.db][env.admin] # None]_vars
=============================================================================
