----------------------------- MODULE NginxEdge ------------------------------
(***************************************************************************)
(* The Nginx edge module of the panel: the state document (state.json), the *)
(* managed configuration directories, their backups, and the configuration *)
(* nginx runs.  One request handler per element of Handler; every command   *)
(* a handler awaits is a step of its own, so that handlers interleave and  *)
(* crash between any two commands.                                         *)
(*                                                                         *)
(* A route is a record of what the properties tell apart; of 00-acme.conf,   *)
(* which is rendered from constants and validated names, it is the public    *)
(* listener of port 80.  The directory of a part of the configuration may be *)
(* missing: the code removes it before it copies.  A port another process    *)
(* holds it holds on every address, and gets and gives up between requests.  *)
(***************************************************************************)
EXTENDS Naturals, FiniteSets

CONSTANTS
    Handler,          \* requests in flight
    RouteBody,        \* the routes requests may save
    Cert,             \* certificates
    NoCert,
    Absent,           \* a directory that does not exist
    Down,             \* nginx is not running
    MaxSecond,        \* bound on the clock: backups taken
    ManualSeconds,    \* bound: the seconds in which a manual backup may be taken
    Faults,           \* the failures that may happen, a subset of FaultKind
    DistinctSeconds,  \* whether applies start in seconds of their own
    HeldPort          \* the TCP ports other processes may hold

\* "look": ss fails, or names no process, as to a panel that is not root.
FaultKind == {"write", "copy", "test", "reload", "crash", "look"}
Part == {"http", "stream"}
Type == {"http", "https", "tcp", "udp", "tls"}
Second == 1..MaxSecond

ASSUME EdgeAssumption ==
    /\ Faults \subseteq FaultKind
    /\ MaxSecond \in Nat \ {0}
    /\ ManualSeconds \subseteq Second
    /\ DistinctSeconds \in BOOLEAN

\* names: the domain and the aliases; ip and port: the frontend; valid: whether
\* nginx accepts what the route is rendered to, which the panel cannot know.
IsRoute(r) ==
    /\ DOMAIN r = {"id", "type", "names", "ip", "port", "cert", "enabled", "valid"}
    /\ r.type \in Type
    /\ r.cert \in Cert \cup {NoCert}
    /\ r.enabled \in BOOLEAN /\ r.valid \in BOOLEAN

\* What listens on port 80 besides: the public server of 00-acme.conf, and the
\* distribution's sites-enabled/default.
Bootstrap == [id |-> "00-acme", type |-> "http", names |-> {}, ip |-> "any", port |-> 80,
              cert |-> NoCert, enabled |-> TRUE, valid |-> TRUE]
Distro == [Bootstrap EXCEPT !.id = "default"]
Entry == RouteBody \cup {Bootstrap}

ASSUME RouteAssumption ==
    /\ \A r \in RouteBody : IsRoute(r) /\ r.id \notin {"00-acme", "default"}
    /\ \A d \in SUBSET Entry : d # Absent
    /\ \A c \in [Part -> SUBSET (Entry \cup {Distro})] : c # Down

VARIABLES
    stateFile,   \* the routes of state.json
    managed,     \* per part the routes of its directory, or Absent
    running,     \* what nginx loaded last, per part, or Down
    held,        \* the TCP ports other processes hold
    distro,      \* whether sites-enabled/default is there
    certs,       \* the certificates whose files are on disk
    backups,     \* per second the backup taken in it: parts and document
    manual,      \* the seconds in which a manual backup was taken
    now,         \* the clock
    task,        \* per handler its local variables and the command it is at
    outcome      \* per handler the result of its last operation

disk == <<stateFile, managed, certs, backups, manual>>
vars == <<disk, running, held, distro, now, task, outcome>>

Docs == SUBSET RouteBody
\* What is in the files of each part: the routes whose text they contain.
Config == [Part -> SUBSET Entry]
Managed == [Part -> {Absent} \cup SUBSET Entry]
Running == {Down} \cup [Part -> SUBSET (Entry \cup {Distro})]
Empty == [p \in Part |-> {}]
Missing == [p \in Part |-> Absent]
NoBackup == [taken |-> FALSE, parts |-> Missing, doc |-> Absent]
Op == {"none", "save", "apply", "undo", "undo_reload", "acme", "renew", "reload",
       "rollback", "delete_cert"}
Verb == {"idle", "save", "preview", "dirs", "backup", "backup_doc", "write", "look", "hide",
         "test", "reload", "finish", "rm", "cp", "cp_doc", "reload_again", "rm_cert"}

\* The local variables of a handler; was is auxiliary: managed when apply began.
Task == [verb : Verb, part : Part \cup {"-", "acme"}, op : Op, doc : Docs, preview : Config,
         bid : Second, cert : Cert \cup {NoCert}, was : Managed]
NoTask == [verb |-> "idle", part |-> "-", op |-> "none", doc |-> {}, preview |-> Empty,
           bid |-> 1, cert |-> NoCert, was |-> Missing]

TypeOK ==
    /\ stateFile \in Docs
    /\ managed \in Managed
    /\ running \in Running
    /\ held \subseteq HeldPort
    /\ distro \in BOOLEAN
    /\ certs \subseteq Cert
    /\ backups \in [Second -> [taken : BOOLEAN, parts : Managed, doc : {Absent} \cup Docs]]
    /\ manual \subseteq Second
    /\ now \in Second
    /\ task \in [Handler -> Task]
    /\ outcome \in [Handler -> {"none", "ok", "failed"}]

-----------------------------------------------------------------------------
(***************************************************************************)
(* Routes, their conflicts and what they are rendered to.                  *)
(***************************************************************************)

Layer(r) == IF r.type \in {"http", "https"} THEN "http" ELSE "stream"

\* The conflict of the route c, about to be saved, with the enabled route e.
SharesStream(c, e) ==
    /\ Layer(c) = "stream" /\ Layer(e) = "stream"
    /\ c.ip = e.ip /\ c.port = e.port
    /\ (c.type = "udp") = (e.type = "udp")
    /\ ~(c.type = "tls" /\ e.type = "tls")

SharesName(c, e) ==
    /\ Layer(c) = "http" \/ c.type = "tls"
    /\ c.names \cap e.names # {}
    /\ c.port = e.port
    /\ c.ip = e.ip \/ Layer(c) = Layer(e)

Clash(c, e) == c.id # e.id /\ e.enabled /\ (SharesStream(c, e) \/ SharesName(c, e))

\* Mutant: the check is made for new routes only.
AdmissibleIfNew(d, r) == \A e \in d : (\A x \in d : x.id # r.id) => ~Clash(r, e)
Admissible(d, r) == \A e \in d : ~Clash(r, e)

With(d, r) == {e \in d : e.id # r.id} \cup {r}

\* A document with an enabled https route that has no certificate is not
\* rendered at all.
Renderable(d) == \A r \in d : r.enabled /\ r.type = "https" => r.cert # NoCert

Render(d) == [p \in Part |-> {r \in d : r.enabled /\ Layer(r) = p}]

\* nginx includes the files of a directory with a wildcard: a missing
\* directory is an empty one.
Serve(m) == [p \in Part |-> IF m[p] = Absent THEN {} ELSE m[p]]

\* What nginx reads, and the TCP ports it would listen on: each of them has to be
\* free for it to start, or to follow a reload.
Reads == [p \in Part |-> Serve(managed)[p] \cup (IF p = "http" /\ distro THEN {Distro} ELSE {})]
TcpPorts(c) == {r.port : r \in {e \in c["http"] \cup c["stream"] : e.type # "udp"}}
Binds == TcpPorts(Reads) \cap held = {}

\* nginx -t: every route parses and the certificate files it names exist.
Parses(c) ==
    \A p \in Part : \A r \in c[p] : r.valid /\ (r.type = "https" => r.cert \in certs)

\* What a start of nginx comes to.
Booted == IF Parses(Reads) /\ Binds THEN Reads ELSE Down

Init ==
    /\ stateFile = {}
    /\ managed = Missing
    /\ held \in SUBSET HeldPort
    /\ distro \in BOOLEAN
    /\ running = Booted
    /\ certs = Cert
    /\ backups = [s \in Second |-> NoBackup]
    /\ manual = {}
    /\ now = 1
    /\ task = [h \in Handler |-> NoTask]
    /\ outcome = [h \in Handler |-> "none"]

-----------------------------------------------------------------------------
\* _ensure_dirs.  _save_state and _audit call it too, so almost every request
\* recreates a directory that is missing at that moment.
Ensured(m) == Serve(m)

Idle(h) == task[h].verb = "idle"
At(h, verb) == task[h].verb = verb
Goto(h, verb, p) == task' = [task EXCEPT ![h].verb = verb, ![h].part = p]
Ends(h, result) ==
    /\ task' = [task EXCEPT ![h] = NoTask]
    /\ outcome' = [outcome EXCEPT ![h] = result]

\* A request arrives at an idle handler, whose outcome is open again.
Begins(h, t) ==
    /\ Idle(h)
    /\ task' = [task EXCEPT ![h] = t]
    /\ outcome' = [outcome EXCEPT ![h] = "none"]

\* upsert_route and delete_route up to the await in _save_state.  With o = "apply"
\* the request goes on to apply, unless its own route lacks the certificate.  A
\* route that clashes is refused.
Upsert(h, r, o) ==
    /\ Admissible(stateFile, r)
    /\ o = "apply" => ~(r.type = "https" /\ r.cert = NoCert)
    /\ Begins(h, [NoTask EXCEPT !.verb = "save", !.op = o, !.doc = With(stateFile, r)])
    /\ UNCHANGED <<disk, running, held, distro, now>>

DeleteRoute(h, id, o) ==
    /\ \E r \in stateFile : r.id = id
    /\ Begins(h, [NoTask EXCEPT !.verb = "save", !.op = o,
                                !.doc = {r \in stateFile : r.id # id}])
    /\ UNCHANGED <<disk, running, held, distro, now>>

Save(h) ==
    /\ At(h, "save")
    /\ \/ /\ stateFile' = task[h].doc
          /\ IF task[h].op = "apply"
             THEN Goto(h, "preview", "-") /\ UNCHANGED outcome
             ELSE Ends(h, "ok")
       \/ /\ "write" \in Faults
          /\ Ends(h, "none")
          /\ UNCHANGED stateFile
    /\ managed' = Ensured(managed)
    /\ UNCHANGED <<certs, backups, manual, running, held, distro, now>>

-----------------------------------------------------------------------------
(***************************************************************************)
(* apply_config.                                                           *)
(***************************************************************************)

\* generate_config_preview, as the first thing of POST config/apply, or after
\* the save of a request that asked for it.  With DistinctSeconds no other apply
\* has taken a backup in this second.
Preview(h) ==
    /\ Idle(h) \/ At(h, "preview")
    /\ DistinctSeconds => ~backups[now].taken
    /\ IF Renderable(stateFile)
       THEN /\ task' = [task EXCEPT ![h] =
                   [NoTask EXCEPT !.verb = "dirs", !.op = "apply",
                                  !.preview = Render(stateFile), !.was = managed]]
            /\ outcome' = [outcome EXCEPT ![h] = "none"]
       ELSE Ends(h, "none")
    /\ UNCHANGED <<disk, running, held, distro, now>>

\* _ensure_dirs and _ensure_nginx_includes; apply then names its backup after
\* the second it is.
Dirs(h) ==
    /\ At(h, "dirs")
    /\ managed' = Ensured(managed)
    /\ task' = [task EXCEPT ![h] =
            IF task[h].op = "apply"
            THEN [@ EXCEPT !.verb = "backup", !.part = "http", !.bid = now]
            ELSE [@ EXCEPT !.verb = "write", !.part = "acme"]]
    /\ UNCHANGED <<stateFile, certs, backups, manual, running, held, distro, now, outcome>>

\* cp -a of a directory: onto a missing one it copies, into an existing one it
\* nests the copy, which nginx does not include.  Nobody looks at its result.
Copied(src, dst) == IF dst = Absent THEN src ELSE dst
Copies(src, dst) == {Copied(src, dst)} \cup (IF "copy" \in Faults THEN {dst} ELSE {})

Backup(h) ==
    /\ At(h, "backup")
    /\ LET b == task[h].bid
           p == task[h].part
       IN  \E copy \in Copies(managed[p], backups[b].parts[p]) :
               backups' = [backups EXCEPT ![b].taken = TRUE, ![b].parts[p] = copy]
    /\ IF task[h].part = "http" THEN Goto(h, "backup", "stream")
                                ELSE Goto(h, "backup_doc", "-")
    /\ UNCHANGED <<stateFile, managed, certs, manual, running, held, distro, now, outcome>>

\* The document that apply saves at its end is the one it loads here.
BackupDoc(h) ==
    /\ At(h, "backup_doc")
    /\ \/ backups' = [backups EXCEPT ![task[h].bid].doc = stateFile]
       \/ "write" \in Faults /\ UNCHANGED backups
    /\ task' = [task EXCEPT ![h].verb = "write", ![h].part = "acme", ![h].doc = stateFile]
    /\ UNCHANGED <<stateFile, managed, certs, manual, running, held, distro, now, outcome>>

\* 00-acme.conf, with its public server, and the routes of either part.
Written(t) ==
    CASE t.part = "acme" -> [managed EXCEPT !["http"] = Serve(managed)["http"] \cup {Bootstrap}]
      [] t.part = "http" ->
            [managed EXCEPT !["http"] = t.preview["http"] \cup (Serve(managed)["http"] \cap {Bootstrap})]
      [] t.part = "stream" -> [managed EXCEPT !["stream"] = t.preview["stream"]]

\* A write that fails returns at once, whatever was written before it.
Write(h) ==
    /\ At(h, "write")
    /\ \/ /\ managed' = Written(task[h])
          /\ CASE task[h].op = "acme" -> Goto(h, "test", "-")
               [] task[h].op # "acme" /\ task[h].part = "acme" -> Goto(h, "write", "http")
               [] task[h].op # "acme" /\ task[h].part = "http" -> Goto(h, "write", "stream")
               [] task[h].op # "acme" /\ task[h].part = "stream" -> Goto(h, "look", "-")
          /\ UNCHANGED outcome
       \/ /\ "write" \in Faults
          /\ Ends(h, "failed")
          /\ UNCHANGED managed
    /\ UNCHANGED <<stateFile, certs, backups, manual, running, held, distro, now>>

\* _host_nginx_can_bind_public: who holds the public ports.  If another process
\* does, the distribution's site is parked; an error there is not caught.
Public == {80, 443}
Look(h) ==
    /\ At(h, "look")
    /\ \/ /\ held \cap Public = {} \/ "look" \in Faults
          /\ Goto(h, "test", "-")
          /\ UNCHANGED <<distro, outcome>>
       \/ /\ held \cap Public # {}
          /\ Goto(h, "hide", "-")
          /\ distro' = FALSE
          /\ UNCHANGED outcome
       \/ /\ held \cap Public # {} /\ "write" \in Faults
          /\ Ends(h, "failed")
          /\ UNCHANGED distro
    /\ UNCHANGED <<disk, running, held, now>>

\* And 00-acme.conf is written again, without its public server.
Hide(h) ==
    /\ At(h, "hide")
    /\ \/ /\ managed' = [managed EXCEPT !["http"] = Serve(managed)["http"] \ {Bootstrap}]
          /\ Goto(h, "test", "-")
          /\ UNCHANGED outcome
       \/ /\ "write" \in Faults
          /\ Ends(h, "failed")
          /\ UNCHANGED managed
    /\ UNCHANGED <<stateFile, certs, backups, manual, running, held, distro, now>>

\* apply restores its backup after a failure; the others only report it.
Fails(h, undo) ==
    IF task[h].op = "apply"
    THEN /\ task' = [task EXCEPT ![h].verb = "rm", ![h].part = "http", ![h].op = undo]
         /\ UNCHANGED outcome
    ELSE Ends(h, "failed")

\* Ports that are taken are no error to nginx -t.
Test(h) ==
    /\ At(h, "test")
    /\ \/ /\ Parses(Reads)
          /\ Goto(h, "reload", "-")
          /\ UNCHANGED outcome
       \/ /\ ~Parses(Reads) \/ "test" \in Faults
          /\ Fails(h, "undo")
    /\ UNCHANGED <<disk, running, held, distro, now>>

\* Mutant: an inactive nginx is signalled, not started, and that is success.
LoadsIfActive ==
    /\ Parses(Reads)
    /\ running' = IF running # Down /\ Binds THEN Reads ELSE running
\* systemctl start of an inactive unit fails if a port is taken.  systemctl reload
\* fails only if the files do not parse: an nginx that cannot bind a port keeps
\* what it runs, and the command has succeeded.
Loads ==
    /\ Parses(Reads)
    /\ running = Down => Binds
    /\ running' = IF Binds THEN Reads ELSE running
LoadFails ==
    /\ ~Parses(Reads) \/ (running = Down /\ ~Binds) \/ "reload" \in Faults
    /\ UNCHANGED running

\* POST service/reload loads the document only now, to note the time in it.
Reload(h) ==
    /\ At(h, "reload")
    /\ \/ /\ Loads
          /\ CASE task[h].op = "apply" -> Goto(h, "finish", "-") /\ UNCHANGED outcome
               [] task[h].op = "reload" ->
                    /\ task' = [task EXCEPT ![h].verb = "finish", ![h].doc = stateFile]
                    /\ UNCHANGED outcome
               [] OTHER -> Ends(h, "ok")
       \/ LoadFails /\ Fails(h, "undo_reload")
    /\ managed' = IF task[h].op = "rollback" THEN Ensured(managed) ELSE managed
    /\ UNCHANGED <<stateFile, certs, backups, manual, held, distro, now>>

\* The document is saved with the time of the apply; its result is ignored.
Finish(h) ==
    /\ At(h, "finish")
    /\ \/ stateFile' = task[h].doc
       \/ "write" \in Faults /\ UNCHANGED stateFile
    /\ Ends(h, "ok")
    /\ managed' = Ensured(managed)
    /\ UNCHANGED <<certs, backups, manual, running, held, distro, now>>

-----------------------------------------------------------------------------
(***************************************************************************)
(* Restoring: after a failed apply, and rollback_backup.                   *)
(***************************************************************************)

\* Mutant: the second rm -rf is forgotten, and its cp -a nests.
RemoveHttpOnly(h) ==
    /\ At(h, "rm")
    /\ managed' = [managed EXCEPT !["http"] = Absent]
    /\ IF task[h].part = "http" THEN Goto(h, "rm", "stream") ELSE Goto(h, "cp", "http")
    /\ UNCHANGED <<stateFile, certs, backups, manual, running, held, distro, now, outcome>>

Remove(h) ==
    /\ At(h, "rm")
    /\ managed' = [managed EXCEPT ![task[h].part] = Absent]
    /\ IF task[h].part = "http" THEN Goto(h, "rm", "stream") ELSE Goto(h, "cp", "http")
    /\ UNCHANGED <<stateFile, certs, backups, manual, running, held, distro, now, outcome>>

CopyBack(h) ==
    /\ At(h, "cp")
    /\ LET p == task[h].part
           last == p = "stream" /\ task[h].op = "undo"
       IN  /\ \E copy \in Copies(backups[task[h].bid].parts[p], managed[p]) :
                LET m == [managed EXCEPT ![p] = copy]
                IN  managed' = IF last THEN Ensured(m) ELSE m
           /\ IF last
              THEN Ends(h, "failed")
              ELSE /\ CASE p = "http" -> Goto(h, "cp", "stream")
                        [] p = "stream" /\ task[h].op = "rollback" -> Goto(h, "cp_doc", "-")
                        [] p = "stream" /\ task[h].op = "undo_reload" ->
                               Goto(h, "reload_again", "-")
                   /\ UNCHANGED outcome
    /\ UNCHANGED <<stateFile, certs, backups, manual, running, held, distro, now>>

ReloadAgain(h) ==
    /\ At(h, "reload_again")
    /\ Loads \/ LoadFails
    /\ Ends(h, "failed")
    /\ managed' = Ensured(managed)
    /\ UNCHANGED <<stateFile, certs, backups, manual, held, distro, now>>

\* The backups the panel lists, and the ids rollback_backup accepts: those
\* that are a date and a time.
Listed ==
    [kind : {"apply"}, at : {s \in Second : backups[s].taken}]
        \cup [kind : {"manual"}, at : manual]
Accepts(b) == b.kind = "apply"

Rollback(h, b) ==
    /\ b \in Listed /\ Accepts(b)
    /\ Begins(h, [NoTask EXCEPT !.verb = "rm", !.part = "http", !.op = "rollback",
                                !.bid = b.at])
    /\ UNCHANGED <<disk, running, held, distro, now>>

\* The document of the backup, if it has one, then the test and the reload.
CopyDoc(h) ==
    /\ At(h, "cp_doc")
    /\ LET d == backups[task[h].bid].doc
       IN  \/ stateFile' = IF d = Absent THEN stateFile ELSE d
           \/ "copy" \in Faults /\ UNCHANGED stateFile
    /\ Goto(h, "test", "-")
    /\ UNCHANGED <<managed, certs, backups, manual, running, held, distro, now, outcome>>

CreateBackup(h) ==
    /\ Idle(h)
    /\ now \in ManualSeconds \ manual
    /\ manual' = manual \cup {now}
    /\ managed' = Ensured(managed)
    /\ UNCHANGED <<stateFile, certs, backups, running, held, distro, now, task, outcome>>

-----------------------------------------------------------------------------
(***************************************************************************)
(* The other requests that test or reload, certificates, the environment.  *)
(***************************************************************************)

\* _ensure_acme_http: directories, 00-acme.conf with its public server whoever
\* holds the port, test, reload, without a rollback.
AcmeStart(h) ==
    /\ Begins(h, [NoTask EXCEPT !.verb = "dirs", !.op = "acme"])
    /\ UNCHANGED <<disk, running, held, distro, now>>

\* acme_renew, once certbot has returned and the log is written.
RenewStart(h) ==
    /\ Begins(h, [NoTask EXCEPT !.verb = "test", !.op = "renew"])
    /\ managed' = Ensured(managed)
    /\ UNCHANGED <<stateFile, certs, backups, manual, running, held, distro, now>>

ReloadStart(h) ==
    /\ Begins(h, [NoTask EXCEPT !.verb = "reload", !.op = "reload"])
    /\ UNCHANGED <<disk, running, held, distro, now>>

\* delete_certificate looks for routes that use the certificate, then removes
\* its files.
DeleteCert(h, c) ==
    /\ c \in certs
    /\ \A r \in stateFile : r.cert # c
    /\ Begins(h, [NoTask EXCEPT !.verb = "rm_cert", !.op = "delete_cert", !.cert = c])
    /\ UNCHANGED <<disk, running, held, distro, now>>

\* Mutant: the metadata survives the removal, and names no certificate.
RemoveCertHalf(h) ==
    /\ At(h, "rm_cert")
    /\ certs' = (certs \ {task[h].cert}) \cup {NoCert}
    /\ Ends(h, "ok")
    /\ managed' = Ensured(managed)
    /\ UNCHANGED <<stateFile, backups, manual, running, held, distro, now>>

RemoveCert(h) ==
    /\ At(h, "rm_cert")
    /\ certs' = certs \ {task[h].cert}
    /\ Ends(h, "ok")
    /\ managed' = Ensured(managed)
    /\ UNCHANGED <<stateFile, backups, manual, running, held, distro, now>>

\* service_action with restart and with stop: one command.
ServiceRestart(h) ==
    /\ Idle(h)
    /\ running' = Booted
    /\ managed' = Ensured(managed)
    /\ UNCHANGED <<stateFile, certs, backups, manual, held, distro, now, task, outcome>>
ServiceStop(h) ==
    /\ Idle(h)
    /\ running' = Down
    /\ managed' = Ensured(managed)
    /\ UNCHANGED <<stateFile, certs, backups, manual, held, distro, now, task, outcome>>

\* The panel dies, alone or with its host: the handlers are gone, the disk stays.
Crash ==
    /\ "crash" \in Faults
    /\ running' \in {running, Booted}
    /\ task' = [h \in Handler |-> NoTask]
    /\ outcome' = [h \in Handler |-> "none"]
    /\ UNCHANGED <<disk, held, distro, now>>

Tick ==
    /\ now < MaxSecond
    /\ now' = now + 1
    /\ UNCHANGED <<disk, running, held, distro, task, outcome>>

\* Between requests, other processes get ports nginx does not listen on, or give
\* some up.
Others ==
    /\ \A h \in Handler : Idle(h)
    /\ held' \in SUBSET HeldPort
    /\ running # Down => TcpPorts(running) \cap (held' \ held) = {}
    /\ UNCHANGED <<disk, running, distro, now, task, outcome>>

Request(h) ==
    \/ \E o \in {"save", "apply"} :
        \/ \E r \in RouteBody : Upsert(h, r, o)
        \/ \E r \in RouteBody : DeleteRoute(h, r.id, o)
    \/ \E b \in Listed : Rollback(h, b)
    \/ AcmeStart(h) \/ RenewStart(h) \/ ReloadStart(h)
    \/ ServiceRestart(h) \/ ServiceStop(h)
    \/ CreateBackup(h)
    \/ \E c \in Cert : DeleteCert(h, c)

Step(h) ==
    \/ Save(h) \/ Preview(h) \/ Dirs(h) \/ Backup(h) \/ BackupDoc(h) \/ Write(h)
    \/ Look(h) \/ Hide(h) \/ Test(h) \/ Reload(h) \/ Finish(h)
    \/ Remove(h) \/ CopyBack(h) \/ CopyDoc(h) \/ ReloadAgain(h) \/ RemoveCert(h)

Next ==
    \/ \E h \in Handler : Request(h) \/ Step(h)
    \/ Crash \/ Tick \/ Others

Spec == Init /\ [][Next]_vars

-----------------------------------------------------------------------------
(***************************************************************************)
(* Properties.                                                             *)
(***************************************************************************)

\* Whatever requests overlap, however stale the document they save and from
\* whichever backup it was restored: the saved document never holds two enabled
\* routes of which each would be refused because of the other.
SavedRoutesDoNotClash ==
    \A a, b \in stateFile : a.enabled /\ b.enabled => ~(Clash(a, b) /\ Clash(b, a))

Reports(h, result) == task[h].op # "none" /\ task'[h].op = "none" /\ outcome'[h] = result

\* A failed test or reload leaves the managed files as the apply found them, also
\* when it follows rollbacks, crashes and applies that never finished.
UndoRestores ==
    [][\A h \in Handler :
        task[h].op \in {"undo", "undo_reload"} /\ Reports(h, "failed")
        => Serve(managed') = Serve(task[h].was)]_vars

\* "On failure - restore backup and reload again", as the documentation has it: of
\* every failure.
FailedApplyRestores ==
    [][\A h \in Handler :
        task[h].op \in {"apply", "undo", "undo_reload"} /\ Reports(h, "failed")
        => Serve(managed') = Serve(task[h].was)]_vars

\* An apply that reports success made nginx serve what the panel shows, whatever
\* earlier failures and crashes left behind: missing directories, half of a
\* configuration, an incomplete backup, a stopped nginx, and also where another
\* process holds a public port, as long as it holds none of the routes' ports: of
\* those nobody is told more than that a public port stays with its process.
Routes(c) == [p \in Part |-> c[p] \ {Bootstrap, Distro}]
AppliedMeansServing ==
    [][\A h \in Handler :
        task[h].op = "apply" /\ Reports(h, "ok") /\ TcpPorts(Render(stateFile')) \cap held = {}
        => running # Down /\ Routes(running) = Render(stateFile')]_vars

\* "Backups are listed in the UI; you can roll back explicitly."
ListedBackupsRollBack == \A b \in Listed : Accepts(b)
=============================================================================
