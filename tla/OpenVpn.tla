------------------------------ MODULE OpenVpn -------------------------------
(***************************************************************************)
(* The OpenVPN module: the server document, one JSON file per client, the  *)
(* PKI made with openssl, the files in client-config-dir (CCD) and the     *)
(* daemon that reads them.                                                 *)
(*                                                                         *)
(* Requests are coroutines and take no lock.  A step is the code up to the *)
(* result of the next command; where the code finds a file made and runs no *)
(* command for it, the step is there all the same and changes nothing.  A  *)
(* refused request is not a step.                                          *)
(*                                                                         *)
(* Abstracted: a server document is a value of Meta; of a client, whether  *)
(* it is enabled stands for all that its CCD file says; names that differ  *)
(* in case only are one name; the NAT rule, whose failures are ignored,    *)
(* and the tls-crypt key, which one command makes, are left out.           *)
(***************************************************************************)
CONSTANTS
    Handler,  \* requests that may be in progress at once
    Client,   \* the identifiers token_hex may return
    Name,     \* client names
    Meta,     \* server documents
    None      \* no such file

\* The subject of the server's own certificate, among the names of the clients,
\* and the name whose private key would be the file ca.key.
Server == "server"
Ca == "ca"
Subject == Name \union {Server}

VARIABLES
    meta,       \* server.json
    files,      \* clients/<id>.json: name and enabled
    ca,         \* ca.key and ca.crt: the request whose openssl wrote each, or Ca
    pair,       \* per subject: the key, the signing request and the certificate
    ccd,        \* ccd/<name>: the client's enabled flag it was built from
    conf,       \* the daemon's configuration: the document it was built from
    running,    \* what the daemon was last started with
    job,        \* the requests
    sole,       \* the request that has had no other beside it
    overlapped  \* whether two requests ever overlapped

disk == <<meta, files>>
pki == <<ca, pair>>
system == <<ccd, conf, running>>
vars == <<disk, pki, system, job, sole, overlapped>>

File == [name : Name, enabled : BOOLEAN]
NoPair == [key |-> FALSE, csr |-> FALSE, crt |-> "none"]
\* A certificate matches, or is one of another key or of another CA.
PairType == [key : BOOLEAN, csr : BOOLEAN, crt : {"none", "match", "other"}]
Idle == [at |-> "idle", op |-> "none", subject |-> Server, meta |-> None, left |-> {}]

TypeOK ==
    /\ meta \in Meta \union {None}
    /\ files \in [Client -> File \union {None}]
    /\ ca \in [key : Handler \union {None, Ca}, crt : Handler \union {None}]
    /\ pair \in [Subject -> PairType]
    /\ ccd \in [Name -> BOOLEAN \union {None}]
    /\ {conf, running} \subseteq Meta \union {None}
    /\ job \in [Handler ->
          [at : {"idle", "ca", "ca.crt", "key", "crt", "client key", "client crt", "save", "list", "ccd", "conf",
                 "restart", "stop"},
           op : {"none", "server", "create", "push", "stop"}, subject : Subject,
           meta : Meta \union {None}, left : SUBSET File]]
    /\ sole \subseteq Handler
    /\ overlapped \in BOOLEAN

Init ==
    /\ meta = None /\ files = [i \in Client |-> None]
    /\ ca = [key |-> None, crt |-> None] /\ pair = [s \in Subject |-> NoPair]
    /\ ccd = [n \in Name |-> None] /\ conf = None /\ running = None
    /\ job = [h \in Handler |-> Idle]
    /\ sole = {} /\ overlapped = FALSE

-----------------------------------------------------------------------------
Clients == {i \in Client : files[i] # None}
NameTaken(n) == \E i \in Clients : files[i].name = n

\* The request h starts, at its first command.
Starts(h, at, op, subject, m) ==
    LET others == {k \in Handler \ {h} : job[k].at # "idle"}
    IN  /\ job[h].at = "idle"
        /\ job' = [job EXCEPT ![h] = [Idle EXCEPT !.at = at, !.op = op, !.subject = subject,
                                                 !.meta = m]]
        /\ sole' = IF others = {} THEN {h} ELSE {}
        /\ overlapped' = (overlapped \/ others # {})

Goes(h, at) ==
    /\ job' = [job EXCEPT ![h].at = at]
    /\ UNCHANGED <<sole, overlapped>>
Ends(h) ==
    /\ job' = [job EXCEPT ![h] = Idle]
    /\ sole' = sole \ {h} /\ UNCHANGED overlapped

\* apply_server reads the document before the PKI is looked after.
Pushes(h) ==
    /\ job' = [job EXCEPT ![h] = [Idle EXCEPT !.at = "ca", !.op = "push", !.meta = meta]]
    /\ UNCHANGED <<sole, overlapped>>

SetUpServer(h, m) ==
    /\ Starts(h, "ca", "server", Server, m)
    /\ UNCHANGED <<disk, pki, system>>

CreateClient(h, n) ==
    /\ meta # None /\ ~NameTaken(n)
    /\ Starts(h, "ca", "create", n, None)
    /\ UNCHANGED <<disk, pki, system>>

ApplyServer(h) ==
    /\ meta # None
    /\ Starts(h, "ca", "push", Server, meta)
    /\ UNCHANGED <<disk, pki, system>>

\* An update that does not apply is answered in the step that saves.
UpdateClient(h, i, enabled) ==
    /\ i \in Clients
    /\ files' = [files EXCEPT ![i].enabled = enabled]
    /\ \/ Starts(h, "ca", "push", Server, meta)
       \/ job[h].at = "idle" /\ sole' = {} /\ UNCHANGED <<job, overlapped>>
    /\ UNCHANGED <<meta, pki, system>>

\* The CCD file goes with the client; its certificate stays.
DeleteClient(h, i) ==
    /\ i \in Clients
    /\ files' = [files EXCEPT ![i] = None]
    /\ ccd' = [ccd EXCEPT ![files[i].name] = None]
    /\ Starts(h, "ca", "push", files[i].name, meta)
    /\ UNCHANGED <<meta, pki, conf, running>>

StopServer(h) ==
    /\ Starts(h, "stop", "stop", Server, None)
    /\ UNCHANGED <<disk, pki, system>>

-----------------------------------------------------------------------------
(* _ensure_pki and _issue_client_cert.  openssl writes the key before the *)
(* certificate; what it has written stays when the request fails.         *)
HasCa == ca.key # None /\ ca.crt # None

HasKey(s) == IF s = Ca THEN ca.key # None ELSE pair[s].key
HasPair(s) == HasKey(s) /\ pair[s].crt # "none"

EnsureCa(h) ==
    /\ job[h].at = "ca"
    /\ IF HasCa
         THEN Goes(h, "key") /\ UNCHANGED ca
         ELSE Goes(h, "ca.crt") /\ ca' = [ca EXCEPT !.key = h]
    /\ UNCHANGED <<disk, pair, system>>

\* Certificates of a CA that is replaced are worth nothing.
WriteCa(h) ==
    /\ job[h].at = "ca.crt"
    /\ ca' = [ca EXCEPT !.crt = h]
    /\ pair' = [s \in Subject |-> IF pair[s].crt = "none" THEN pair[s]
                                  ELSE [pair[s] EXCEPT !.crt = "other"]]
    /\ Goes(h, "key") /\ UNCHANGED <<disk, system>>

\* The server's pair is looked after first, then that of the client created.
Certified(h) == IF job[h].at \in {"key", "crt"} THEN Server ELSE job[h].subject

\* The next thing to do once the pair is there.
AfterPair(h) ==
    CASE job[h].op = "push" -> "list"
      [] job[h].op = "create" /\ job[h].at \in {"key", "crt"} -> "client key"
      [] OTHER -> "save"

\* The private key of a client named "ca" is written over that of the CA.
EnsureKey(h) ==
    LET s == Certified(h)
    IN  /\ job[h].at \in {"key", "client key"}
        /\ IF HasPair(s)
             THEN Goes(h, AfterPair(h)) /\ UNCHANGED pki
             ELSE /\ Goes(h, IF s = Server THEN "crt" ELSE "client crt")
                  /\ pair' = [pair EXCEPT ![s] =
                        [key |-> s # Ca, csr |-> TRUE,
                         crt |-> IF @.crt = "none" THEN "none" ELSE "other"]]
                  /\ ca' = IF s = Ca THEN [ca EXCEPT !.key = Ca] ELSE ca
        /\ UNCHANGED <<disk, system>>

\* openssl signs with the key that belongs to ca.crt only; the signing request goes
\* away with the first signature.
Sign(h) ==
    LET s == Certified(h)
    IN  /\ job[h].at \in {"crt", "client crt"}
        /\ ca.key = ca.crt /\ pair[s].csr
        /\ pair' = [pair EXCEPT ![s] = [@ EXCEPT !.csr = FALSE, !.crt = "match"]]
        /\ Goes(h, AfterPair(h))
        /\ UNCHANGED <<disk, ca, system>>

-----------------------------------------------------------------------------
SaveServer(h) ==
    /\ job[h].at = "save" /\ job[h].op = "server"
    /\ meta' = job[h].meta
    /\ Ends(h)
    /\ UNCHANGED <<files, pki, system>>

\* A new client is enabled; body.apply chooses whether it is applied.
SaveClient(h, i) ==
    /\ job[h].at = "save" /\ job[h].op = "create"
    /\ files[i] = None
    /\ files' = [files EXCEPT ![i] = [name |-> job[h].subject, enabled |-> TRUE]]
    /\ Pushes(h) \/ Ends(h)
    /\ UNCHANGED <<meta, pki, system>>

\* Mutant: disabled clients are left out.
EnabledFiles == {f \in {files[i] : i \in Clients} : f.enabled}
ClientsRaw == {files[i] : i \in Clients}

ListClients(h) ==
    /\ job[h].at = "list"
    /\ job' = [job EXCEPT ![h].at = "ccd", ![h].left = ClientsRaw]
    /\ UNCHANGED <<disk, pki, system, sole, overlapped>>

\* One file after the other, from the list that was read.
WriteCcd(h) ==
    /\ job[h].at = "ccd"
    /\ \E f \in job[h].left :
          /\ ccd' = [ccd EXCEPT ![f.name] = f.enabled]
          /\ job' = [job EXCEPT ![h].left = @ \ {f}]
    /\ UNCHANGED <<disk, pki, conf, running, sole, overlapped>>

WriteConf(h) ==
    /\ job[h].at = "ccd" /\ job[h].left = {}
    /\ conf' = job[h].meta
    /\ Goes(h, "restart")
    /\ UNCHANGED <<disk, pki, ccd, running>>

\* The daemon starts with the configuration of now, if its certificate serves.
Restart(h) ==
    /\ job[h].at = "restart"
    /\ pair[Server].crt = "match"
    /\ running' = conf /\ Ends(h)
    /\ UNCHANGED <<disk, pki, ccd, conf>>

RestartFails(h) ==
    /\ job[h].at = "restart"
    /\ running' = None /\ Ends(h)
    /\ UNCHANGED <<disk, pki, ccd, conf>>

Stopped(h) ==
    /\ job[h].at = "stop"
    /\ running' = None /\ Ends(h)
    /\ UNCHANGED <<disk, pki, ccd, conf>>

\* A command fails, or the body is refused, which a client's routes are after its
\* certificate is signed.  A client's signing request goes, the server's stays.
Fails(h) ==
    /\ job[h].at \notin {"idle", "restart"}
    /\ Ends(h)
    /\ pair' = IF job[h].at = "client crt" THEN [pair EXCEPT ![Certified(h)].csr = FALSE]
               ELSE pair
    /\ UNCHANGED <<disk, ca, system>>

\* The panel dies; the daemon is systemd's.
Crash ==
    /\ job' = [h \in Handler |-> Idle]
    /\ sole' = {} /\ UNCHANGED <<disk, pki, system, overlapped>>

Next ==
    \/ \E h \in Handler :
          \/ \E m \in Meta : SetUpServer(h, m)
          \/ \E n \in Name : CreateClient(h, n)
          \/ \E i \in Client : \/ \E b \in BOOLEAN : UpdateClient(h, i, b)
                               \/ DeleteClient(h, i)
                               \/ SaveClient(h, i)
          \/ ApplyServer(h) \/ StopServer(h) \/ EnsureCa(h) \/ WriteCa(h) \/ EnsureKey(h)
          \/ Sign(h) \/ SaveServer(h) \/ ListClients(h) \/ WriteCcd(h) \/ WriteConf(h)
          \/ Restart(h) \/ RestartFails(h) \/ Stopped(h) \/ Fails(h)
    \/ Crash

Spec == Init /\ [][Next]_vars

-----------------------------------------------------------------------------
\* The daemon runs the document, and the CCD file of every client whose name is
\* its own says what the client's file says.
Pushed ==
    /\ running = meta
    /\ \A i \in Clients :
          (\A k \in Clients \ {i} : files[k].name # files[i].name)
             => ccd[files[i].name] = files[i].enabled

\* Keys and certificates belong together, and all that the documents need is
\* there.  Of the CA that is so until a client is named "ca", which no check
\* refuses: from then on nothing can be signed, and what was signed still serves.
PkiServes ==
    /\ HasCa => ca.key \in {ca.crt, Ca}
    /\ \A s \in Subject : HasPair(s) => pair[s].crt = "match"
    /\ meta # None => HasCa /\ HasPair(Server)
    /\ \A i \in Clients : HasPair(files[i].name)

\* A request that nobody overlaps and that is answered "applied" has brought the
\* daemon and the CCD files up to the documents, whatever overlapped, failed or
\* crashed before; and while no two requests ever overlapped, failures and
\* crashes never leave a PKI that does not serve, but for a CA that can sign
\* nothing more after a client was to be named "ca".
LoneAnswersHold ==
    [][/\ \A h \in sole : Restart(h) => Pushed'
       /\ ~overlapped' => PkiServes']_vars

\* The daemon takes every certificate of its CA, unless the CCD file says
\* "disable": the configuration asks for no CCD file and names no revocation list.
Admits(n) == running # None /\ pair[n].crt = "match" /\ ccd[n] # FALSE

\* What the comment in delete_client says: the missing CCD file disables a client
\* that was deleted, once the server is applied.
DeletedIsDisabled ==
    [][\A h \in sole, n \in Name :
          Restart(h) /\ job[h].subject = n => ~Admits(n)']_vars
=============================================================================
