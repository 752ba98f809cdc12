----------------------------- MODULE CertStore ------------------------------
(***************************************************************************)
(* The certificates of the nginx edge: a folder with fullchain.pem and     *)
(* privkey.pem and a document per certificate, filled by uploads, PFX       *)
(* files, signing requests and the import of what certbot keeps in          *)
(* /etc/letsencrypt/live.                                                   *)
(*                                                                          *)
(* Requests are coroutines and take no lock: a step is the code up to the   *)
(* result of the next command.  certbot is a process of its own, which goes *)
(* on when the request that started it has given up, and which its timer    *)
(* starts as well.                                                         *)
(*                                                                          *)
(* Abstracted: key pairs are numbers, a chain and a key belong together if  *)
(* they have one number; there is one lineage; names, dates and the account *)
(* are left out.  What the issuing of a certificate does to nginx is in     *)
(* NginxEdge.                                                              *)
(***************************************************************************)
EXTENDS Naturals

CONSTANTS
    Handler,    \* requests that may be in progress at once
    Id,         \* the identifiers _new_id may return
    MaxVersion, \* key pairs
    None        \* no identifier

VARIABLES
    live,   \* the lineage: the key pair of its chain and of its key, 0 for none
    store,  \* per identifier the same of the files in its folder
    meta,   \* per identifier the kind of its document
    used,   \* the certificates that routes name
    task,   \* the requests
    doomed  \* the certificates that a request began to delete

vars == <<live, store, meta, used, task, doomed>>

Pem == 1..MaxVersion
Pair == [chain : 0..MaxVersion, key : 0..MaxVersion]
Empty == [chain |-> 0, key |-> 0]
Idle == [at |-> "idle", op |-> "none", id |-> None, pair |-> Empty]

TypeOK ==
    /\ live \in Pair /\ store \in [Id -> Pair]
    /\ meta \in [Id -> {"none", "upload", "csr", "letsencrypt", "nameless"}]
    /\ {used, doomed} \subseteq SUBSET Id
    /\ task \in [Handler ->
          [at : {"idle", "pfx", "certbot", "read chain", "read key", "verify", "chain", "key", "meta",
                 "source", "csr", "rm files", "rm meta"},
           op : {"none", "upload", "import", "csr", "delete"}, id : Id \union {None}, pair : Pair]]

Init ==
    /\ live = Empty /\ store = [i \in Id |-> Empty] /\ meta = [i \in Id |-> "none"]
    /\ used = {} /\ doomed = {} /\ task = [h \in Handler |-> Idle]

-----------------------------------------------------------------------------
Starts(h, t) == task[h].at = "idle" /\ task' = [task EXCEPT ![h] = t]
Goes(h, at) == task' = [task EXCEPT ![h].at = at]
Ends(h) == task' = [task EXCEPT ![h] = Idle]

\* No file and no request has the identifier.
Fresh(i) == store[i] = Empty /\ meta[i] = "none" /\ \A h \in Handler : task[h].id # i

\* The body of an upload.
Upload(h, c, k) ==
    /\ Starts(h, [Idle EXCEPT !.at = "verify", !.op = "upload", !.pair = [chain |-> c, key |-> k]])
    /\ UNCHANGED <<live, store, meta, used, doomed>>

\* openssl finds a certificate and a key in a PFX file, which are then uploaded.
ImportPfx(h) ==
    /\ Starts(h, [Idle EXCEPT !.at = "pfx", !.op = "upload"])
    /\ UNCHANGED <<live, store, meta, used, doomed>>
ReadPfx(h) ==
    /\ task[h].at = "pfx"
    /\ \E c, k \in Pem :
          task' = [task EXCEPT ![h].at = "verify", ![h].pair = [chain |-> c, key |-> k]]
    /\ UNCHANGED <<live, store, meta, used, doomed>>

AcmeIssue(h) ==
    /\ Starts(h, [Idle EXCEPT !.at = "certbot", !.op = "import"])
    /\ UNCHANGED <<live, store, meta, used, doomed>>

GenerateCsr(h) ==
    /\ Starts(h, [Idle EXCEPT !.at = "csr", !.op = "csr"])
    /\ UNCHANGED <<live, store, meta, used, doomed>>

\* The routes are looked at before the first command.
DeleteCertificate(h, i) ==
    /\ meta[i] # "none" /\ i \notin used
    /\ Starts(h, [Idle EXCEPT !.at = "rm files", !.op = "delete", !.id = i])
    /\ doomed' = doomed \union {i}
    /\ UNCHANGED <<live, store, meta, used>>

\* A route names a certificate, or no longer does; nobody looks whether it exists.
UpsertRoute(i) ==
    /\ used' = IF i \in used THEN used \ {i} ELSE used \union {i}
    /\ UNCHANGED <<live, store, meta, task, doomed>>

-----------------------------------------------------------------------------
(* certbot: it moves the link to the key before the link to the chain. *)
RenewKey ==
    /\ live.key = live.chain /\ live.key < MaxVersion
    /\ live' = [live EXCEPT !.key = @ + 1]
    /\ UNCHANGED <<store, meta, used, task, doomed>>
RenewChain ==
    /\ live.key # live.chain
    /\ live' = [live EXCEPT !.chain = live.key]
    /\ UNCHANGED <<store, meta, used, task, doomed>>

\* The import reads the chain and the key one after the other.
CertbotDone(h) ==
    /\ task[h].at = "certbot" /\ Goes(h, "read chain")
    /\ UNCHANGED <<live, store, meta, used, doomed>>
ReadChain(h) ==
    /\ task[h].at = "read chain" /\ live.chain # 0
    /\ task' = [task EXCEPT ![h].at = "read key", ![h].pair.chain = live.chain]
    /\ UNCHANGED <<live, store, meta, used, doomed>>
ReadKey(h) ==
    /\ task[h].at = "read key"
    /\ task' = [task EXCEPT ![h].at = "verify", ![h].pair.key = live.key]
    /\ UNCHANGED <<live, store, meta, used, doomed>>

\* Mutant: certificate and key are taken as they come.
MatchAny(p) == p.chain # 0
Match(p) == p.chain = p.key

VerifyCertKey(h) ==
    /\ task[h].at = "verify"
    /\ IF Match(task[h].pair) THEN Goes(h, "chain") ELSE Ends(h)
    /\ UNCHANGED <<live, store, meta, used, doomed>>

WriteChain(h) ==
    /\ task[h].at = "chain"
    /\ \E i \in {i \in Id : Fresh(i)} :
          /\ store' = [store EXCEPT ![i].chain = task[h].pair.chain]
          /\ task' = [task EXCEPT ![h].at = "key", ![h].id = i]
    /\ UNCHANGED <<live, meta, used, doomed>>
WriteKey(h) ==
    /\ task[h].at = "key"
    /\ store' = [store EXCEPT ![task[h].id].key = task[h].pair.key]
    /\ Goes(h, "meta") /\ UNCHANGED <<live, meta, used, doomed>>

\* A signing request gets a key of its own; whether it is written is not looked at.
WriteCsr(h) ==
    /\ task[h].at = "csr"
    /\ \E i \in {i \in Id : Fresh(i)}, k \in {0} \union Pem :
          /\ store' = [store EXCEPT ![i].key = k]
          /\ task' = [task EXCEPT ![h].at = "meta", ![h].id = i]
    /\ UNCHANGED <<live, meta, used, doomed>>

\* The result of the write is not looked at.
WriteMeta(h) ==
    LET t == task[h]
    IN  /\ t.at = "meta"
        /\ \E done \in BOOLEAN :
              meta' = IF ~done THEN meta
                      ELSE [meta EXCEPT ![t.id] = IF t.op = "csr" THEN "csr" ELSE "upload"]
        /\ IF t.op = "import" THEN Goes(h, "source") ELSE Ends(h)
        /\ UNCHANGED <<live, store, used, doomed>>

\* The document is read and written again, with its source: what is not there
\* becomes a document without a name, which is not listed.
WriteSource(h) ==
    LET i == task[h].id
    IN  /\ task[h].at = "source"
        /\ \E done \in BOOLEAN :
              meta' = IF ~done THEN meta
                      ELSE [meta EXCEPT ![i] = IF @ \in {"none", "nameless"} THEN "nameless"
                                               ELSE "letsencrypt"]
        /\ Ends(h) /\ UNCHANGED <<live, store, used, doomed>>

\* Neither removal is looked at.
RemoveFiles(h) ==
    /\ task[h].at = "rm files"
    /\ \E done \in BOOLEAN :
          store' = IF done THEN [store EXCEPT ![task[h].id] = Empty] ELSE store
    /\ Goes(h, "rm meta") /\ UNCHANGED <<live, meta, used, doomed>>
RemoveMeta(h) ==
    /\ task[h].at = "rm meta"
    /\ \E done \in BOOLEAN :
          meta' = IF done THEN [meta EXCEPT ![task[h].id] = "none"] ELSE meta
    /\ Ends(h) /\ UNCHANGED <<live, store, used, doomed>>

\* A command whose result counts fails; a lineage without files is answered ok.
Fails(h) ==
    /\ task[h].at \in {"pfx", "certbot", "read chain", "read key", "verify", "chain", "key", "csr"}
    /\ Ends(h) /\ UNCHANGED <<live, store, meta, used, doomed>>

Crash ==
    /\ task' = [h \in Handler |-> Idle]
    /\ UNCHANGED <<live, store, meta, used, doomed>>

Next ==
    \/ \E h \in Handler :
          \/ \E c, k \in Pem : Upload(h, c, k)
          \/ \E i \in Id : DeleteCertificate(h, i)
          \/ ImportPfx(h) \/ ReadPfx(h)
          \/ AcmeIssue(h) \/ GenerateCsr(h) \/ CertbotDone(h) \/ ReadChain(h) \/ ReadKey(h)
          \/ VerifyCertKey(h) \/ WriteChain(h) \/ WriteKey(h) \/ WriteCsr(h) \/ WriteMeta(h)
          \/ WriteSource(h) \/ RemoveFiles(h) \/ RemoveMeta(h) \/ Fails(h)
    \/ \E i \in Id : UpsertRoute(i)
    \/ RenewKey \/ RenewChain \/ Crash

Spec == Init /\ [][Next]_vars

-----------------------------------------------------------------------------
\* A certificate that the panel lists, and that nobody began to delete, has a
\* chain and the key of it: whatever certbot renews while it is imported, and
\* whichever write fails or is never reached.
ListedServes ==
    \A i \in Id \ doomed :
        meta[i] \in {"upload", "letsencrypt"} => store[i].chain # 0 /\ store[i].chain = store[i].key
=============================================================================
