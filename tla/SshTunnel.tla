----------------------------- MODULE SshTunnel ------------------------------
(***************************************************************************)
(* The SSH tunnel module: accounts that may do nothing but forward ports,  *)
(* known to three places that no transaction joins: the passwd file, the   *)
(* registry (one JSON file per user, with its destinations) and            *)
(* authorized_keys, where every line repeats the destinations next to a    *)
(* key.                                                                    *)
(*                                                                         *)
(* Requests are coroutines and take no lock.  A step is the code up to the *)
(* result of the command that changes something; the chown and chmod next  *)
(* to it, whose failures are ignored, are part of it.                      *)
(*                                                                         *)
(* Abstracted: a set of destinations is a value of Permit (normalised: see *)
(* TunnelPorts); a key comes with its type and its comment; which keys the  *)
(* text of a request matches, a fingerprint or a beginning of some.        *)
(***************************************************************************)
CONSTANTS
    Handler,  \* requests that may be in progress at once
    User,     \* names with the prefix of the module
    Permit,   \* sets of destinations
    Key,      \* public keys, each with its comment
    ReadBack, \* per key what its line is read as: another, if the comment names a type
    None

VARIABLES
    infra,    \* the group exists and the drop-in of sshd is written
    account,  \* the user is in the passwd file
    meta,     \* <data_dir>/<user>.json: the destinations
    auth,     \* authorized_keys: the destinations and the keys of its lines
    job,      \* the requests
    sole      \* the request that has had no other beside it

vars == <<infra, account, meta, auth, job, sole>>

Lines == [permit : Permit, keys : SUBSET Key]
Idle == [at |-> "idle", op |-> "none", user |-> None, permit |-> None, key |-> None,
         keys |-> {}, before |-> {}, gone |-> {}, home |-> FALSE, ok |-> FALSE]

TypeOK ==
    /\ infra \in BOOLEAN /\ account \in [User -> BOOLEAN]
    /\ meta \in [User -> Permit \union {None}]
    /\ auth \in [User -> Lines \union {None}]
    /\ job \in [Handler ->
          [at : {"idle", "infra", "useradd", "register", "userdel", "rm", "keygen",
                 "fingerprint", "rewrite", "save"},
           op : {"none", "ensure", "create", "delete", "set", "add", "remove"},
           user : User \union {None}, permit : Permit \union {None}, key : Key \union {None},
           keys : SUBSET Key, before : SUBSET Key, gone : SUBSET Key, home : BOOLEAN,
           ok : BOOLEAN]]
    /\ sole \subseteq Handler

Init ==
    /\ infra = FALSE /\ account = [u \in User |-> FALSE]
    /\ meta = [u \in User |-> None] /\ auth = [u \in User |-> None]
    /\ job = [h \in Handler |-> Idle] /\ sole = {}

-----------------------------------------------------------------------------
\* _read_authorized_keys: a file that cannot be read has no keys; of a line whose
\* comment names a key type, what follows that is taken for the key.
KeysOf(u) == IF auth[u] = None THEN {} ELSE {ReadBack[k] : k \in auth[u].keys}

Known(u) == meta[u] # None /\ account[u]

Starts(h, j) ==
    LET others == {k \in Handler \ {h} : job[k].at # "idle"}
    IN  /\ job[h].at = "idle"
        /\ job' = [job EXCEPT ![h] = [j EXCEPT !.before =
                                         IF j.user = None THEN {} ELSE KeysOf(j.user)]]
        /\ sole' = IF others = {} THEN {h} ELSE {}
        /\ UNCHANGED <<infra, account, meta, auth>>
Goes(h, at) == job' = [job EXCEPT ![h].at = at] /\ UNCHANGED sole
Ends(h, ok) == job' = [job EXCEPT ![h] = [Idle EXCEPT !.ok = ok]] /\ sole' = sole \ {h}

EnsureInfra(h) == Starts(h, [Idle EXCEPT !.at = "infra", !.op = "ensure"])

CreateUser(h, u, p) ==
    /\ ~account[u] /\ meta[u] = None
    /\ Starts(h, [Idle EXCEPT !.at = "infra", !.op = "create", !.user = u, !.permit = p])

DeleteUser(h, u) ==
    /\ account[u] \/ meta[u] # None
    /\ Starts(h, [Idle EXCEPT !.at = IF account[u] THEN "userdel" ELSE "rm",
                              !.op = "delete", !.user = u, !.home = account[u]])

\* The keys are read before the first await, and written back after it.
SetDestinations(h, u, p) ==
    /\ Known(u)
    /\ Starts(h, [Idle EXCEPT !.at = "rewrite", !.op = "set", !.user = u, !.permit = p,
                              !.keys = KeysOf(u)])

\* The registry is read before ssh-keygen tells the fingerprint, the keys after.
AddPublicKey(h, u, k) ==
    /\ Known(u)
    /\ Starts(h, [Idle EXCEPT !.at = "fingerprint", !.op = "add", !.user = u,
                              !.permit = meta[u], !.key = k])

\* A new key pair is made first, and its public half added like any other.
GenerateKeypair(h, u, k) ==
    /\ \A v \in User : auth[v] # None => k \notin auth[v].keys
    /\ Starts(h, [Idle EXCEPT !.at = "keygen", !.op = "add", !.user = u, !.key = k])

\* Every key that matches is removed, and a beginning may be that of several.
RemovePublicKey(h, u, gone) ==
    /\ Known(u) /\ gone # {} /\ gone \subseteq KeysOf(u)
    /\ Starts(h, [Idle EXCEPT !.at = "rewrite", !.op = "remove", !.user = u,
                              !.permit = meta[u], !.gone = gone, !.keys = KeysOf(u) \ gone])

-----------------------------------------------------------------------------
InfraDone(h) ==
    /\ job[h].at = "infra"
    /\ infra' = TRUE
    /\ IF job[h].op = "ensure" THEN Ends(h, TRUE) ELSE Goes(h, "useradd")
    /\ UNCHANGED <<account, meta, auth>>

\* useradd refuses a name that was taken in between.
UserAdd(h) ==
    /\ job[h].at = "useradd"
    /\ ~account[job[h].user]
    /\ account' = [account EXCEPT ![job[h].user] = TRUE]
    /\ Goes(h, "register") /\ UNCHANGED <<infra, meta, auth>>

Register(h) ==
    /\ job[h].at = "register"
    /\ meta' = [meta EXCEPT ![job[h].user] = job[h].permit]
    /\ Goes(h, "rewrite") /\ UNCHANGED <<infra, account, auth>>

\* userdel -r takes the home directory with it, or fails at that, with the account
\* gone: then its keys stay, and a second request removes the registry's file only.
UserDel(h) ==
    LET u == job[h].user
    IN  /\ job[h].at = "userdel" /\ account[u]
        /\ account' = [account EXCEPT ![u] = FALSE]
        /\ auth' = [auth EXCEPT ![u] = None]
        /\ IF meta[u] # None THEN Goes(h, "rm") ELSE Ends(h, TRUE)
        /\ UNCHANGED <<infra, meta>>

UserDelHalf(h) ==
    /\ job[h].at = "userdel" /\ account[job[h].user]
    /\ account' = [account EXCEPT ![job[h].user] = FALSE]
    /\ Ends(h, FALSE) /\ UNCHANGED <<infra, meta, auth>>

RemoveMeta(h) ==
    /\ job[h].at = "rm"
    /\ meta' = [meta EXCEPT ![job[h].user] = None]
    /\ Ends(h, TRUE) /\ UNCHANGED <<infra, account, auth>>

\* What ssh-keygen wrote is read like any other line.
KeygenDone(h) ==
    /\ job[h].at = "keygen" /\ Known(job[h].user)
    /\ job' = [job EXCEPT ![h].at = "fingerprint", ![h].permit = meta[job[h].user],
                          ![h].key = ReadBack[job[h].key]]
    /\ UNCHANGED <<infra, account, meta, auth, sole>>

FingerprintDone(h) ==
    LET existing == KeysOf(job[h].user)
    IN  /\ job[h].at = "fingerprint" /\ job[h].key \notin existing
        /\ job' = [job EXCEPT ![h].at = "rewrite", ![h].keys = existing \union {job[h].key}]
        /\ UNCHANGED <<infra, account, meta, auth, sole>>

\* Mutant: the destinations are written when they are saved.
RewriteOldPermit(h) == IF meta[job[h].user] = None THEN job[h].permit ELSE meta[job[h].user]
Written(h) == job[h].permit

\* install gives the file to the user, and fails if there is none.  A new user's
\* registry file is already there; the others save theirs after this.
Rewrite(h) ==
    LET u == job[h].user
    IN  /\ job[h].at = "rewrite" /\ account[u]
        /\ auth' = [auth EXCEPT ![u] = [permit |-> Written(h), keys |-> job[h].keys]]
        /\ IF job[h].op = "create" THEN Ends(h, TRUE) ELSE Goes(h, "save")
        /\ UNCHANGED <<infra, account, meta>>

\* The document that was read at the start is saved, with another date.
Save(h) ==
    /\ job[h].at = "save"
    /\ meta' = [meta EXCEPT ![job[h].user] = job[h].permit]
    /\ Ends(h, TRUE) /\ UNCHANGED <<infra, account, auth>>

\* A command fails, or the state has changed under the request.  The drop-in that
\* sshd -t refuses stays.  Adding and removing a key does not look at the result
\* of the save.
Fails(h) ==
    /\ job[h].at # "idle"
    /\ infra' \in {infra, infra \/ job[h].at = "infra"}
    /\ Ends(h, job[h].at = "save" /\ job[h].op # "set")
    /\ UNCHANGED <<account, meta, auth>>

Crash ==
    /\ job' = [h \in Handler |-> Idle] /\ sole' = {}
    /\ UNCHANGED <<infra, account, meta, auth>>

Next ==
    \/ \E h \in Handler :
          \/ EnsureInfra(h)
          \/ \E u \in User :
                \/ DeleteUser(h, u)
                \/ \E p \in Permit : CreateUser(h, u, p) \/ SetDestinations(h, u, p)
                \/ \E k \in Key : AddPublicKey(h, u, k) \/ GenerateKeypair(h, u, k)
                \/ \E gone \in SUBSET Key : RemovePublicKey(h, u, gone)
          \/ InfraDone(h) \/ UserAdd(h) \/ Register(h) \/ UserDel(h) \/ UserDelHalf(h)
          \/ RemoveMeta(h)
          \/ KeygenDone(h) \/ FingerprintDone(h) \/ Rewrite(h) \/ Save(h) \/ Fails(h)
    \/ Crash

Spec == Init /\ [][Next]_vars

-----------------------------------------------------------------------------
\* The keys that a user has after a request of which nothing was in the way.
Expected(j) ==
    CASE j.op = "create" -> {}
      [] j.op = "set" -> j.before
      [] j.op = "add" -> j.before \union {j.key}
      [] j.op = "remove" -> j.before \ j.gone

\* A request that nobody overlaps and that is answered ok without a warning has
\* done all of it, whatever failed or overlapped before: a deleted user is gone
\* from the passwd file and the registry, and so are the keys of the account that
\* was there to delete; any other user may open exactly what the registry says,
\* with the keys the panel read in its file, less those that the text of the
\* request matches, and the one that was asked for, as its line is read.  A key
\* whose comment names a key type is read as another: that one it is not kept for.
LoneAnswersHold ==
    [][\A h \in sole : LET j == job[h] IN
          j.at # "idle" /\ job'[h].ok /\ j.user # None =>
             IF j.op = "delete"
               THEN /\ ~account'[j.user] /\ meta'[j.user] = None
                    /\ j.home => auth'[j.user] = None
               ELSE /\ account'[j.user]
                    /\ auth'[j.user] = [permit |-> meta'[j.user], keys |-> Expected(j)]
                    /\ j.op \in {"create", "set"} => meta'[j.user] = j.permit]_vars
=============================================================================
