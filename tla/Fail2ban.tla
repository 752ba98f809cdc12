------------------------------ MODULE Fail2ban ------------------------------
(***************************************************************************)
(* One jail of fail2ban as the panel manages it (collectors/fail2ban.py):  *)
(* what the server has in memory, changed with fail2ban-client, and the    *)
(* drop-in the panel keeps in jail.d, from which a reload starts again.    *)
(* Requests await every command and take no lock; a command may fail.      *)
(*                                                                         *)
(* Abstracted: validation and the normal form of times and addresses; the  *)
(* bans, which no file of the panel holds.                                 *)
(***************************************************************************)
EXTENDS Naturals, FiniteSets

CONSTANTS
    Handler,  \* requests that may be in progress at once
    Params,   \* how many of bantime, findtime, maxretry there are
    Value,    \* values a request may give them
    Addr,     \* entries of a whitelist
    Cidr,     \* those that are an address or a network, not the name of a host
    Shipped,  \* jail.conf: [params, ignore]
    None

VARIABLES
    service,  \* the package and its unit
    runtime,  \* the jail in the memory of the server
    dropin,   \* jail.d/99-lnxadmin-<jail>.local
    job,      \* the requests
    sole      \* the request that has had no other beside it

vars == <<service, runtime, dropin, job, sole>>

Param == 1..Params
NoChange == [p \in Param |-> None]
Idle == [at |-> "idle", op |-> "none", want |-> NoChange, done |-> {}, persist |-> FALSE,
         addr |-> None, fetched |-> FALSE, text |-> None, before |-> None, kept |-> FALSE]

Jail == [params : [Param -> Value \union {Shipped.params[p] : p \in Param}], ignore : SUBSET Addr]
DropIn == [params : [Param -> Value \union {None}], ignore : SUBSET Cidr]

TypeOK ==
    /\ service \in {"absent", "stopped", "running"}
    /\ runtime \in Jail /\ dropin \in DropIn /\ sole \subseteq Handler
    /\ \A h \in Handler :
        /\ job[h].at \in {"idle", "set", "fetch", "write", "reload", "unit"}
        /\ job[h].text \in DropIn \union {None} /\ job[h].done \subseteq Param

\* What a reload makes of the files: an empty whitelist is no override.
Loaded(d) ==
    [params |-> [p \in Param |-> IF d.params[p] = None THEN Shipped.params[p] ELSE d.params[p]],
     ignore |-> IF d.ignore = {} THEN Shipped.ignore ELSE d.ignore]

Init ==
    /\ service \in {"absent", "running"}
    /\ dropin = [params |-> NoChange, ignore |-> {}] /\ runtime = Loaded(dropin)
    /\ job = [h \in Handler |-> Idle] /\ sole = {}

-----------------------------------------------------------------------------
\* A request that comes alone remembers what it found, for the property below.
Starts(h, j) ==
    LET alone == \A o \in Handler : job[o].at = "idle"
        found == [runtime |-> runtime, dropin |-> dropin]
    IN  /\ job[h].at = "idle"
        /\ job' = [o \in Handler |->
              IF o = h THEN [j EXCEPT !.before = IF alone THEN found ELSE None]
              ELSE [job[o] EXCEPT !.before = None]]
        /\ sole' = IF alone THEN {h} ELSE {}
        /\ UNCHANGED <<service, runtime, dropin>>
Goes(h, j) == job' = [job EXCEPT ![h] = j] /\ UNCHANGED sole
Ends(h, kept) ==
    job' = [job EXCEPT ![h] = [Idle EXCEPT !.kept = kept]] /\ sole' = sole \ {h}

SetParams(h, want, persist) ==
    /\ want # NoChange
    /\ Starts(h, [Idle EXCEPT !.at = "set", !.op = "params", !.want = want, !.persist = persist])
ChangeIgnore(h, op, a) ==
    Starts(h, [Idle EXCEPT !.at = "set", !.op = op, !.addr = a])
Reload(h) == Starts(h, [Idle EXCEPT !.at = "reload", !.op = "reload"])
Unit(h, op) == Starts(h, [Idle EXCEPT !.at = "unit", !.op = op])

-----------------------------------------------------------------------------
\* Mutant: the drop-in is written anew from what the request brings.
MergeAnew(d, want, list) ==
    [params |-> want, ignore |-> IF list = None THEN {} ELSE list]
\* _persist_jail_params up to its first await.
Merge(d, want, list) ==
    [params |-> [p \in Param |-> IF want[p] = None THEN d.params[p] ELSE want[p]],
     ignore |-> IF list = None THEN d.ignore ELSE list]
ToWrite(h, want, list) ==
    Goes(h, [job[h] EXCEPT !.at = "write", !.text = Merge(dropin, want, list)])

\* One after the other; the last of them goes on to the file, or ends.
ParamSet(h) ==
    LET todo == {p \in Param : job[h].want[p] # None} \ job[h].done
        p == CHOOSE q \in todo : \A r \in todo : q <= r
    IN  /\ job[h].at = "set" /\ job[h].op = "params" /\ service = "running"
        /\ runtime' = [runtime EXCEPT !.params[p] = job[h].want[p]]
        /\ IF todo # {p} THEN Goes(h, [job[h] EXCEPT !.done = @ \union {p}])
           ELSE IF job[h].persist THEN ToWrite(h, job[h].want, None)
           ELSE Ends(h, FALSE)
        /\ UNCHANGED <<service, dropin>>

IgnoreSet(h) ==
    /\ job[h].at = "set" /\ job[h].op \in {"add", "del"} /\ service = "running"
    /\ runtime' = [runtime EXCEPT !.ignore =
          IF job[h].op = "add" THEN @ \union {job[h].addr} ELSE @ \ {job[h].addr}]
    /\ Goes(h, [job[h] EXCEPT !.at = "fetch"]) /\ UNCHANGED <<service, dropin>>

\* _fetch_ignoreip: a list that cannot be had is an empty one, and names of hosts
\* are dropped from it.
Fetch(h) ==
    /\ job[h].at = "fetch"
    /\ \E fetched \in {service = "running", FALSE} :
        LET current == IF fetched THEN runtime.ignore \cap Cidr ELSE {}
            list == IF job[h].op = "add" THEN current \union {job[h].addr}
                    ELSE current \ {job[h].addr}
        IN  Goes(h, [job[h] EXCEPT !.at = "write", !.fetched = fetched,
                                   !.text = Merge(dropin, NoChange, list)])
    /\ UNCHANGED <<service, runtime, dropin>>

Write(h) ==
    /\ job[h].at = "write"
    /\ dropin' = job[h].text
    /\ IF job[h].op = "params" THEN Goes(h, [job[h] EXCEPT !.at = "reload"]) ELSE Ends(h, TRUE)
    /\ UNCHANGED <<service, runtime>>

\* The result of the reload that follows a write is not looked at.
ReloadEnds(h) ==
    /\ job[h].at = "reload"
    /\ Ends(h, job[h].op = "params")
    /\ \/ service = "running" /\ runtime' = Loaded(dropin)
       \/ UNCHANGED runtime
    /\ UNCHANGED <<service, dropin>>

\* systemctl, and the installation, which starts the unit.
UnitEnds(h) ==
    /\ job[h].at = "unit"
    /\ \/ job[h].op = "install" /\ service = "absent" /\ service' \in {"stopped", "running"}
       \/ job[h].op = "stop" /\ service = "running" /\ service' = "stopped"
       \/ job[h].op \in {"start", "restart"} /\ service # "absent" /\ service' = "running"
    /\ runtime' = IF service' = "running" /\ (service # "running" \/ job[h].op = "restart")
                  THEN Loaded(dropin) ELSE runtime
    /\ Ends(h, FALSE) /\ UNCHANGED dropin

\* A command fails: what was set before it stays set, and is not undone.
Fails(h) ==
    /\ job[h].at \in {"set", "write", "unit"}
    /\ Ends(h, FALSE) /\ UNCHANGED <<service, runtime, dropin>>

Next ==
    \E h \in Handler :
        \/ \E want \in [Param -> Value \union {None}], persist \in BOOLEAN :
            SetParams(h, want, persist)
        \/ \E op \in {"add", "del"}, a \in Cidr : ChangeIgnore(h, op, a)
        \/ Reload(h)
        \/ \E op \in {"install", "start", "stop", "restart"} : Unit(h, op)
        \/ ParamSet(h) \/ IgnoreSet(h) \/ Fetch(h) \/ Write(h)
        \/ ReloadEnds(h) \/ UnitEnds(h) \/ Fails(h)

-----------------------------------------------------------------------------
\* What the drop-in d holds after request j was answered as persisted.
Survives(j, d) ==
    LET was == j.before.dropin.params
        whitelist == (j.before.runtime.ignore \cap Cidr) \ {j.addr}
        next == Loaded(d)
    IN  /\ \A p \in Param : d.params[p] = IF j.want[p] = None THEN was[p] ELSE j.want[p]
        /\ j.op = "params" => d.ignore = j.before.dropin.ignore
        /\ j.op = "add" => j.addr \in next.ignore
        /\ j.op = "del" => j.addr \notin next.ignore \/ d.ignore = {}
        /\ j.fetched => whitelist \subseteq next.ignore

\* "so reload/restart keeps panel changes": a request that had no other beside it
\* and is answered as persisted has put into the drop-in what it asked for, and
\* took from it nothing that another request had put there; the addresses and
\* networks of the whitelist in force before it survive the next reload, if the
\* list could be fetched.  Not the names of hosts in it: _normalize_ignoreip_list
\* drops them, so the first change of a whitelist takes them out at the reload.
PanelChangesSurvive ==
    [][\A h \in sole :
        job[h].at # "idle" /\ job'[h].at = "idle" /\ job'[h].kept => Survives(job[h], dropin')
      ]_vars
=============================================================================
