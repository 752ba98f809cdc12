--------------------------- MODULE SettingsStore ----------------------------
(***************************************************************************)
(* PUT /api/settings: up to five read-merge-write rounds over the three     *)
(* documents of the table app_settings, each round a query and a commit of  *)
(* its own, so that requests interleave and fail between any two of them.   *)
(* A document that was never written reads as its defaults.                 *)
(*                                                                         *)
(* The PostgreSQL switch is stored twice, as modules.postgres.enabled and   *)
(* as postgres_monitor.enabled; the panel shows the conjunction.  Every     *)
(* other key of a document is one field here (name, rest).                  *)
(***************************************************************************)
EXTENDS Naturals

CONSTANTS
    Saver,       \* requests in flight
    Value,       \* contents of the other keys
    Secret,      \* passwords of the monitor
    Mask,        \* PASSWORD_MASK, which the panel shows for a password
    Unset,       \* an absent field; the default of a key
    SaveRequest  \* bodies of PUT /api/settings

Switch == BOOLEAN \cup {Unset}
SettingsUpdate ==
    [name : Value \cup {Unset}, pg : Switch, rest : Value \cup {Unset},
     on : Switch, pwd : Secret \cup {Mask, Unset}]

VARIABLES
    doc,     \* the documents, defaults filled in
    saver    \* per request its body, the rounds ahead and the document it read

vars == <<doc, saver>>

Idle == [body |-> Unset, todo |-> {}, seen |-> Unset, lone |-> TRUE]
Init ==
    /\ doc = [name |-> Unset, pg |-> TRUE, rest |-> Unset, on |-> TRUE, pwd |-> Unset]
    /\ saver = [c \in Saver |-> Idle]

\* The keys of the document that a round reads and writes.
Keys == [app |-> {"name"}, modules |-> {"pg", "rest"}, sync |-> {"on", "pwd"},
         monitor |-> {"on", "pwd"}, back |-> {"pg", "rest"}]

\* The order of the rounds in the handler.
Rank == [app |-> 1, modules |-> 2, sync |-> 3, monitor |-> 4, back |-> 5]

Wanted(b) ==
    [app |-> b.name # Unset, modules |-> {b.pg, b.rest} # {Unset}, sync |-> b.pg # Unset,
     monitor |-> {b.on, b.pwd} # {Unset}, back |-> b.on # Unset]

\* Mutant: saving the monitor does not carry the switch back to the modules.
RoundsWithoutBack(b) == {r \in {"app", "modules", "sync", "monitor"} : Wanted(b)[r]}

\* The rounds a body asks for.
Rounds(b) == {r \in {"app", "modules", "sync", "monitor", "back"} : Wanted(b)[r]}

\* The round that is next of those ahead.
First(todo) == CHOOSE r \in todo : \A q \in todo : Rank[r] <= Rank[q]

deep_merge(old, new) == IF new = Unset THEN old ELSE new

\* What the form sends back for a password it did not change keeps the stored one.
_merge_password(new, old) == IF new \in {Mask, Unset} THEN old ELSE new

\* The document that round r of body b writes, from the one it read.
Patched(r, b, seen) ==
    CASE r = "app" -> [name |-> b.name]
      [] r = "modules" -> [pg |-> deep_merge(seen.pg, b.pg),
                           rest |-> deep_merge(seen.rest, b.rest)]
      [] r = "sync" -> [seen EXCEPT !.on = b.pg]
      [] r = "monitor" -> [on |-> deep_merge(seen.on, b.on),
                           pwd |-> _merge_password(b.pwd, seen.pwd)]
      [] r = "back" -> [seen EXCEPT !.pg = b.on]

Busy == {c \in Saver : saver[c].todo # {}}

Accept(c, b) ==
    /\ c \notin Busy /\ Rounds(b) # {}
    /\ saver' = [k \in Saver |->
            IF k = c THEN [body |-> b, todo |-> Rounds(b), seen |-> Unset, lone |-> Busy = {}]
            ELSE [saver[k] EXCEPT !.lone = k \notin Busy]]
    /\ UNCHANGED doc

get_setting(c) ==
    /\ c \in Busy /\ saver[c].seen = Unset
    /\ saver' = [saver EXCEPT ![c].seen = [k \in Keys[First(saver[c].todo)] |-> doc[k]]]
    /\ UNCHANGED doc

set_setting(c) ==
    LET s == saver[c]
        r == First(s.todo)
        new == Patched(r, s.body, s.seen)
    IN  /\ c \in Busy /\ s.seen # Unset
        /\ doc' = [k \in DOMAIN doc |-> IF k \in DOMAIN new THEN new[k] ELSE doc[k]]
        /\ saver' = [saver EXCEPT ![c] =
                IF s.todo = {r} THEN Idle ELSE [s EXCEPT !.todo = @ \ {r}, !.seen = Unset]]

\* A missing right, a folder that cannot be mounted, a query that fails, a crash:
\* the rounds that were committed stay.
Abort(c) ==
    /\ c \in Busy
    /\ saver' = [saver EXCEPT ![c] = Idle]
    /\ UNCHANGED doc

Next ==
    \E c \in Saver :
        \/ \E b \in SaveRequest : Accept(c, b)
        \/ get_setting(c) \/ set_setting(c) \/ Abort(c)

Spec == Init /\ [][Next]_vars

----------------------------------------------------------------------------
TypeOK ==
    /\ doc \in [name : Value \cup {Unset}, pg : BOOLEAN, rest : Value \cup {Unset},
                on : BOOLEAN, pwd : Secret \cup {Unset}]
    /\ \A c \in Busy : saver[c].body \in SaveRequest

Shown == doc.pg /\ doc.on

\* A save that nobody overlapped shows what it asked for and leaves the password of
\* the monitor alone unless it carries one, from every state that aborted and
\* overlapping saves have left behind, the two copies of the switch included.
LoneSaveShows ==
    [][\A c \in Saver :
        LET b == saver[c].body IN
        set_setting(c) /\ saver[c].lone =>
            /\ doc'.pwd = IF b.pwd \in Secret /\ First(saver[c].todo) = "monitor"
                         THEN b.pwd ELSE doc.pwd
            /\ saver[c].todo = {First(saver[c].todo)} =>
                /\ b.name # Unset => doc'.name = b.name
                /\ b.rest # Unset => doc'.rest = b.rest
                /\ b.on # Unset => Shown' = b.on
                /\ b.on = Unset /\ b.pg # Unset => Shown' = b.pg]_vars
=============================================================================
