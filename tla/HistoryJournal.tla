--------------------------- MODULE HistoryJournal ---------------------------
(***************************************************************************)
(* The journal of SSH and WireGuard connections: the background worker      *)
(* samples the connections that are up, opens a row for a new one, closes   *)
(* the row of one that is gone, and prunes rows by age.                     *)
(*                                                                         *)
(* The worker is one task and the only writer, and a sample is one commit:  *)
(* a step.  Any sample may not happen: not due yet, switched off with its   *)
(* module or its recording, without a collector, or ended by an exception.  *)
(* Snapshots of counters, which nothing refers to, are left out.            *)
(***************************************************************************)
EXTENDS Integers, FiniteSets

CONSTANTS
    Session,   \* keys of SSH sessions
    PeerKey,   \* public keys of WireGuard peers
    MaxTime,   \* bound: the clock
    Retention  \* retention_days, in the unit of the clock

Conn == Session \cup PeerKey
Offline == -1

VARIABLES
    time,
    since,   \* per connection its start or latest handshake, or Offline
    rows,    \* the tables of connection events
    seen,    \* connections in the last sample of their kind
    pruned   \* of these, the ones whose open row was deleted since

vars == <<time, since, rows, seen, pruned>>

Kinds == {"ssh", "wireguard"}
Of(kind) == IF kind = "ssh" THEN Session ELSE PeerKey

Init ==
    /\ time = 0 /\ since = [k \in Conn |-> Offline]
    /\ rows = {} /\ seen = {} /\ pruned = {}

Live(kind) == {k \in Of(kind) : since[k] # Offline}
OpenOf(k) == {r \in rows : r.key = k /\ r.status = "active"}
Opened(k) == [key |-> k, status |-> "active", start |-> since[k], end |-> -1]

\* Mutant: the row of a connection that is gone stays open.
SampledWithoutClosing(kind) ==
    rows \cup {Opened(k) : k \in {c \in Live(kind) : OpenOf(c) = {}}}

Sampled(kind) ==
    LET gone == UNION {OpenOf(k) : k \in Of(kind) \ Live(kind)}
    IN  (rows \ gone) \cup {[r EXCEPT !.status = "closed", !.end = time] : r \in gone}
            \cup {Opened(k) : k \in {c \in Live(kind) : OpenOf(c) = {}}}

persist_history(kind) ==
    /\ rows' = Sampled(kind)
    /\ seen' = (seen \ Of(kind)) \cup Live(kind)
    /\ pruned' = pruned \ Of(kind)
    /\ UNCHANGED <<time, since>>

\* Rows go by their start, the open ones too.
cleanup_old_metrics ==
    /\ LET old == {r \in rows : r.start < time - Retention} IN
        /\ rows' = rows \ old
        /\ pruned' = pruned \cup {r.key : r \in {o \in old : o.status = "active"}}
    /\ UNCHANGED <<time, since, seen>>

Tick == time < MaxTime /\ time' = time + 1 /\ UNCHANGED <<since, rows, seen, pruned>>

\* A connection starts or, for a peer, renews its handshake.
Contact(k) ==
    /\ since[k] = Offline \/ (k \in PeerKey /\ since[k] # time)
    /\ since' = [since EXCEPT ![k] = time]
    /\ UNCHANGED <<time, rows, seen, pruned>>

Leave(k) ==
    /\ since[k] # Offline
    /\ since' = [since EXCEPT ![k] = Offline]
    /\ UNCHANGED <<time, rows, seen, pruned>>

Next ==
    \/ \E kind \in Kinds : persist_history(kind)
    \/ \E k \in Conn : Contact(k) \/ Leave(k)
    \/ cleanup_old_metrics \/ Tick

Spec == Init /\ [][Next]_vars

----------------------------------------------------------------------------
TypeOK ==
    /\ time \in 0..MaxTime /\ since \in [Conn -> -1..MaxTime]
    /\ seen \subseteq Conn /\ pruned \subseteq seen
    /\ \A r \in rows : r.key \in Conn /\ r.start \in 0..MaxTime /\ r.end \in -1..MaxTime

\* A connection has one open row exactly if the last sample of its kind saw it,
\* but for rows the cleanup took, whatever was switched off or down in between;
\* and the visits of a connection that the journal tells of do not overlap.
JournalMatchesSample ==
    /\ \A k \in Conn : Cardinality(OpenOf(k)) = IF k \in seen \ pruned THEN 1 ELSE 0
    /\ \A r, q \in rows : r.key = q.key /\ r.status = "closed" /\ r # q
                            => q.start >= r.end \/ (q.status = "closed" /\ r.start >= q.end)
=============================================================================
