----------------------------- MODULE MetricsHub -----------------------------
(***************************************************************************)
(* The WebSocket hub and the background worker that broadcasts to it.       *)
(*                                                                         *)
(* A section under the hub's lock does not suspend, so connect reads the    *)
(* latest payload and calls send_text in the step that enters the set, and  *)
(* frames reach a socket in the order of the calls.  A broadcast suspends   *)
(* at every socket that is not drained; nothing bounds that wait.           *)
(***************************************************************************)
EXTENDS Naturals, FiniteSets

CONSTANTS
    Viewer,   \* WebSocket clients
    MaxFrame  \* bound: payloads collected between two starts

VARIABLES
    latest,   \* the last payload, counted from 1; 0 for none
    clients,  \* the hub's set
    got,      \* per client the last frame written to its socket
    round,   \* the background task: its round, or off
    todo,     \* clients the broadcast has not written to yet
    blocked   \* the client whose socket the broadcast waits for, if any

vars == <<latest, clients, got, round, todo, blocked>>

Init ==
    /\ latest = 0 /\ clients = {} /\ got = [c \in Viewer |-> 0]
    /\ round = "off" /\ todo = {} /\ blocked = {}

\* Mutant: the set is entered by the next round, after the first frame was sent.
ConnectLate(c) ==
    /\ c \notin clients
    /\ clients' = IF got[c] = 0 THEN clients ELSE clients \cup {c}
    /\ got' = [got EXCEPT ![c] = IF @ = 0 THEN latest ELSE @]
    /\ UNCHANGED <<latest, round, todo, blocked>>

connect(c) ==
    /\ c \notin clients
    /\ clients' = clients \cup {c}
    /\ got' = [got EXCEPT ![c] = latest]
    /\ UNCHANGED <<latest, round, todo, blocked>>

\* The endpoint sees the socket close, or a frame cannot be written.  What the
\* broadcast still sends to it raises and has no effect.
disconnect(c) ==
    /\ c \in clients
    /\ clients' = clients \ {c} /\ got' = [got EXCEPT ![c] = 0]
    /\ todo' = todo \ {c} /\ blocked' = blocked \ {c}
    /\ UNCHANGED <<latest, round>>

broadcast ==
    /\ round = "round" /\ latest < MaxFrame
    /\ latest' = latest + 1 /\ todo' = clients /\ round' = "sending"
    /\ UNCHANGED <<clients, got, blocked>>

\* A socket takes the frame at once, or when its client has drained it.
send_text(c) ==
    /\ round = "sending" /\ c \in todo /\ blocked = {}
    /\ todo' = todo \ {c}
    /\ got' = [got EXCEPT ![c] = latest]
    /\ blocked' \in {{}, {c}}
    /\ UNCHANGED <<latest, clients, round>>

Drain ==
    /\ blocked # {} /\ blocked' = {}
    /\ UNCHANGED <<latest, clients, got, round, todo>>

\* The rest of the round: the journal and the wait, or an exception.
RoundEnds ==
    /\ round = "sending" /\ todo = {} /\ blocked = {}
    /\ round' = "round"
    /\ UNCHANGED <<latest, clients, got, todo, blocked>>

\* start returns at once while a task lives.
start ==
    /\ round = "off" /\ round' = "round"
    /\ UNCHANGED <<latest, clients, got, todo, blocked>>

\* stop sets the event and waits for the round that runs; the process ends.
stop ==
    /\ round = "round"
    /\ round' = "off" /\ latest' = 0 /\ clients' = {} /\ got' = [c \in Viewer |-> 0]
    /\ UNCHANGED <<todo, blocked>>

Next ==
    \/ \E c \in Viewer : connect(c) \/ disconnect(c) \/ send_text(c)
    \/ broadcast \/ Drain \/ RoundEnds \/ start \/ stop

Spec == Init /\ [][Next]_vars

----------------------------------------------------------------------------
TypeOK ==
    /\ latest \in 0..MaxFrame /\ clients \subseteq Viewer /\ got \in [Viewer -> 0..MaxFrame]
    /\ round \in {"off", "round", "sending"}
    /\ todo \subseteq Viewer /\ blocked \subseteq Viewer /\ Cardinality(blocked) <= 1

\* Whoever connected, left or stalled while a broadcast ran: a client the
\* broadcast is done with has been given the latest payload, also the one that
\* entered the set after the broadcast had copied it.
ClientsUpToDate == \A c \in clients \ todo : got[c] = latest
=============================================================================
