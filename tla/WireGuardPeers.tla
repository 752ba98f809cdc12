--------------------------- MODULE WireGuardPeers ---------------------------
(***************************************************************************)
(* The WireGuard module: the registry of peers (one JSON file each), the  *)
(* server's JSON file, the interface file in /etc/wireguard and the       *)
(* interface wg-quick brings up from it.                                   *)
(*                                                                         *)
(* Requests are coroutines of one event loop and take no lock.  A step is *)
(* the code between two awaits that really suspend: what a handler reads  *)
(* and writes without a command in between is one step, a command that    *)
(* changes the system takes effect in the step that receives its result.  *)
(* A refused request changes nothing and is not a step.                    *)
(*                                                                         *)
(* Abstracted: keys, ports, DNS and routes; one interface and one subnet; *)
(* a name stands for its lower-case form.  An identifier may be given     *)
(* again after its peer was deleted, which keeps the model finite.         *)
(***************************************************************************)
CONSTANTS
    Handler,    \* requests that may be in progress at once
    Peer,       \* the identifiers token_hex may return
    Name,       \* peer names
    Address,    \* host addresses of the subnet
    NoAddress,  \* no address: the server is not configured
    NoPeer,     \* no readable file for this identifier
    NoConf      \* no interface file, or the interface is down

Record == [name : Name, address : Address, enabled : BOOLEAN]

\* What an interface file says of the peers: the address of each one it has.
Table == UNION {[S -> Address] : S \in SUBSET Peer}

ASSUME ValuesAssumption ==
    /\ NoAddress \notin Address
    /\ NoPeer \notin Record
    /\ NoConf \notin Table

VARIABLES
    solo,     \* whether requests come one at a time; never changes
    server,   \* the server's address in server.json
    peers,    \* the peers' files
    conf,     \* the interface file
    running,  \* the table the interface was brought up with
    excused,  \* the interface may be down: see DownIsExplained
    pc,       \* where each request is suspended
    local     \* what it has read and still uses

disk == <<server, peers>>
system == <<conf, running, excused>>
vars == <<solo, server, peers, conf, running, excused, pc, local>>

\* A request before its first step holds nothing.
Nothing == [name |-> "", server |-> NoAddress, table |-> NoConf]

Registered == {p \in Peer : peers[p] # NoPeer}

\* _build_server_conf: the enabled peers with their addresses.
ServerConf(registry) ==
    LET enabled == {p \in Peer : registry[p] # NoPeer /\ registry[p].enabled}
    IN  [p \in enabled |-> registry[p].address]

\* Mutant: a disabled peer keeps its address only until somebody wants it.
UsedByEnabled(registry, exclude) ==
    {registry[p].address :
        p \in {q \in Peer \ exclude : registry[q] # NoPeer /\ registry[q].enabled}}

\* _used_peer_ips: the addresses of all peers but one, disabled ones too.
UsedAddresses(registry, exclude) ==
    {registry[p].address : p \in {q \in Peer \ exclude : registry[q] # NoPeer}}

\* _normalize_client_address, _next_client_address: the hosts of the subnet that
\* are not in use may be asked for, and the first of them is the default.
Assignable(used) == Address \ used

NameTaken(name, exclude) ==
    \E p \in Registered \ exclude : peers[p].name = name

Idle(h) == pc[h] = "idle"

\* A request is accepted.  When requests come one at a time, after the last.
Accept(h) ==
    /\ Idle(h)
    /\ solo => \A k \in Handler : Idle(k)

Return(h) ==
    /\ pc' = [pc EXCEPT ![h] = "idle"]
    /\ local' = [local EXCEPT ![h] = Nothing]

\* apply_server up to its first await: it reads every file and has the text.
BeginApply(h, registry) ==
    /\ pc' = [pc EXCEPT ![h] = "write"]
    /\ local' = [local EXCEPT ![h] =
                    [Nothing EXCEPT !.table = ServerConf(registry)]]

\* Mutant: the peers are read for the interface file before the save.
ApplyThenSave(h, registry) ==
    /\ peers' = registry
    /\ BeginApply(h, peers) \/ Return(h)
    /\ UNCHANGED <<solo, server, system>>

\* The end of a handler that saved: body.apply chooses.
SaveThen(h, registry) ==
    /\ peers' = registry
    /\ BeginApply(h, registry) \/ Return(h)
    /\ UNCHANGED <<solo, server, system>>

Init ==
    /\ solo \in BOOLEAN
    /\ server = NoAddress
    /\ peers = [p \in Peer |-> NoPeer]
    /\ conf = NoConf
    /\ running = NoConf
    /\ excused = TRUE
    /\ pc = [h \in Handler |-> "idle"]
    /\ local = [h \in Handler |-> Nothing]
-----------------------------------------------------------------------------
\* The requests that change the registry.

\* create_or_update_server: no peer is consulted when the address changes.
SaveServer(h, a) ==
    /\ Accept(h)
    /\ server' = a
    /\ UNCHANGED <<solo, peers, system, pc, local>>

\* create_peer until it awaits the keys: the server file is read, the name
\* is new.  The directories exist once the server was saved.
CreatePeer(h, name) ==
    /\ Accept(h)
    /\ server # NoAddress
    /\ ~NameTaken(name, {})
    /\ pc' = [pc EXCEPT ![h] = "keys"]
    /\ local' = [local EXCEPT ![h] =
                    [Nothing EXCEPT !.name = name, !.server = server]]
    /\ UNCHANGED <<solo, disk, system>>

\* The keys are there: an address is chosen and the peer saved, in one go,
\* under the server address and the name read before.  The address is the one
\* the body asks for or else the first free one: some free address.
SavePeer(h, p) ==
    LET used == UsedAddresses(peers, {}) \union {local[h].server}
    IN  /\ pc[h] = "keys"
        /\ peers[p] = NoPeer
        /\ \E a \in Assignable(used) :
            SaveThen(h, [peers EXCEPT ![p] =
                    [name |-> local[h].name, address |-> a, enabled |-> TRUE]])

\* No keys, an address in use, or no free address.
CreateFails(h) ==
    /\ pc[h] = "keys"
    /\ Return(h)
    /\ UNCHANGED <<solo, disk, system>>

\* Mutant: an address the body asks for is only compared with the server's.
UpdateToAnyAddress(h, p, new) ==
    /\ Accept(h)
    /\ server # NoAddress
    /\ p \in Registered
    /\ new.name # peers[p].name => ~NameTaken(new.name, {p})
    /\ new.address # server
    /\ SaveThen(h, [peers EXCEPT ![p] = new])

\* update_peer never awaits before it has saved.  A field equal to the old
\* one is a field the body leaves out.
UpdatePeer(h, p, new) ==
    LET old == peers[p]
        used == UsedAddresses(peers, {p}) \union {server}
    IN  /\ Accept(h)
        /\ server # NoAddress
        /\ p \in Registered
        /\ new.name # old.name => ~NameTaken(new.name, {p})
        /\ new.address # old.address => new.address \in Assignable(used)
        /\ SaveThen(h, [peers EXCEPT ![p] = new])

\* delete_peer; without a server there is nothing to apply.
DeletePeer(h, p) ==
    /\ Accept(h)
    /\ p \in Registered
    /\ peers' = [peers EXCEPT ![p] = NoPeer]
    /\ IF server = NoAddress THEN Return(h) ELSE BeginApply(h, peers')
    /\ UNCHANGED <<solo, server, system>>
-----------------------------------------------------------------------------
\* apply_server and stop_server.

Apply(h) ==
    /\ Accept(h)
    /\ server # NoAddress
    /\ BeginApply(h, peers)
    /\ UNCHANGED <<solo, disk, system>>

\* Mutant: the interface is brought down first, and a failed write ends there.
WriteConfAfterDown(h) ==
    /\ pc[h] = "write"
    /\ \/ /\ conf' = local[h].table
          /\ pc' = [pc EXCEPT ![h] = "down"]
          /\ local' = [local EXCEPT ![h] = Nothing]
       \/ /\ conf' = conf
          /\ Return(h)
    /\ running' = NoConf
    /\ UNCHANGED <<solo, disk, excused>>

\* install replaces the interface file; when it fails the request ends, and
\* after a timeout the file may have been replaced all the same.
WriteConf(h) ==
    /\ pc[h] = "write"
    /\ \/ /\ conf' = local[h].table
          /\ pc' = [pc EXCEPT ![h] = "down"]
          /\ local' = [local EXCEPT ![h] = Nothing]
       \/ /\ conf' \in {conf, local[h].table}
          /\ Return(h)
    /\ UNCHANGED <<solo, disk, running, excused>>

\* wg-quick down, whose result nobody looks at.
Down(h) ==
    /\ pc[h] = "down"
    /\ running' \in {NoConf, running}
    /\ pc' = [pc EXCEPT ![h] = "up"]
    /\ UNCHANGED <<solo, disk, conf, excused, local>>

\* wg-quick up loads the file as it is now; it fails if the interface exists.
Up(h) ==
    /\ pc[h] = "up"
    /\ running = NoConf
    /\ running' = conf
    /\ excused' = FALSE
    /\ pc' = [pc EXCEPT ![h] = "applied"]
    /\ UNCHANGED <<solo, disk, conf, local>>

\* It fails, or runs into its timeout with the interface up.
UpFails(h) ==
    /\ pc[h] = "up"
    /\ running' \in IF running = NoConf THEN {NoConf, conf} ELSE {running}
    /\ excused' = (running' = NoConf)
    /\ Return(h)
    /\ UNCHANGED <<solo, disk, conf>>

\* The unit is enabled and the status read; "applied" is returned.
Applied(h) ==
    /\ pc[h] = "applied"
    /\ Return(h)
    /\ UNCHANGED <<solo, disk, system>>

\* stop_server: the interface goes down because someone asked.
StopServer(h) ==
    /\ Accept(h)
    /\ running # NoConf
    /\ running' = NoConf
    /\ excused' = TRUE
    /\ UNCHANGED <<solo, disk, conf, pc, local>>
-----------------------------------------------------------------------------
\* The panel dies with every request; the interface stays as it is.
Halt ==
    /\ pc' = [h \in Handler |-> "idle"]
    /\ local' = [h \in Handler |-> Nothing]
    /\ excused' = (running = NoConf)
    /\ UNCHANGED <<solo, conf, running>>

Crash == Halt /\ UNCHANGED disk

\* Files are rewritten in place: the one that was being saved may be left
\* unreadable, which reads as absent.
CrashInSave ==
    /\ \E h \in Handler : Accept(h)
    /\ Halt
    /\ \/ /\ server' = NoAddress
          /\ UNCHANGED peers
       \/ /\ \E p \in Registered : peers' = [peers EXCEPT ![p] = NoPeer]
          /\ UNCHANGED server

Request(h) ==
    \/ \E a \in Address : SaveServer(h, a)
    \/ \E name \in Name : CreatePeer(h, name)
    \/ \E p \in Peer : SavePeer(h, p)
    \/ CreateFails(h)
    \/ \E p \in Peer, new \in Record : UpdatePeer(h, p, new)
    \/ \E p \in Peer : DeletePeer(h, p)
    \/ Apply(h)
    \/ WriteConf(h)
    \/ Down(h)
    \/ Up(h)
    \/ UpFails(h)
    \/ Applied(h)
    \/ StopServer(h)

Next == Crash \/ CrashInSave \/ \E h \in Handler : Request(h)

Spec == Init /\ [][Next]_vars
-----------------------------------------------------------------------------
Local == [name : Name \union {""}, server : Address \union {NoAddress},
          table : Table \union {NoConf}]

\* Every variable has its type, and a suspended request holds what it needs.
TypeOK ==
    /\ solo \in BOOLEAN
    /\ server \in Address \union {NoAddress}
    /\ peers \in [Peer -> Record \union {NoPeer}]
    /\ conf \in Table \union {NoConf}
    /\ running \in Table \union {NoConf}
    /\ excused \in BOOLEAN
    /\ pc \in [Handler -> {"idle", "keys", "write", "down", "up", "applied"}]
    /\ local \in [Handler -> Local]
    /\ \A h \in Handler :
        /\ pc[h] = "keys" => local[h].name \in Name
        /\ pc[h] = "write" => local[h].table \in Table
        /\ pc[h] \in {"down", "up", "applied"} => conf \in Table

\* The registry hands out addresses one at a time, whatever requests overlap
\* and whenever the panel dies: create_peer and update_peer save before the
\* next await after the addresses in use were read.
Pool == INSTANCE AddressPool WITH
    lease <- [p \in Peer |->
                IF peers[p] = NoPeer THEN NoAddress ELSE peers[p].address]

AddressesArePooled == Pool!Spec

\* The interface never routes one address to two peers, although peers move
\* between the read of apply_server and wg-quick up: the table is one reading.
ServedAddressesUnique ==
    running # NoConf =>
        \A p, q \in DOMAIN running : running[p] = running[q] => p = q

\* If the interface is down, someone stopped it, the last attempt to bring it
\* up failed, the panel died, it was never up, or a request of apply_server is
\* about to bring it up: overlapping applies do not leave it down.
DownIsExplained ==
    running = NoConf => excused \/ \E h \in Handler : pc[h] = "up"

\* With one request at a time, an apply that reports success has left the
\* interface serving exactly the enabled peers of the registry.
AppliedMeansServed ==
    solo => \A h \in Handler :
                pc[h] = "applied" => running = ServerConf(peers)
=============================================================================
