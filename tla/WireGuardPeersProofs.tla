------------------------ MODULE WireGuardPeersProofs ------------------------
(***************************************************************************)
(* Proofs about WireGuardPeers, for any sets of requests, peers, names and *)
(* addresses. The registry's addresses stay distinct because every save    *)
(* follows its check in one step; a table read from a registry inherits    *)
(* that, and the interface file and the interface only ever hold such      *)
(* tables. With one request at a time, an apply that reports success is    *)
(* served.                                                                 *)
(***************************************************************************)
EXTENDS WireGuardPeers, TLAPS

\* No two peers of a registry have the same address.
DistinctIn(registry) ==
    \A p, q \in Peer :
        registry[p] # NoPeer /\ registry[q] # NoPeer
            /\ registry[p].address = registry[q].address => p = q

\* A table routes no address twice.
OneToOne(table) ==
    table # NoConf =>
        \A p, q \in DOMAIN table : table[p] = table[q] => p = q

\* The inductive invariant of the addresses.
TablesInv ==
    /\ DistinctIn(peers)
    /\ OneToOne(conf)
    /\ OneToOne(running)
    /\ \A h \in Handler : OneToOne(local[h].table)

Registry == [Peer -> Record \union {NoPeer}]

-----------------------------------------------------------------------------
\* What _build_server_conf makes of a registry is a table ...
LEMMA ServerConfType ==
    ASSUME NEW registry \in Registry
    PROVE  ServerConf(registry) \in Table
<1> DEFINE enabled == {p \in Peer : registry[p] # NoPeer /\ registry[p].enabled}
<1>1. enabled \in SUBSET Peer
    OBVIOUS
<1>2. \A p \in enabled : registry[p].address \in Address
    BY DEF Registry, Record
<1>3. [p \in enabled |-> registry[p].address] \in [enabled -> Address]
    BY <1>2
<1> QED
    BY <1>1, <1>3 DEF ServerConf, Table

\* ... and no address occurs in it twice if none does in the registry.
LEMMA ServerConfDistinct ==
    ASSUME NEW registry \in Registry, DistinctIn(registry)
    PROVE  OneToOne(ServerConf(registry))
BY DEF ServerConf, OneToOne, DistinctIn

\* A peer that gets an address no other peer uses leaves the registry distinct.
LEMMA SaveDistinct ==
    ASSUME NEW p \in Peer, NEW new \in Record, peers \in Registry,
           DistinctIn(peers), new.address \notin UsedAddresses(peers, {p})
    PROVE  DistinctIn([peers EXCEPT ![p] = new])
<1> DEFINE after == [peers EXCEPT ![p] = new]
<1>1. \A q \in Peer : q # p => after[q] = peers[q]
    BY DEF Registry
<1>2. after[p] = new
    BY DEF Registry
<1>3. \A q \in Peer : q # p /\ peers[q] # NoPeer => peers[q].address # new.address
    BY DEF UsedAddresses
<1>4. ASSUME NEW q \in Peer, NEW r \in Peer, after[q] # NoPeer, after[r] # NoPeer,
             after[q].address = after[r].address
      PROVE  q = r
    <2>1. CASE q = p /\ r = p
        BY <2>1
    <2>2. CASE q = p /\ r # p
        BY <1>1, <1>2, <1>3, <1>4, <2>2
    <2>3. CASE q # p /\ r = p
        BY <1>1, <1>2, <1>3, <1>4, <2>3
    <2>4. CASE q # p /\ r # p
        BY <1>1, <1>4, <2>4 DEF DistinctIn
    <2> QED
        BY <2>1, <2>2, <2>3, <2>4
<1> QED
    BY <1>4 DEF DistinctIn

\* A registry that lost a peer is still distinct.
LEMMA RemoveDistinct ==
    ASSUME NEW p \in Peer, peers \in Registry, DistinctIn(peers)
    PROVE  DistinctIn([peers EXCEPT ![p] = NoPeer])
BY DEF DistinctIn, Registry

-----------------------------------------------------------------------------
\* Type correctness.  The parts of TypeOK that are about one request:
RequestOK(h) ==
    /\ pc[h] = "keys" => local[h].name \in Name
    /\ pc[h] = "write" => local[h].table \in Table
    /\ pc[h] \in {"down", "up", "applied"} => conf \in Table

LEMMA NothingType == Nothing \in Local /\ Nothing.name = "" /\ Nothing.table = NoConf
BY DEF Nothing, Local

\* A request that returns keeps the types of all requests.
LEMMA ReturnType ==
    ASSUME TypeOK, NEW h \in Handler, Return(h),
           conf' = conf \/ conf' \in Table
    PROVE  /\ pc' \in [Handler -> {"idle", "keys", "write", "down", "up", "applied"}]
           /\ local' \in [Handler -> Local]
           /\ \A k \in Handler : RequestOK(k)'
<1>1. /\ pc' \in [Handler -> {"idle", "keys", "write", "down", "up", "applied"}]
      /\ local' \in [Handler -> Local]
    BY NothingType DEF TypeOK, Return
<1>2. ASSUME NEW k \in Handler PROVE RequestOK(k)'
    <2>1. CASE k = h
        BY <2>1 DEF TypeOK, Return, RequestOK
    <2>2. CASE k # h
        BY <2>2 DEF TypeOK, Return, RequestOK
    <2> QED
        BY <2>1, <2>2
<1> QED
    BY <1>1, <1>2

\* So does one that begins to apply a registry.
LEMMA BeginApplyType ==
    ASSUME TypeOK, NEW h \in Handler, NEW registry \in Registry,
           BeginApply(h, registry), conf' = conf
    PROVE  /\ pc' \in [Handler -> {"idle", "keys", "write", "down", "up", "applied"}]
           /\ local' \in [Handler -> Local]
           /\ \A k \in Handler : RequestOK(k)'
<1> DEFINE entry == [Nothing EXCEPT !.table = ServerConf(registry)]
<1>1. entry \in Local /\ entry.table \in Table
    BY ServerConfType DEF Nothing, Local
<1>2. local' = [local EXCEPT ![h] = entry]
    BY DEF BeginApply
<1>3. /\ pc' \in [Handler -> {"idle", "keys", "write", "down", "up", "applied"}]
      /\ local' \in [Handler -> Local]
    BY <1>1, <1>2 DEF TypeOK, BeginApply
<1>4. ASSUME NEW k \in Handler PROVE RequestOK(k)'
    <2>1. CASE k = h
        <3>1. pc'[k] = "write" /\ local'[k] = entry
            BY <2>1, <1>2 DEF TypeOK, BeginApply
        <3> QED
            BY <3>1, <1>1 DEF RequestOK
    <2>2. CASE k # h
        <3>1. pc'[k] = pc[k] /\ local'[k] = local[k]
            BY <2>2, <1>2 DEF TypeOK, BeginApply
        <3> QED
            BY <3>1 DEF RequestOK, TypeOK
    <2> QED
        BY <2>1, <2>2
<1> QED
    BY <1>3, <1>4

LEMMA SaveThenType ==
    ASSUME TypeOK, NEW h \in Handler, NEW registry \in Registry,
           SaveThen(h, registry)
    PROVE  TypeOK'
<1>1. UNCHANGED <<solo, server, conf, running, excused>> /\ peers' = registry
    BY DEF SaveThen, system
<1>2. CASE BeginApply(h, registry)
    BY <1>1, <1>2, BeginApplyType DEF TypeOK, RequestOK, Registry
<1>3. CASE Return(h)
    BY <1>1, <1>3, ReturnType DEF TypeOK, RequestOK, Registry
<1> QED
    BY <1>2, <1>3 DEF SaveThen

\* Every step keeps the types.
LEMMA TypeStep == TypeOK /\ [Next]_vars => TypeOK'
<1> SUFFICES ASSUME TypeOK, [Next]_vars PROVE TypeOK'
    OBVIOUS
<1> USE DEF disk, system
<1>1. CASE Crash
    BY <1>1, NothingType DEF Crash, Halt, TypeOK
<1>2. CASE CrashInSave
    BY <1>2, NothingType DEF CrashInSave, Halt, TypeOK
<1>3. ASSUME NEW h \in Handler, Request(h) PROVE TypeOK'
    <2>1. ASSUME NEW a \in Address, SaveServer(h, a) PROVE TypeOK'
        BY <2>1 DEF SaveServer, TypeOK
    <2>2. ASSUME NEW name \in Name, CreatePeer(h, name) PROVE TypeOK'
        <3> DEFINE entry == [Nothing EXCEPT !.name = name, !.server = server]
        <3>1. entry \in Local /\ entry.name \in Name
            BY DEF TypeOK, Nothing, Local
        <3>2. /\ UNCHANGED <<solo, server, peers, conf, running, excused>>
              /\ pc' = [pc EXCEPT ![h] = "keys"]
              /\ local' = [local EXCEPT ![h] = entry]
            BY <2>2 DEF CreatePeer
        <3> HIDE DEF entry
        <3>3. \A k \in Handler : RequestOK(k)'
            BY <3>1, <3>2 DEF RequestOK, TypeOK
        <3> QED
            BY <3>1, <3>2, <3>3 DEF TypeOK, RequestOK
    <2>3. ASSUME NEW p \in Peer, SavePeer(h, p) PROVE TypeOK'
        <3>1. PICK a \in Address : SaveThen(h, [peers EXCEPT ![p] =
                    [name |-> local[h].name, address |-> a, enabled |-> TRUE]])
            BY <2>3 DEF SavePeer, Assignable
        <3>2. local[h].name \in Name
            BY <2>3 DEF SavePeer, TypeOK
        <3>3. [peers EXCEPT ![p] = [name |-> local[h].name, address |-> a,
                                    enabled |-> TRUE]] \in Registry
            BY <3>2 DEF TypeOK, Registry, Record
        <3> QED
            BY <3>1, <3>3, SaveThenType
    <2>4. CASE CreateFails(h)
        BY <2>4, ReturnType DEF CreateFails, TypeOK, RequestOK
    <2>5. ASSUME NEW p \in Peer, NEW new \in Record, UpdatePeer(h, p, new)
          PROVE  TypeOK'
        <3>1. [peers EXCEPT ![p] = new] \in Registry
            BY DEF TypeOK, Registry
        <3> QED
            BY <2>5, <3>1, SaveThenType DEF UpdatePeer
    <2>6. ASSUME NEW p \in Peer, DeletePeer(h, p) PROVE TypeOK'
        <3>1. /\ UNCHANGED <<solo, server, conf, running, excused>>
              /\ peers' = [peers EXCEPT ![p] = NoPeer]
              /\ Return(h) \/ BeginApply(h, peers')
            BY <2>6 DEF DeletePeer
        <3>2. peers' \in Registry
            BY <3>1 DEF TypeOK, Registry
        <3>3. CASE Return(h)
            BY <3>1, <3>2, <3>3, ReturnType DEF TypeOK, RequestOK, Registry
        <3>4. CASE BeginApply(h, peers')
            BY <3>1, <3>2, <3>4, BeginApplyType DEF TypeOK, RequestOK, Registry
        <3> QED
            BY <3>1, <3>3, <3>4
    <2>7. CASE Apply(h)
        <3>1. peers \in Registry
            BY DEF TypeOK, Registry
        <3> QED
            BY <2>7, <3>1, BeginApplyType DEF Apply, TypeOK, RequestOK
    <2>8. CASE WriteConf(h)
        <3>1. /\ UNCHANGED <<solo, server, peers, running, excused>>
              /\ local[h].table \in Table
              /\ conf' = conf \/ conf' \in Table
            BY <2>8 DEF WriteConf, TypeOK
        <3>2. CASE Return(h)
            BY <3>1, <3>2, ReturnType DEF TypeOK, RequestOK
        <3>3. CASE /\ conf' = local[h].table
                   /\ pc' = [pc EXCEPT ![h] = "down"]
                   /\ local' = [local EXCEPT ![h] = Nothing]
            <4>1. \A k \in Handler : RequestOK(k)'
                BY <3>1, <3>3 DEF RequestOK, TypeOK
            <4> QED
                BY <3>1, <3>3, <4>1, NothingType DEF TypeOK, RequestOK
        <3> QED
            BY <2>8, <3>2, <3>3 DEF WriteConf
    <2>9. CASE Down(h)
        BY <2>9 DEF Down, TypeOK
    <2>10. CASE Up(h)
        BY <2>10 DEF Up, TypeOK
    <2>11. CASE UpFails(h)
        BY <2>11, ReturnType DEF UpFails, TypeOK, RequestOK
    <2>12. CASE Applied(h)
        BY <2>12, ReturnType DEF Applied, TypeOK, RequestOK
    <2>13. CASE StopServer(h)
        BY <2>13 DEF StopServer, TypeOK
    <2> QED
        BY <1>3, <2>1, <2>2, <2>3, <2>4, <2>5, <2>6, <2>7, <2>8, <2>9, <2>10,
           <2>11, <2>12, <2>13 DEF Request
<1>4. CASE UNCHANGED vars
    BY <1>4 DEF vars, TypeOK
<1> QED
    BY <1>1, <1>2, <1>3, <1>4 DEF Next

LEMMA TypeInit == Init => TypeOK
BY NothingType DEF Init, TypeOK

\* Registry, system and every suspended request keep their types.
THEOREM WireGuardTypeCorrect == Spec => []TypeOK
BY TypeInit, TypeStep, PTL DEF Spec
-----------------------------------------------------------------------------
\* The addresses.

\* A request that returns holds no table.
LEMMA ReturnTables ==
    ASSUME TypeOK, TablesInv, NEW h \in Handler, Return(h)
    PROVE  \A k \in Handler : OneToOne(local[k].table)'
BY ZenonT(30), NothingType DEF TypeOK, TablesInv, Return, OneToOne

\* A request that begins to apply a distinct registry holds its table.
LEMMA BeginApplyTables ==
    ASSUME TypeOK, TablesInv, NEW h \in Handler, NEW registry \in Registry,
           DistinctIn(registry), BeginApply(h, registry)
    PROVE  \A k \in Handler : OneToOne(local[k].table)'
<1> DEFINE entry == [Nothing EXCEPT !.table = ServerConf(registry)]
<1>1. local' = [local EXCEPT ![h] = entry]
    BY DEF BeginApply
<1>2. entry.table = ServerConf(registry)
    BY DEF Nothing
<1>3. OneToOne(entry.table)
    BY <1>2, ServerConfDistinct
<1> HIDE DEF entry
<1> QED
    BY <1>1, <1>3 DEF TypeOK, TablesInv, OneToOne

\* A save of a distinct registry keeps the invariant.
LEMMA SaveThenTables ==
    ASSUME TypeOK, TablesInv, NEW h \in Handler, NEW registry \in Registry,
           DistinctIn(registry), SaveThen(h, registry)
    PROVE  TablesInv'
<1>1. UNCHANGED <<conf, running>> /\ peers' = registry
    BY DEF SaveThen, system
<1>2. \A k \in Handler : OneToOne(local[k].table)'
    BY ReturnTables, BeginApplyTables DEF SaveThen
<1> QED
    BY <1>1, <1>2 DEF TablesInv, OneToOne, DistinctIn

\* The registry create_peer writes: the new peer's address was free.
LEMMA SavePeerRegistry ==
    ASSUME TypeOK, TablesInv, NEW h \in Handler, NEW p \in Peer, SavePeer(h, p)
    PROVE  \E a \in Address :
             /\ \A q \in Peer : peers[q] # NoPeer => peers[q].address # a
             /\ LET new == [name |-> local[h].name, address |-> a, enabled |-> TRUE]
                IN  /\ new \in Record
                    /\ DistinctIn([peers EXCEPT ![p] = new])
                    /\ SaveThen(h, [peers EXCEPT ![p] = new])
<1>1. PICK a \in Assignable(UsedAddresses(peers, {}) \union {local[h].server}) :
        SaveThen(h, [peers EXCEPT ![p] =
            [name |-> local[h].name, address |-> a, enabled |-> TRUE]])
    BY DEF SavePeer
<1> DEFINE new == [name |-> local[h].name, address |-> a, enabled |-> TRUE]
<1>2. new \in Record /\ a \in Address
    BY DEF SavePeer, TypeOK, Record, Assignable
<1>3. \A q \in Peer : peers[q] # NoPeer => peers[q].address # a
    BY <1>1 DEF UsedAddresses, Assignable
<1>4. new.address \notin UsedAddresses(peers, {p})
    BY <1>3 DEF UsedAddresses
<1>5. DistinctIn([peers EXCEPT ![p] = new])
    <2>1. peers \in Registry /\ DistinctIn(peers)
        BY DEF TypeOK, TablesInv, Registry
    <2> HIDE DEF new
    <2> QED
        BY <1>2, <1>4, <2>1, SaveDistinct
<1> QED
    BY <1>1, <1>2, <1>3, <1>5

\* The registry update_peer writes.
LEMMA UpdatePeerRegistry ==
    ASSUME TypeOK, TablesInv, NEW h \in Handler, NEW p \in Peer,
           NEW new \in Record, UpdatePeer(h, p, new)
    PROVE  /\ SaveThen(h, [peers EXCEPT ![p] = new])
           /\ DistinctIn([peers EXCEPT ![p] = new])
           /\ p \in Registered
           /\ \A q \in Peer : q # p /\ peers[q] # NoPeer
                                => peers[q].address # new.address
<1>1. /\ SaveThen(h, [peers EXCEPT ![p] = new])
      /\ p \in Registered
      /\ new.address # peers[p].address => new.address \notin UsedAddresses(peers, {p})
    BY DEF UpdatePeer, Assignable
<1>2. peers \in Registry /\ DistinctIn(peers)
    BY DEF TypeOK, TablesInv, Registry
<1>3. \A q \in Peer : q # p /\ peers[q] # NoPeer => peers[q].address # new.address
    BY <1>1, <1>2 DEF UsedAddresses, DistinctIn, Registered
<1>4. new.address \notin UsedAddresses(peers, {p})
    BY <1>3 DEF UsedAddresses
<1> QED
    BY <1>1, <1>2, <1>3, <1>4, SaveDistinct

\* Every step keeps the registry and all tables distinct.
LEMMA TablesStep == TypeOK /\ TablesInv /\ [Next]_vars => TablesInv'
<1> SUFFICES ASSUME TypeOK, TablesInv, [Next]_vars PROVE TablesInv'
    OBVIOUS
<1> USE DEF disk, system
<1>0. peers \in Registry /\ DistinctIn(peers)
    BY DEF TypeOK, TablesInv, Registry
<1>1. CASE Crash
    BY <1>1, NothingType DEF Crash, Halt, TablesInv, OneToOne, DistinctIn
<1>2. CASE CrashInSave
    <2>1. UNCHANGED <<conf, running>> /\ local' = [h \in Handler |-> Nothing]
        BY <1>2 DEF CrashInSave, Halt
    <2>2. DistinctIn(peers')
        BY <1>0, <1>2, RemoveDistinct DEF CrashInSave, Registered
    <2>3. \A h \in Handler : OneToOne(local[h].table)'
        BY <2>1, NothingType DEF OneToOne
    <2> QED
        BY <2>1, <2>2, <2>3 DEF TablesInv, OneToOne, DistinctIn
<1>3. ASSUME NEW h \in Handler, Request(h) PROVE TablesInv'
    <2>1. ASSUME NEW a \in Address, SaveServer(h, a) PROVE TablesInv'
        BY <2>1 DEF SaveServer, TablesInv, OneToOne, DistinctIn
    <2>2. ASSUME NEW name \in Name, CreatePeer(h, name) PROVE TablesInv'
        <3> DEFINE entry == [Nothing EXCEPT !.name = name, !.server = server]
        <3>1. entry.table = NoConf
            BY DEF Nothing
        <3>2. UNCHANGED <<peers, conf, running>> /\ local' = [local EXCEPT ![h] = entry]
            BY <2>2 DEF CreatePeer
        <3> HIDE DEF entry
        <3>3. \A k \in Handler : OneToOne(local[k].table)'
            BY <3>1, <3>2 DEF TypeOK, TablesInv, OneToOne
        <3> QED
            BY <3>2, <3>3 DEF TablesInv, OneToOne, DistinctIn
    <2>3. ASSUME NEW p \in Peer, SavePeer(h, p) PROVE TablesInv'
        <3>1. PICK new \in Record : /\ DistinctIn([peers EXCEPT ![p] = new])
                                    /\ SaveThen(h, [peers EXCEPT ![p] = new])
            BY <2>3, SavePeerRegistry
        <3>2. [peers EXCEPT ![p] = new] \in Registry
            BY <1>0 DEF Registry
        <3> QED
            BY <3>1, <3>2, SaveThenTables
    <2>4. CASE CreateFails(h)
        BY <2>4, ReturnTables DEF CreateFails, TablesInv, OneToOne, DistinctIn
    <2>5. ASSUME NEW p \in Peer, NEW new \in Record, UpdatePeer(h, p, new)
          PROVE  TablesInv'
        <3>1. [peers EXCEPT ![p] = new] \in Registry
            BY <1>0 DEF Registry
        <3> QED
            BY <2>5, <3>1, UpdatePeerRegistry, SaveThenTables
    <2>6. ASSUME NEW p \in Peer, DeletePeer(h, p) PROVE TablesInv'
        <3>1. /\ UNCHANGED <<conf, running>>
              /\ peers' = [peers EXCEPT ![p] = NoPeer]
              /\ Return(h) \/ BeginApply(h, peers')
            BY <2>6 DEF DeletePeer
        <3>2. peers' \in Registry /\ DistinctIn(peers')
            BY <1>0, <3>1, RemoveDistinct DEF Registry
        <3>3. \A k \in Handler : OneToOne(local[k].table)'
            BY <3>1, <3>2, ReturnTables, BeginApplyTables
        <3> QED
            BY <3>1, <3>2, <3>3 DEF TablesInv, OneToOne, DistinctIn
    <2>7. CASE Apply(h)
        <3>1. \A k \in Handler : OneToOne(local[k].table)'
            BY <1>0, <2>7, BeginApplyTables DEF Apply
        <3> QED
            BY <2>7, <3>1 DEF Apply, TablesInv, OneToOne, DistinctIn
    <2>8. CASE WriteConf(h)
        <3>1. /\ UNCHANGED <<peers, running>>
              /\ conf' \in {conf, local[h].table}
              /\ Return(h) \/ local' = [local EXCEPT ![h] = Nothing]
            BY <2>8 DEF WriteConf
        <3>2. \A k \in Handler : OneToOne(local[k].table)'
            BY <3>1, NothingType DEF TypeOK, TablesInv, OneToOne, Return
        <3> QED
            BY <3>1, <3>2 DEF TablesInv, OneToOne, DistinctIn
    <2>9. CASE Down(h)
        BY <2>9 DEF Down, TablesInv, OneToOne, DistinctIn
    <2>10. CASE Up(h)
        BY <2>10 DEF Up, TablesInv, OneToOne, DistinctIn
    <2>11. CASE UpFails(h)
        <3>1. UNCHANGED <<peers, conf>> /\ running' \in {NoConf, conf, running}
            BY <2>11 DEF UpFails
        <3>2. \A k \in Handler : OneToOne(local[k].table)'
            BY <2>11, ReturnTables DEF UpFails
        <3> QED
            BY <3>1, <3>2 DEF TablesInv, OneToOne, DistinctIn
    <2>12. CASE Applied(h)
        BY <2>12, ReturnTables DEF Applied, TablesInv, OneToOne, DistinctIn
    <2>13. CASE StopServer(h)
        BY <2>13 DEF StopServer, TablesInv, OneToOne, DistinctIn
    <2> QED
        BY <1>3, <2>1, <2>2, <2>3, <2>4, <2>5, <2>6, <2>7, <2>8, <2>9, <2>10,
           <2>11, <2>12, <2>13 DEF Request
<1>4. CASE UNCHANGED vars
    BY <1>4 DEF vars, TablesInv, OneToOne, DistinctIn
<1> QED
    BY <1>1, <1>2, <1>3, <1>4 DEF Next

LEMMA TablesInit == Init => TablesInv
BY NothingType DEF Init, TablesInv, OneToOne, DistinctIn

LEMMA TablesAlways == Spec => [](TypeOK /\ TablesInv)
BY TypeInit, TypeStep, TablesInit, TablesStep, PTL DEF Spec

\* The interface never routes one address to two peers, however the requests
\* that move peers overlap with those that apply.
THEOREM WireGuardServesUniqueAddresses == Spec => []ServedAddressesUnique
<1>1. TablesInv => ServedAddressesUnique
    BY DEF TablesInv, OneToOne, ServedAddressesUnique
<1> QED
    BY <1>1, TablesAlways, PTL
-----------------------------------------------------------------------------
\* The refinement: what the registry says of each peer's address.
Lease(registry) ==
    [p \in Peer |-> IF registry[p] = NoPeer THEN NoAddress ELSE registry[p].address]

\* Saving a peer under a free address is taking that address.
LEMMA SaveIsTake ==
    ASSUME NEW p \in Peer, NEW new \in Record, peers \in Registry,
           \A q \in Peer : q # p /\ peers[q] # NoPeer => peers[q].address # new.address,
           peers' = [peers EXCEPT ![p] = new]
    PROVE  [Pool!Next]_(Lease(peers))
<1>1. new.address \in Address /\ new # NoPeer /\ new.address # NoAddress
    BY ValuesAssumption DEF Record
<1>2. Lease(peers)' = [Lease(peers) EXCEPT ![p] = new.address]
    BY <1>1 DEF Lease, Registry
<1>3. CASE Lease(peers)[p] = new.address
    BY <1>2, <1>3 DEF Lease
<1>4. CASE Lease(peers)[p] # new.address
    <2>1. \A q \in Peer : Lease(peers)[q] # new.address
        BY <1>1, <1>4 DEF Lease
    <2>2. Pool!Take(p, new.address)
        BY <1>2, <2>1 DEF Pool!Take, Lease
    <2> QED
        BY <1>1, <2>2 DEF Pool!Next
<1> QED
    BY <1>3, <1>4

\* Losing a peer's file releases its address.
LEMMA RemoveIsRelease ==
    ASSUME NEW p \in Peer, peers \in Registry,
           peers' = [peers EXCEPT ![p] = NoPeer]
    PROVE  Pool!Next
<1>1. Lease(peers)' = [Lease(peers) EXCEPT ![p] = NoAddress]
    BY DEF Lease, Registry
<1>2. Pool!Release(p)
    BY <1>1 DEF Pool!Release, Lease
<1> QED
    BY <1>2 DEF Pool!Next

\* Every step of the module is one step of the pool, or none.
LEMMA PoolStep ==
    ASSUME TypeOK, TablesInv, [Next]_vars
    PROVE  [Pool!Next]_(Lease(peers))
<1>0. peers \in Registry
    BY DEF TypeOK, Registry
<1>1. CASE UNCHANGED peers
    BY <1>1 DEF Lease
<1>2. ASSUME NEW h \in Handler, NEW p \in Peer, SavePeer(h, p)
      PROVE  [Pool!Next]_(Lease(peers))
    <2>1. PICK new \in Record :
            /\ \A q \in Peer : peers[q] # NoPeer => peers[q].address # new.address
            /\ SaveThen(h, [peers EXCEPT ![p] = new])
        BY <1>2, SavePeerRegistry
    <2>2. peers' = [peers EXCEPT ![p] = new]
        BY <2>1 DEF SaveThen
    <2> QED
        BY <1>0, <2>1, <2>2, SaveIsTake
<1>3. ASSUME NEW h \in Handler, NEW p \in Peer, NEW new \in Record,
             UpdatePeer(h, p, new)
      PROVE  [Pool!Next]_(Lease(peers))
    <2>1. /\ \A q \in Peer : q # p /\ peers[q] # NoPeer
                                => peers[q].address # new.address
          /\ SaveThen(h, [peers EXCEPT ![p] = new])
        BY <1>3, UpdatePeerRegistry
    <2>2. peers' = [peers EXCEPT ![p] = new]
        BY <2>1 DEF SaveThen
    <2> QED
        BY <1>0, <2>1, <2>2, SaveIsTake
<1>4. ASSUME NEW h \in Handler, NEW p \in Peer, DeletePeer(h, p)
      PROVE  Pool!Next
    BY <1>0, <1>4, RemoveIsRelease DEF DeletePeer
<1>5. CASE CrashInSave
    <2>1. CASE UNCHANGED peers
        BY <1>1, <2>1
    <2>2. CASE \E p \in Registered : peers' = [peers EXCEPT ![p] = NoPeer]
        BY <1>0, <2>2, RemoveIsRelease DEF Registered
    <2> QED
        BY <1>5, <2>1, <2>2 DEF CrashInSave
<1>6. ASSUME NEW h \in Handler, Request(h),
             ~(\E p \in Peer : SavePeer(h, p)),
             ~(\E p \in Peer, new \in Record : UpdatePeer(h, p, new)),
             ~(\E p \in Peer : DeletePeer(h, p))
      PROVE  UNCHANGED peers
    BY <1>6 DEF Request, SaveServer, CreatePeer, CreateFails, Apply, WriteConf,
                Down, Up, UpFails, Applied, StopServer, disk
<1>7. Crash => UNCHANGED peers
    BY DEF Crash, disk
<1>8. UNCHANGED vars => UNCHANGED peers
    BY DEF vars
<1> QED
    BY <1>1, <1>2, <1>3, <1>4, <1>5, <1>6, <1>7, <1>8 DEF Next

LEMMA PoolInit == Init => Pool!Init
BY DEF Init, Pool!Init

\* The WireGuard registry implements the address pool, with any number of
\* overlapping requests, failing commands and crashes.
THEOREM WireGuardImplementsPool == Spec => AddressesArePooled
<1>1. TypeOK /\ TablesInv /\ [Next]_vars => [Pool!Next]_(Lease(peers))
    BY PoolStep
<1>2. TypeOK /\ TablesInv /\ [Next]_vars => [Pool!Next]_([p \in Peer |->
                IF peers[p] = NoPeer THEN NoAddress ELSE peers[p].address])
    BY <1>1 DEF Lease
<1> QED
    BY <1>2, PoolInit, TablesAlways, PTL DEF AddressesArePooled, Pool!Spec, Spec

-----------------------------------------------------------------------------
\* The interface.

\* A step that does not take the interface down, keeps the excuse and moves no
\* request away from "up" keeps the explanation.
LEMMA ExplanationKept ==
    ASSUME TypeOK, DownIsExplained, running' = running, excused' = excused,
           \A k \in Handler : pc[k] = "up" => pc'[k] = "up"
    PROVE  DownIsExplained'
BY DEF DownIsExplained

\* Every step explains an interface that is down.
LEMMA ExplanationStep ==
    TypeOK /\ DownIsExplained /\ [Next]_vars => DownIsExplained'
<1> SUFFICES ASSUME TypeOK, DownIsExplained, [Next]_vars PROVE DownIsExplained'
    OBVIOUS
<1> USE DEF disk, system
<1>1. CASE Crash \/ CrashInSave
    BY <1>1 DEF Crash, CrashInSave, Halt, DownIsExplained
<1>2. ASSUME NEW h \in Handler, Request(h) PROVE DownIsExplained'
    <2>1. ASSUME pc[h] # "up", running' = running, excused' = excused,
                 \A k \in Handler : k # h => pc'[k] = pc[k]
          PROVE  DownIsExplained'
        BY <2>1, ExplanationKept
    <2>2. ASSUME Return(h) \/ BeginApply(h, peers) \/ BeginApply(h, peers')
          PROVE  \A k \in Handler : k # h => pc'[k] = pc[k]
        BY <2>2 DEF Return, BeginApply, TypeOK
    <2>3. ASSUME NEW registry, SaveThen(h, registry), pc[h] # "up"
          PROVE  DownIsExplained'
        <3>1. \A k \in Handler : k # h => pc'[k] = pc[k]
            BY <2>3 DEF SaveThen, Return, BeginApply, TypeOK
        <3> QED
            BY <2>1, <2>3, <3>1 DEF SaveThen
    <2>4. ASSUME NEW a \in Address, SaveServer(h, a) PROVE DownIsExplained'
        BY <2>4, ExplanationKept DEF SaveServer
    <2>5. ASSUME NEW name \in Name, CreatePeer(h, name) PROVE DownIsExplained'
        <3>1. \A k \in Handler : k # h => pc'[k] = pc[k]
            BY <2>5 DEF CreatePeer, TypeOK
        <3> QED
            BY <2>1, <2>5, <3>1 DEF CreatePeer, Accept, Idle
    <2>6. ASSUME NEW p \in Peer, SavePeer(h, p) PROVE DownIsExplained'
        BY <2>3, <2>6 DEF SavePeer
    <2>7. CASE CreateFails(h)
        BY <2>1, <2>2, <2>7 DEF CreateFails
    <2>8. ASSUME NEW p \in Peer, NEW new \in Record, UpdatePeer(h, p, new)
          PROVE  DownIsExplained'
        BY <2>3, <2>8 DEF UpdatePeer, Accept, Idle
    <2>9. ASSUME NEW p \in Peer, DeletePeer(h, p) PROVE DownIsExplained'
        BY <2>1, <2>2, <2>9 DEF DeletePeer, Accept, Idle
    <2>10. CASE Apply(h)
        BY <2>1, <2>2, <2>10 DEF Apply, Accept, Idle
    <2>11. CASE WriteConf(h)
        <3>1. \A k \in Handler : k # h => pc'[k] = pc[k]
            BY <2>11 DEF WriteConf, Return, TypeOK
        <3> QED
            BY <2>1, <2>11, <3>1 DEF WriteConf
    <2>12. CASE Down(h)
        <3>1. pc'[h] = "up"
            BY <2>12 DEF Down, TypeOK
        <3> QED
            BY <3>1 DEF DownIsExplained
    <2>13. CASE Up(h)
        <3>1. running' # NoConf
            BY <2>13, ValuesAssumption DEF Up, TypeOK
        <3> QED
            BY <3>1 DEF DownIsExplained
    <2>14. CASE UpFails(h)
        BY <2>14 DEF UpFails, DownIsExplained
    <2>15. CASE Applied(h)
        BY <2>1, <2>2, <2>15 DEF Applied
    <2>16. CASE StopServer(h)
        BY <2>16 DEF StopServer, DownIsExplained
    <2> QED
        BY <1>2, <2>4, <2>5, <2>6, <2>7, <2>8, <2>9, <2>10, <2>11, <2>12, <2>13,
           <2>14, <2>15, <2>16 DEF Request
<1>3. CASE UNCHANGED vars
    BY <1>3, ExplanationKept DEF vars
<1> QED
    BY <1>1, <1>2, <1>3 DEF Next

\* Overlapping applies never leave the interface down without a stop, a failed
\* start or a crash to blame.
THEOREM WireGuardDownIsExplained == Spec => []DownIsExplained
<1>1. Init => DownIsExplained
    BY DEF Init, DownIsExplained
<1> QED
    BY <1>1, ExplanationStep, WireGuardTypeCorrect, PTL DEF Spec

-----------------------------------------------------------------------------
\* One request at a time: what the request read is still true when it uses it.

Alone(h) == \A k \in Handler : k # h => pc[k] = "idle"

\* What a request that is the only one has made true so far.
Progress(h) ==
    /\ pc[h] = "write" => local[h].table = ServerConf(peers)
    /\ pc[h] \in {"down", "up"} => conf = ServerConf(peers)
    /\ pc[h] = "applied" => running = ServerConf(peers)

SoloInv == solo => \A h \in Handler : pc[h] # "idle" => Alone(h) /\ Progress(h)

\* A request that moves is alone.
LEMMA MovesAlone ==
    ASSUME solo, SoloInv, NEW h \in Handler, Request(h)
    PROVE  Alone(h)
<1>1. ASSUME Accept(h) PROVE Alone(h)
    BY <1>1 DEF Accept, Idle, Alone
<1>2. CASE pc[h] # "idle"
    BY <1>2 DEF SoloInv
<1>3. CASE pc[h] = "idle"
    BY <1>1, <1>3 DEF Request, SaveServer, CreatePeer, SavePeer, CreateFails, UpdatePeer,
                      DeletePeer, Apply, WriteConf, Down, Up, UpFails, Applied, StopServer
<1> QED
    BY <1>2, <1>3

\* It is enough to look at the request that moved.
LEMMA SoloKept ==
    ASSUME NEW h \in Handler, \A k \in Handler : k # h => pc'[k] = "idle",
           pc'[h] # "idle" => Progress(h)'
    PROVE  SoloInv'
BY DEF SoloInv, Alone

\* The end of a step that begins to apply what is saved, or returns.
LEMMA SoloApply ==
    ASSUME TypeOK, NEW h \in Handler, Alone(h), NEW registry, peers' = registry,
           Return(h) \/ BeginApply(h, registry)
    PROVE  SoloInv'
<1>1. \A k \in Handler : k # h => pc'[k] = "idle"
    BY DEF Return, BeginApply, Alone, TypeOK
<1>2. CASE Return(h)
    <2>1. pc'[h] = "idle"
        BY <1>2 DEF Return, TypeOK
    <2> QED
        BY <1>1, <2>1, SoloKept
<1>3. CASE BeginApply(h, registry)
    <2>1. pc'[h] = "write" /\ local'[h].table = ServerConf(registry)
        BY <1>3 DEF BeginApply, TypeOK, Nothing
    <2>2. ServerConf(registry) = ServerConf(peers)'
        BY DEF ServerConf
    <2>3. Progress(h)'
        BY <2>1, <2>2 DEF Progress
    <2> QED
        BY <1>1, <2>3, SoloKept
<1> QED
    BY <1>2, <1>3

LEMMA SoloStep == TypeOK /\ SoloInv /\ [Next]_vars => SoloInv'
<1> SUFFICES ASSUME TypeOK, SoloInv, [Next]_vars PROVE SoloInv'
    OBVIOUS
<1>1. CASE ~solo
    <2>1. solo' = solo
        BY DEF Next, Crash, CrashInSave, Halt, Request, SaveServer, CreatePeer, SavePeer,
               SaveThen, CreateFails, UpdatePeer, DeletePeer, Apply, WriteConf, Down, Up,
               UpFails, Applied, StopServer, vars
    <2> QED
        BY <1>1, <2>1 DEF SoloInv
<1>2. CASE Crash \/ CrashInSave
    BY <1>2 DEF Crash, CrashInSave, Halt, SoloInv
<1>3. ASSUME NEW h \in Handler, Request(h), solo PROVE SoloInv'
    <2>0. Alone(h)
        BY <1>3, MovesAlone
    <2>1. ASSUME NEW registry, SaveThen(h, registry) PROVE SoloInv'
        BY <2>0, <2>1, SoloApply DEF SaveThen
    <2>2. ASSUME NEW a \in Address, SaveServer(h, a) PROVE SoloInv'
        BY <2>0, <2>2, SoloKept DEF SaveServer, Accept, Idle, Alone
    <2>3. ASSUME NEW name \in Name, CreatePeer(h, name) PROVE SoloInv'
        <3>1. pc'[h] = "keys" /\ \A k \in Handler : k # h => pc'[k] = "idle"
            BY <2>0, <2>3 DEF CreatePeer, Alone, TypeOK
        <3> QED
            BY <3>1, SoloKept DEF Progress
    <2>4. ASSUME NEW p \in Peer, SavePeer(h, p) PROVE SoloInv'
        BY <2>1, <2>4 DEF SavePeer
    <2>5. ASSUME NEW p \in Peer, NEW new \in Record, UpdatePeer(h, p, new)
          PROVE  SoloInv'
        BY <2>1, <2>5 DEF UpdatePeer
    <2>6. ASSUME NEW p \in Peer, DeletePeer(h, p) PROVE SoloInv'
        <3>1. Return(h) \/ BeginApply(h, peers')
            BY <2>6 DEF DeletePeer
        <3>2. CASE Return(h)
            BY <2>0, <3>2, SoloApply
        <3>3. CASE BeginApply(h, peers')
            <4>1. pc'[h] = "write" /\ local'[h].table = ServerConf(peers')
                BY <3>3 DEF BeginApply, TypeOK, Nothing
            <4>2. \A k \in Handler : k # h => pc'[k] = "idle"
                BY <2>0, <3>3 DEF BeginApply, Alone, TypeOK
            <4>3. Progress(h)'
                BY <4>1 DEF Progress, ServerConf
            <4> QED
                BY <4>2, <4>3, SoloKept
        <3> QED
            BY <3>1, <3>2, <3>3
    <2>7. CASE Apply(h)
        BY <2>0, <2>7, SoloApply DEF Apply, disk
    <2>8. CASE CreateFails(h) \/ UpFails(h) \/ Applied(h)
        <3>1. Return(h)
            BY <2>8 DEF CreateFails, UpFails, Applied
        <3> QED
            BY <2>0, <3>1, SoloApply
    <2>9. CASE WriteConf(h)
        <3>1. CASE Return(h)
            BY <2>0, <3>1, SoloApply
        <3>2. CASE ~Return(h)
            <4>1. /\ conf' = ServerConf(peers) /\ UNCHANGED peers
                  /\ pc'[h] = "down" /\ \A k \in Handler : k # h => pc'[k] = "idle"
                BY <1>3, <2>0, <2>9, <3>2
                   DEF WriteConf, SoloInv, Progress, Alone, TypeOK, disk
            <4>2. ServerConf(peers)' = ServerConf(peers)
                BY <4>1 DEF ServerConf
            <4> QED
                BY <4>1, <4>2, SoloKept DEF Progress
        <3> QED
            BY <3>1, <3>2
    <2>10. CASE Down(h) \/ Up(h)
        <3>1. conf = ServerConf(peers) /\ UNCHANGED <<conf, peers>>
            BY <1>3, <2>10 DEF Down, Up, SoloInv, Progress, disk
        <3>2. /\ \A k \in Handler : k # h => pc'[k] = "idle"
              /\ \/ pc'[h] = "up"
                 \/ pc'[h] = "applied" /\ running' = conf
            BY <2>0, <2>10 DEF Down, Up, Alone, TypeOK
        <3>3. ServerConf(peers)' = ServerConf(peers)
            BY <3>1 DEF ServerConf
        <3> QED
            BY <3>1, <3>2, <3>3, SoloKept DEF Progress
    <2>11. CASE StopServer(h)
        BY <2>0, <2>11, SoloKept DEF StopServer, Accept, Idle, Alone
    <2> QED
        BY <1>3, <2>2, <2>3, <2>4, <2>5, <2>6, <2>7, <2>8, <2>9, <2>10, <2>11
           DEF Request
<1>4. CASE UNCHANGED vars
    BY <1>4 DEF vars, SoloInv, Alone, Progress, ServerConf
<1> QED
    BY <1>1, <1>2, <1>3, <1>4 DEF Next

\* With one request at a time, an apply that answers "applied" has left the
\* interface serving exactly the enabled peers of the registry, whichever
\* commands failed before and wherever the panel died.
THEOREM WireGuardAppliedMeansServed == Spec => []AppliedMeansServed
<1>1. Init => SoloInv
    BY DEF Init, SoloInv
<1>2. SoloInv => AppliedMeansServed
    BY DEF SoloInv, Progress, AppliedMeansServed
<1> QED
    BY <1>1, <1>2, SoloStep, WireGuardTypeCorrect, PTL DEF Spec
=============================================================================
