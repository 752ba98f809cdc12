----------------------------- MODULE MCGateway ------------------------------
(***************************************************************************)
(* Instances for TLC of the ways into the host's networks that share no     *)
(* state: the nginx edge and its certificates, OpenVPN and SSH tunnels.  A  *)
(* behaviour picks the part that moves.  The edge is explored over two      *)
(* seconds with every port free, and over one in which other processes hold *)
(* ports.  OpenVPN is explored with requests that come one at a time over   *)
(* two clients, documents and two of three names, and with two at once over *)
(* one name and one document; the tunnels with files that hold two keys.    *)
(***************************************************************************)
EXTENDS MCNginxEdge, Sequences

CONSTANTS Caller, Id, Name, Value, Key, ReadBack, None, CertId, MaxVersion, TunnelUser,
          Host, Port, Low, RandomLo, RandomHi, Top, MaxLength

ASSUME VersionAssumption == MaxVersion \in Nat
ASSUME NoneAssumption ==
    /\ None \notin Value /\ None \notin TunnelUser /\ None \notin Caller
    /\ "ca" \notin Caller /\ None # "ca"

\* No user has as many destinations as there are ports to search.
ASSUME PortsAssumption ==
    {RandomLo, RandomHi, Top, MaxLength} \subseteq Nat /\ RandomLo + MaxLength <= Top + 1

\* The comment of one key names a key type.
MCReadBack == [k \in Key |-> IF k = "odd" THEN "junk" ELSE k]

VARIABLES
    part,
    meta, files, ca, pair, ccd, vpnConf, vpnRunning, job, sole, overlapped,
    infra, account, registry, auth, tunnelJob, tunnelSole,
    raw, rest, listed, mode, forwards, failed,
    live, store, document, used, certTask, doomed

Vpn == INSTANCE OpenVpn
    WITH Handler <- Caller, Client <- Id, Meta <- Value, conf <- vpnConf, running <- vpnRunning
Tunnel == INSTANCE SshTunnel
    WITH Handler <- Caller, User <- TunnelUser, Permit <- Value, meta <- registry,
         job <- tunnelJob, sole <- tunnelSole
\* Every line is read as that of a key.
ASSUME ReadAssumption == ReadBack \in [Key -> Key]

\* A file that is missing is none of the files there are.
ASSUME LinesAssumption == None \notin Tunnel!Lines
Ports == INSTANCE TunnelPorts
Certs == INSTANCE CertStore
    WITH Handler <- Caller, Id <- CertId, meta <- document, task <- certTask

vpnVars == <<meta, files, ca, pair, ccd, vpnConf, vpnRunning, job, sole, overlapped>>
tunnelVars == <<infra, account, registry, auth, tunnelJob, tunnelSole>>
portVars == <<raw, rest, listed, mode, forwards, failed>>
certVars == <<live, store, document, used, certTask, doomed>>

\* What the requests of OpenVPN have in hand, and a name and a document for bounds.
AName == CHOOSE n \in Name \ {"ca"} : TRUE
ADocument == CHOOSE m \in Value : TRUE
Busy == {h \in Caller : job[h].at # "idle"}
Documents == ({meta} \union {job[h].meta : h \in Caller}) \ {None}
NamesSeen == {n \in Name : pair[n].key \/ pair[n].csr \/ \E h \in Caller : job[h].subject = n}

\* The keys in the files of the tunnel users, or on their way there.
KeysSeen == UNION {tunnelJob[h].keys \union ({tunnelJob[h].key} \ {None}) : h \in Caller}
            \union UNION {auth[u].keys : u \in {v \in TunnelUser : auth[v] # None}}

\* With every port free no route waits for a certificate, and the panel crashes in
\* the first second only; else nginx refuses no route.
Leaves(r) == \A d \in {stateFile'} \union {task'[h].doc : h \in Handler} : r \notin d
EdgeNext ==
    /\ Next
    /\ \/ part = "edge" /\ held' = {} /\ Leaves(Bare) /\ (now > 1 => ~Crash)
       \/ part = "edge held" /\ now' = 1 /\ Leaves(Broken)

GatewayInit ==
    /\ part \in {"edge", "edge held", "vpn alone", "vpn together", "tunnel", "ports", "certs"}
    /\ Init /\ (part # "edge held" => held = {} /\ ~distro)
    /\ Vpn!Init /\ Tunnel!Init /\ Certs!Init
    /\ IF part = "ports" THEN Ports!Init
       ELSE raw = <<>> /\ rest = <<>> /\ listed = FALSE /\ mode = "same" /\ forwards = <<>> /\ failed = FALSE
GatewayNext ==
    /\ UNCHANGED part
    /\ \/ EdgeNext /\ UNCHANGED <<vpnVars, tunnelVars, portVars, certVars>>
       \/ /\ Vpn!Next
          /\ \/ /\ part = "vpn alone"
                /\ Cardinality(Busy') < 2 /\ Cardinality(NamesSeen' \ {AName}) < 2
             \/ /\ part = "vpn together"
                /\ Documents' \subseteq {ADocument} /\ NamesSeen' \in {{AName}, {"ca"}, {}}
          /\ UNCHANGED <<vars, tunnelVars, portVars, certVars>>
       \/ /\ part = "tunnel" /\ Tunnel!Next /\ Cardinality(KeysSeen') < 3
          /\ UNCHANGED <<vars, vpnVars, portVars, certVars>>
       \/ part = "ports" /\ Ports!Next /\ UNCHANGED <<vars, vpnVars, tunnelVars, certVars>>
       \/ part = "certs" /\ Certs!Next /\ UNCHANGED <<vars, vpnVars, tunnelVars, portVars>>
GatewaySpec == GatewayInit /\ [][GatewayNext]_<<part, vars, vpnVars, tunnelVars, portVars, certVars>>

Symmetry == Permutations(Caller)

\* The state of every part has its type.
PartsTypeOK == TypeOK /\ Vpn!TypeOK /\ Tunnel!TypeOK /\ Certs!TypeOK
\* openvpn.py: a lone request answered "applied" is; the PKI survives failures.
LoneApplyPushes == Vpn!LoneAnswersHold
\* openvpn.py: the comment that a missing CCD file disables a deleted client.
DeletedIsDisabled == Vpn!DeletedIsDisabled
\* ssh_tunnel.py: a lone request answered ok has done all of it.
LoneAnswersHold == Tunnel!LoneAnswersHold
\* ssh_tunnel.py: no two forwards of a client configuration have one local port.
ForwardsOpen == Ports!ForwardsOpen
\* nginx.py: a listed certificate has its chain and its key.
ListedServes == Certs!ListedServes
=============================================================================
