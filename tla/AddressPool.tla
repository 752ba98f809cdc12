---------------------------- MODULE AddressPool ----------------------------
(***************************************************************************)
(* What a VPN promises about tunnel addresses: a client has at most one,  *)
(* it is taken only while nobody has it, and every change is one step.    *)
(* WireGuardPeers implements this with files and no lock.                  *)
(***************************************************************************)
CONSTANTS
    Peer,      \* the clients
    Address,   \* the addresses of the tunnel's subnet
    NoAddress  \* what a client without one has; not in Address

VARIABLE lease  \* the address of each client

Init == lease = [p \in Peer |-> NoAddress]

\* A client takes an address, its first one or another one, that is free.
Take(p, a) ==
    /\ \A q \in Peer : lease[q] # a
    /\ lease' = [lease EXCEPT ![p] = a]

\* A client leaves.
Release(p) == lease' = [lease EXCEPT ![p] = NoAddress]

Next == \E p \in Peer : Release(p) \/ \E a \in Address : Take(p, a)

Spec == Init /\ [][Next]_lease

\* No address is leased twice.
Exclusive ==
    \A p, q \in Peer : lease[p] = lease[q] /\ p # q => lease[p] = NoAddress
=============================================================================
