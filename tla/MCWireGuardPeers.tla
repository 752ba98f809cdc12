-------------------------- MODULE MCWireGuardPeers --------------------------
\* A small VPN.  Requests, identifiers, names and addresses are interchangeable:
\* the module only compares them for equality.
EXTENDS WireGuardPeers, TLC

MCSymmetry ==
    Permutations(Handler) \union Permutations(Peer) \union Permutations(Name)
        \union Permutations(Address)
=============================================================================
