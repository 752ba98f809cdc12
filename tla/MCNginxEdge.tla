---------------------------- MODULE MCNginxEdge -----------------------------
(***************************************************************************)
(* Instances of NginxEdge for TLC: small sets of routes, chosen so that    *)
(* some clash, some lack a certificate and some are refused by nginx.      *)
(***************************************************************************)
EXTENDS NginxEdge, TLC

CONSTANTS c1, d1

Web == [id |-> "web", type |-> "https", names |-> {d1}, ip |-> "any", port |-> 443,
        cert |-> c1, enabled |-> TRUE, valid |-> TRUE]
Site == [Web EXCEPT !.id = "site", !.type = "http", !.cert = NoCert]
SiteOff == [Site EXCEPT !.enabled = FALSE]
\* The same route while it waits for its certificate.
Bare == [Web EXCEPT !.cert = NoCert]
Tcp == [id |-> "tcp", type |-> "tcp", names |-> {}, ip |-> "any", port |-> 5432,
        cert |-> NoCert, enabled |-> TRUE, valid |-> TRUE]
\* The same route as nginx -t refuses it, say for a host that does not resolve.
Broken == [Tcp EXCEPT !.valid = FALSE]
\* The name of Site on the listener of Site, of the other layer.
Sni == [Tcp EXCEPT !.id = "sni", !.type = "tls", !.port = 443, !.names = {d1}]

MCSerialRoutes == {Web, Bare, Broken}
MCCrashRoutes == {Web, Tcp}
MCClashRoutes == {Site, SiteOff, Sni}

HandlerSymmetry == Permutations(Handler)
=============================================================================
