-------------------------- MODULE MCSpeedtestJobs --------------------------
(***************************************************************************)
(* Instances of SpeedtestJobs for TLC.                                     *)
(***************************************************************************)
EXTENDS SpeedtestJobs, TLC

Internet == [kind |-> "internet", port |-> 0, one_off |-> FALSE, limited |-> FALSE]
Client == [kind |-> "iperf_client", port |-> 0, one_off |-> FALSE, limited |-> FALSE]
Server(p, once, limit) ==
    [kind |-> "iperf_server", port |-> p, one_off |-> once, limited |-> limit]

\* The two tests that are limited to one at a time.
MCTestRequests == {Internet, Client}

\* Servers competing for two ports; the one on port 1 ends by itself.
MCServerRequests == {Server(1, TRUE, TRUE), Server(2, FALSE, FALSE)}

\* One request of each kind, the server without a lifetime.
MCMixedRequests == {Internet, Client, Server(1, TRUE, FALSE)}

MCNoRequest == [kind |-> "none"]

JobSymmetry == Permutations(Job)
=============================================================================
