-------------------------- MODULE MCSpeedtestMenu --------------------------
(***************************************************************************)
(* Instances for TLC of the speed tests.  A behaviour is about three jobs,  *)
(* all tests or all servers, or about the output of one iperf3.            *)
(***************************************************************************)
EXTENDS MCSpeedtestJobs, SequencesExt

CONSTANTS IperfRun, MaxSamples, MaxEmitted, Nothing, Stopped

VARIABLES
    menu,
    run, ahead, session, seen, pending, emitted, summary, out, base, phase, cut,
    since, shown, reply

MCRequests == MCTestRequests \cup MCServerRequests

\* Intervals 1 to n of a test; with several streams iperf3 adds their sum and a
\* separator.
Line(kind, role, id, at, omitted) ==
    [kind |-> kind, role |-> role, id |-> id, at |-> at, omitted |-> omitted]
Mark(kind) == Line(kind, "", "", 0, FALSE)
Ids(streams) == IF streams = 1 THEN <<"1">> ELSE <<"1", "2", "SUM">>
Block(kind, roles, streams, at, omitted) ==
    FlattenSeq([r \in DOMAIN roles |->
        [i \in DOMAIN Ids(streams) |-> Line(kind, roles[r], Ids(streams)[i], at, omitted)]])
Test(roles, streams, n, omit) ==
    FlattenSeq([at \in 1..n |->
        Block("interval", roles, streams, IF at = 1 THEN 1 ELSE at - omit, at <= omit)
        \o (IF streams = 1 THEN <<>> ELSE <<Mark("separator")>>)])
    \o <<Mark("separator")>> \o Block("end", roles, streams, 0, FALSE)
Session(roles, streams, n) ==
    <<Mark("accepted")>> \o Test(roles, streams, n, 0) \o <<Mark("listening")>>
Output(roles, expected, lines) ==
    [roles |-> {roles[i] : i \in DOMAIN roles}, expected |-> expected, lines |-> lines]
Sessions(first, second) == Output(<<>>, 0, <<Mark("listening")>> \o first \o second)
BrokenOff(n) ==
    <<Mark("accepted")>> \o [at \in 1..n |-> Line("interval", "", "1", at, FALSE)] \o <<Mark("listening")>>
\* A client with one or two streams, in one direction or both, and a server
\* with two sessions, the first of which may be in both directions or broken off.
MCRun ==
    {Output(<<"">>, s, Test(<<"">>, s, 3, omit)) : s \in {1, 2}, omit \in {0, 1}}
    \union {Output(<<"TX", "RX">>, s, Test(<<"TX", "RX">>, s, 2, 0)) : s \in {1, 2}}
    \union {Sessions(Session(<<"">>, s[1], 2), Session(<<"">>, s[2], 1)) : s \in {1, 2} \X {1, 2}}
    \union {Sessions(first, Session(<<"">>, 1, 1)) : first \in {Session(<<"TX", "RX">>, 1, 1), BrokenOff(2)}}

Stream == INSTANCE IperfStream WITH Run <- IperfRun

\* What iperf3 prints is a sequence of lines; no answer and no interval is one of the
\* two marks.
ASSUME StreamAssumption ==
    /\ MaxSamples \in Nat /\ MaxEmitted \in Nat
    /\ \A r \in IperfRun : r.lines \in Seq(Stream!Lines)
    /\ Nothing # Stopped /\ {Nothing, Stopped} \cap Stream!Answer = {}
    /\ Nothing \notin Stream!Slot

\* iperf3 prints its lines in the order the parser relies on.
ASSUME IperfAssumption == \A r \in IperfRun : Stream!Prints(r)

streamVars == <<run, ahead, session, seen, pending, emitted, summary, out, base, phase, cut,
                since, shown, reply>>

MenuInit ==
    /\ Init /\ Stream!Init
    /\ menu \in {MCTestRequests, MCServerRequests, {}}
    /\ menu # {} => run = Output(<<"">>, 1, Test(<<"">>, 1, 3, 0))
MenuNext ==
    /\ UNCHANGED menu
    /\ \/ /\ Next /\ UNCHANGED streamVars
          /\ \A j \in Job : params'[j] # params[j] => params'[j] \in menu
          /\ menu # {}
       \/ menu = {} /\ Stream!Next /\ UNCHANGED vars
MenuSpec == MenuInit /\ [][MenuNext]_<<vars, menu, streamVars>>

\* speedtest.py: a sample is one whole interval, and an interval one sample.
SamplesAreWhole == Stream!SamplesAreWhole
\* useJob.ts: a poller that stopped has every sample.
PollerHasAll == Stream!PollerHasAll
=============================================================================
