----------------------------- MODULE MCProgress -----------------------------
(***************************************************************************)
(* The parts of the panel that are checked for progress: the login limiter, *)
(* the speed tests and the manual DNS challenge.  They share no state: a    *)
(* behaviour picks the part that moves, and is fair to that part.  One of   *)
(* the challenges has a single domain.                                     *)
(***************************************************************************)
EXTENDS MCLoginLimiter

CONSTANTS Job, MaxFinished, MaxServers, HistorySize, Run, Confirmer, MaxDomains, Nothing

ASSUME DomainsAssumption == MaxDomains \in Nat \ {0}

VARIABLES
    part,
    known, born, clock, params, status, task, cancel, stop, proc, waiters, missed,
    history, up, sweep,
    pending, flag, dnsStatus, result, certbot, runner, confirm, clean, asked, confirmed, lost

R(kind, port, once) == [kind |-> kind, port |-> port, one_off |-> once, limited |-> FALSE]

\* One request of each kind, the server without a lifetime.
MCMixedRequests == {R("internet", 0, FALSE), R("iperf_client", 0, FALSE), R("iperf_server", 1, TRUE)}

Jobs == INSTANCE SpeedtestJobs
    WITH Request <- MCMixedRequests, NoRequest <- [kind |-> "none"]

Dns == INSTANCE ManualDns WITH status <- dnsStatus

dnsVars == <<pending, flag, dnsStatus, result, certbot, runner, confirm, clean, asked, confirmed, lost>>
jobVars == <<known, born, clock, params, status, task, cancel, stop, proc, waiters,
             missed, history, up, sweep>>

ProgressInit ==
    /\ part \in {"login", "jobs", "dns"} /\ Init /\ Jobs!Init /\ Dns!Init
    /\ part # "login" => key = [h \in Handler |-> CHOOSE k \in Key : TRUE]
ProgressNext ==
    /\ UNCHANGED part
    /\ \/ part = "login" /\ Next /\ UNCHANGED <<jobVars, dnsVars>>
       \/ part = "jobs" /\ Jobs!Next /\ UNCHANGED <<vars, dnsVars>>
       \/ /\ part = "dns" /\ Dns!Next
          /\ \E r \in Run : certbot'[r].domains = 1
          /\ UNCHANGED <<vars, jobVars>>
ProgressSpec ==
    /\ ProgressInit /\ [][ProgressNext]_<<part, vars, jobVars, dnsVars>>
    /\ WF_vars(part = "login" /\ Tick)
    /\ \A h \in Handler : WF_vars(part = "login" /\ (LoginFails(h) \/ LoginSucceeds(h)))
    /\ \A j \in Job : /\ WF_jobVars(part = "jobs" /\ Jobs!TaskStep(j))
                      /\ WF_jobVars(part = "jobs" /\ Jobs!StopEnds(j))
                      /\ WF_jobVars(part = "jobs" /\ Jobs!KernelReaps(j))
    /\ \A r \in Run : WF_dnsVars(part = "dns" /\ Dns!Step(r))

\* speedtest.py: every bounded test ends.
TestsEnd == Jobs!TestsEnd
\* speedtest.py: a stop that found the process frees the slot.
StopFreesSlot == Jobs!StopFreesSlot
\* nginx.py: a hook of an undisturbed run waits for its own confirmation.
ConfirmedFirst == Dns!ConfirmedFirst
\* nginx.py: the interface does not wait for a challenge for ever.
ChallengeSettles == Dns!ChallengeSettles
=============================================================================
