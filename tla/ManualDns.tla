----------------------------- MODULE ManualDns ------------------------------
(***************************************************************************)
(* The manual DNS challenge of the nginx edge: certbot runs a hook for each *)
(* domain, which shows a TXT record in pending.json and waits until the    *)
(* operator's confirmation leaves confirm.flag; the panel's runner waits    *)
(* for certbot and writes the result.  All of them share the files of one   *)
(* folder and know nothing of each other.                                  *)
(*                                                                          *)
(* The folder, the two routes of the API and the runner are the panel's;    *)
(* certbot is external: it runs the hooks of all domains in turn whatever   *)
(* they return, then asks the authority, then runs the cleanup hooks, and   *)
(* may refuse to start, as it does next to another certbot.                *)
(***************************************************************************)
EXTENDS Naturals

CONSTANTS
    Run,        \* requests to issue a certificate
    Confirmer,  \* confirmations that may be in progress at once
    MaxDomains, \* domains of a certificate
    Nothing     \* no such file

VARIABLES
    pending,   \* pending.json: the challenge it shows, a run and a domain
    flag,      \* confirm.flag is there
    status,    \* status.json
    result,    \* result.json
    certbot,   \* per run: certbot
    runner,    \* per run: the task of the panel that waits for certbot
    confirm,   \* per confirmation: the challenge it read
    clean,     \* the run that nothing disturbed
    asked,     \* its challenges for which a confirmation began
    confirmed, \* its challenges for which one ended while the hook waited
    lost       \* a runner went away before its certbot

folder == <<pending, flag, status, result>>
ghosts == <<clean, asked, confirmed, lost>>
vars == <<folder, certbot, runner, confirm, ghosts>>

Challenge == Run \X (1..MaxDomains)
Unborn == [at |-> "unborn", domains |-> 1, domain |-> 1, ok |-> TRUE]

TypeOK ==
    /\ pending \in Challenge \union {Nothing} /\ flag \in BOOLEAN
    /\ status \in {"idle", "starting", "waiting_for_txt", "validating", "timeout", "cleanup",
                   "done", "failed"}
    /\ result \in BOOLEAN \union {Nothing}
    /\ certbot \in [Run ->
          [at : {"unborn", "auth", "wait", "settle", "check", "cleanup", "exit", "gone"},
           domains : 1..MaxDomains, domain : 1..MaxDomains, ok : BOOLEAN]]
    /\ runner \in [Run -> {"unborn", "waits", "gone"}]
    /\ confirm \in [Confirmer -> Challenge \union {Nothing}]
    /\ asked \subseteq Challenge /\ confirmed \subseteq Challenge /\ clean \subseteq Run /\ lost \in BOOLEAN

Init ==
    /\ pending = Nothing /\ flag = FALSE /\ status = "idle" /\ result = Nothing
    /\ certbot = [r \in Run |-> Unborn] /\ runner = [r \in Run |-> "unborn"]
    /\ confirm = [c \in Confirmer |-> Nothing]
    /\ asked = {} /\ confirmed = {} /\ clean = {} /\ lost = FALSE

Live(r) == certbot[r].at \notin {"unborn", "gone"}
Shows(r) == <<r, certbot[r].domain>>
Moves(r, at) == certbot' = [certbot EXCEPT ![r].at = at]

-----------------------------------------------------------------------------
\* Mutant: a flag that is left over stays.
KeepFlag == flag
ResetFlag == FALSE

\* _acme_issue_manual_dns: no await between the reset and the start of certbot.
Issue(r, n) ==
    /\ certbot[r].at = "unborn"
    /\ pending' = Nothing /\ flag' = ResetFlag /\ result' = Nothing /\ status' = "starting"
    /\ certbot' = [certbot EXCEPT ![r] = [@ EXCEPT !.at = "auth", !.domains = n]]
    /\ runner' = [runner EXCEPT ![r] = "waits"]
    /\ clean' = IF /\ \A k \in Run \ {r} : ~Live(k)
                   /\ \A c \in Confirmer : confirm[c] = Nothing
                THEN {r} ELSE {}
    /\ asked' = {} /\ confirmed' = {} /\ UNCHANGED <<confirm, lost>>

CertbotRefuses(r) ==
    /\ certbot[r].at = "auth" /\ certbot[r].domain = 1
    /\ certbot' = [certbot EXCEPT ![r].at = "exit", ![r].ok = FALSE]
    /\ UNCHANGED <<folder, runner, confirm, ghosts>>

\* The hook of a domain.
AuthHook(r) ==
    /\ certbot[r].at = "auth"
    /\ pending' = Shows(r) /\ status' = "waiting_for_txt"
    /\ Moves(r, "wait")
    /\ UNCHANGED <<flag, result, runner, confirm, ghosts>>

HookSees(r) ==
    /\ certbot[r].at = "wait" /\ flag
    /\ flag' = FALSE /\ status' = "validating"
    /\ Moves(r, "settle")
    /\ UNCHANGED <<pending, result, runner, confirm, ghosts>>

\* After 240 looks at the flag, and a pause in which it may still come.
HookTimesOut(r) ==
    /\ certbot[r].at = "wait"
    /\ status' = "timeout"
    /\ certbot' = [certbot EXCEPT ![r].at = "settle", ![r].ok = FALSE]
    /\ clean' = clean \ {r}
    /\ UNCHANGED <<pending, flag, result, runner, confirm, asked, confirmed, lost>>

NextDomain(r) ==
    LET c == certbot[r]
    IN  /\ c.at = "settle"
        /\ certbot' = [certbot EXCEPT ![r] =
              IF c.domain < c.domains THEN [c EXCEPT !.at = "auth", !.domain = c.domain + 1]
              ELSE [c EXCEPT !.at = "check"]]
        /\ UNCHANGED <<folder, runner, confirm, ghosts>>

\* The authority looks for the records.
Validate(r) ==
    /\ certbot[r].at = "check"
    /\ \E ok \in BOOLEAN :
          /\ ok => certbot[r].ok
          /\ certbot' = [certbot EXCEPT ![r].at = "cleanup", ![r].ok = ok]
    /\ UNCHANGED <<folder, runner, confirm, ghosts>>

\* The hook removes what pending.json shows, whoever wrote it.
CleanupHook(r) ==
    LET c == certbot[r]
    IN  /\ c.at = "cleanup"
        /\ pending' = Nothing /\ status' = "cleanup"
        /\ certbot' = [certbot EXCEPT ![r] =
              IF c.domain > 1 THEN [c EXCEPT !.domain = c.domain - 1] ELSE [c EXCEPT !.at = "exit"]]
        /\ UNCHANGED <<flag, result, runner, confirm, ghosts>>

CertbotExits(r) ==
    /\ certbot[r].at = "exit"
    /\ Moves(r, "gone") /\ UNCHANGED <<folder, runner, confirm, ghosts>>

-----------------------------------------------------------------------------
\* Mutant: the result is written and the status left to the hooks.
ReportedByHooks(ok) == status
Reported(ok) == IF ok THEN "done" ELSE "failed"

\* _runner: the log and the import, whose awaits come before, change other files.
Report(r) ==
    /\ runner[r] = "waits" /\ certbot[r].at = "gone"
    /\ result' = certbot[r].ok /\ status' = Reported(certbot[r].ok)
    /\ runner' = [runner EXCEPT ![r] = "gone"]
    /\ UNCHANGED <<pending, flag, certbot, confirm, ghosts>>

\* After 1500 seconds, which the hooks of two domains may take; certbot goes on.
GiveUp(r) ==
    /\ runner[r] = "waits" /\ Live(r) /\ certbot[r].domains > 1
    /\ result' = FALSE /\ status' = Reported(FALSE)
    /\ runner' = [runner EXCEPT ![r] = "gone"]
    /\ lost' = TRUE
    /\ UNCHANGED <<pending, flag, certbot, confirm, asked, confirmed, clean>>

\* acme_manual_dns_confirm reads pending.json, asks the DNS, and sets the flag.
ConfirmStarts(c) ==
    /\ confirm[c] = Nothing /\ pending # Nothing
    /\ confirm' = [confirm EXCEPT ![c] = pending]
    /\ asked' = IF pending[1] \in clean THEN asked \union {pending} ELSE asked
    /\ clean' = IF pending \in asked THEN clean \ {pending[1]} ELSE clean
    /\ UNCHANGED <<folder, certbot, runner, confirmed, lost>>

ConfirmEnds(c) ==
    LET r == confirm[c][1]
    IN  /\ confirm[c] # Nothing
        /\ flag' = TRUE
        /\ confirm' = [confirm EXCEPT ![c] = Nothing]
        /\ IF r \in clean /\ certbot[r].at = "wait" /\ Shows(r) = confirm[c]
             THEN confirmed' = confirmed \union {confirm[c]} /\ UNCHANGED clean
             ELSE clean' = clean \ {r} /\ UNCHANGED confirmed
        /\ UNCHANGED <<pending, status, result, certbot, runner, asked, lost>>

\* The panel stops; systemd may take certbot with it.
Crash ==
    /\ \E r \in Run : runner[r] = "waits"
    /\ runner' = [r \in Run |-> IF runner[r] = "waits" THEN "gone" ELSE runner[r]]
    /\ certbot' \in {certbot, [r \in Run |-> IF Live(r) THEN [certbot[r] EXCEPT !.at = "gone"]
                                             ELSE certbot[r]]}
    /\ confirm' = [c \in Confirmer |-> Nothing]
    /\ lost' = TRUE
    /\ UNCHANGED <<folder, asked, confirmed, clean>>

Step(r) ==
    \/ CertbotRefuses(r) \/ AuthHook(r) \/ HookSees(r) \/ HookTimesOut(r) \/ NextDomain(r)
    \/ Validate(r) \/ CleanupHook(r) \/ CertbotExits(r) \/ Report(r)

Next ==
    \/ \E r \in Run : \/ \E n \in 1..MaxDomains : Issue(r, n)
                      \/ Step(r) \/ GiveUp(r)
    \/ \E c \in Confirmer : ConfirmStarts(c) \/ ConfirmEnds(c)
    \/ Crash

\* The hooks count their looks, certbot and the runner have timeouts.
Spec == Init /\ [][Next]_vars /\ \A r \in Run : WF_vars(Step(r))

-----------------------------------------------------------------------------
\* In a run that nobody disturbed (no other certbot or confirmation was there
\* when it started, no other run started since, no hook timed out, and every
\* challenge was confirmed at most once, while its hook waited) no hook goes on before its own challenge
\* was confirmed, whatever earlier runs and confirmations left in the folder.
ConfirmedFirst ==
    [][\A r \in clean : HookSees(r) => Shows(r) \in confirmed]_vars

\* What acme_manual_dns_status answers: the interface asks again while it is so.
Pending ==
    IF result = Nothing THEN pending # Nothing
    ELSE ~result /\ status \notin {"done", "failed", "timeout"}

\* The interface does not ask for ever, however runs overlap, unless a runner goes
\* away before its certbot.
ChallengeSettles == Pending ~> (~Pending \/ lost)
=============================================================================
