--------------------------- MODULE SpeedtestJobs ---------------------------
(***************************************************************************)
(* The in-memory job manager behind the Speedtest module: Internet tests,  *)
(* iperf3 client tests and iperf3 servers, all tasks of one asyncio loop.  *)
(*                                                                         *)
(* A step of the model is the code between two suspension points of a     *)
(* coroutine (a task, an HTTP handler, the shutdown sweep), so every      *)
(* interleaving the event loop can produce is a behaviour.  Timers may    *)
(* fire at any moment; a subprocess may exit at any moment.  Measurements,*)
(* log lines, phases and the polling of buffers are abstracted away.      *)
(*                                                                         *)
(* The first segment of a task is part of the Start action: create_task   *)
(* runs it in the next turn of the loop, and no request can name the job  *)
(* before the start response has carried its id.  History writes succeed. *)
(*                                                                         *)
(* The panel was configured when it booted: a panel that boots into the   *)
(* setup wizard returns from its lifespan without sweeping the jobs that  *)
(* were started after the wizard finished.                                *)
(***************************************************************************)
EXTENDS Naturals, FiniteSets, Sequences

CONSTANTS
    Job,          \* the job identifiers uuid4 may return
    Request,      \* the request bodies clients may send
    NoRequest,    \* the params of a job that does not exist yet
    MaxFinished,  \* MAX_FINISHED_JOBS
    MaxServers,   \* iperf3 servers that may run at once
    HistorySize   \* the history_size option

Kind == {"internet", "iperf_client", "iperf_server"}

\* A request: its kind and, for a server, its port, one_off flag and whether
\* max_lifetime is positive.
RequestType == [kind : Kind, port : Nat, one_off : BOOLEAN, limited : BOOLEAN]

ASSUME RequestAssumption ==
    /\ Request \subseteq RequestType
    /\ NoRequest \notin Request
ASSUME BoundsAssumption ==
    /\ MaxFinished \in Nat
    /\ MaxServers \in Nat
    /\ HistorySize \in Nat \ {0}

VARIABLES
    known,    \* the ids in JobManager.jobs
    born,     \* creation order (started_at); 0 before the job exists
    clock,    \* jobs created so far
    params,   \* Job.params
    status,   \* Job.status, "unborn" before creation
    task,     \* where the job's task is suspended
    cancel,   \* task.cancel() was called and is not delivered yet
    stop,     \* Job.stop_requested
    proc,     \* the iperf3 process: none, alive, termed, killed, exited
    waiters,  \* jobs some stop() call is waiting on
    missed,   \* jobs a stop() call found without a process handle
    history,  \* history.json, newest first
    up,       \* the application: up, sweeping (stop_all), down
    sweep     \* jobs stop_all has still to visit

jobVars == <<known, born, clock, params>>
taskVars == <<status, task, cancel, stop>>
stopVars == <<waiters, missed>>
appVars == <<up, sweep>>
vars == <<jobVars, taskVars, proc, stopVars, history, appVars>>

-----------------------------------------------------------------------------
ActiveStatus == {"starting", "running"}
FinalStatus == {"done", "error", "stopped"}
Status == {"unborn"} \cup ActiveStatus \cup FinalStatus

\* Suspension points: connect .. closing are run_internet_test's, probe ..
\* waiting are run_iperf_client's and run_iperf_server's; a task that let an
\* exception escape has died.
TaskState == {"none", "connect", "testing", "closing", "probe", "exec",
              "reading", "waiting", "over", "died"}
ProcState == {"none", "alive", "termed", "killed", "exited"}
Live == {"alive", "termed", "killed"}

Active(j) == status[j] \in ActiveStatus
ActiveOf(kind) == {j \in known : Active(j) /\ params[j].kind = kind}
IsIperf(j) == params[j].kind \in {"iperf_client", "iperf_server"}

\* job.proc is set once create_subprocess_exec has returned.
HasHandle(j) == task[j] \in {"reading", "waiting", "over", "died"}
CanSignal(j) == HasHandle(j) /\ proc[j] \in Live

TypeOK ==
    /\ known \subseteq Job
    /\ born \in [Job -> Nat]
    /\ clock \in Nat
    /\ params \in [Job -> Request \cup {NoRequest}]
    /\ status \in [Job -> Status]
    /\ task \in [Job -> TaskState]
    /\ cancel \in [Job -> BOOLEAN]
    /\ stop \in [Job -> BOOLEAN]
    /\ proc \in [Job -> ProcState]
    /\ waiters \subseteq Job
    /\ missed \subseteq Job
    /\ history \in Seq(Job)
    /\ up \in {"up", "sweeping", "down"}
    /\ sweep \subseteq Job

Init ==
    /\ known = {}
    /\ born = [j \in Job |-> 0]
    /\ clock = 0
    /\ params = [j \in Job |-> NoRequest]
    /\ status = [j \in Job |-> "unborn"]
    /\ task = [j \in Job |-> "none"]
    /\ cancel = [j \in Job |-> FALSE]
    /\ stop = [j \in Job |-> FALSE]
    /\ proc = [j \in Job |-> "none"]
    /\ waiters = {}
    /\ missed = {}
    /\ history = <<>>
    /\ up = "up"
    /\ sweep = {}

-----------------------------------------------------------------------------
(***************************************************************************)
(* Creating jobs.                                                          *)
(***************************************************************************)

\* Mutants of _gc: it counts active jobs too; it never runs; it sorts the
\* wrong way.
GcOfAnyJob(S, done) ==
    {j \in S : Cardinality({k \in S : born[k] > born[j]}) >= MaxFinished}
GcOfNothing(S, done) == {}

\* _gc: the finished jobs that at least MaxFinished younger ones outlive.
Expired(S, done) ==
    {j \in S \cap done :
        Cardinality({k \in S \cap done : born[k] > born[j]}) >= MaxFinished}

Finished == {j \in known : ~Active(j)}

\* JobManager.create; the new job is active, so _gc never takes it.
Create(j, r) ==
    /\ known' = (known \cup {j}) \ Expired(known, Finished)
    /\ clock' = clock + 1
    /\ born' = [born EXCEPT ![j] = clock + 1]
    /\ params' = [params EXCEPT ![j] = r]

StartInternet(j, r) ==
    /\ r.kind = "internet"
    /\ ActiveOf("internet") = {}
    /\ Create(j, r)
    /\ status' = [status EXCEPT ![j] = "running"]
    /\ task' = [task EXCEPT ![j] = "connect"]

\* Mutant: the check sees only tests that already run.
StartClientUnlessRunning(j, r) ==
    /\ r.kind = "iperf_client"
    /\ \A k \in ActiveOf("iperf_client") : status[k] # "running"
    /\ Create(j, r)
    /\ status' = [status EXCEPT ![j] = "starting"]
    /\ task' = [task EXCEPT ![j] = "probe"]

StartClient(j, r) ==
    /\ r.kind = "iperf_client"
    /\ ActiveOf("iperf_client") = {}
    /\ Create(j, r)
    /\ status' = [status EXCEPT ![j] = "starting"]
    /\ task' = [task EXCEPT ![j] = "probe"]

StartServer(j, r) ==
    /\ r.kind = "iperf_server"
    /\ \A k \in ActiveOf("iperf_server") : params[k].port # r.port
    /\ Cardinality(ActiveOf("iperf_server")) < MaxServers
    /\ Create(j, r)
    /\ status' = [status EXCEPT ![j] = "starting"]
    /\ task' = [task EXCEPT ![j] = "probe"]

Start(j) ==
    /\ up = "up"
    /\ born[j] = 0
    /\ \E r \in Request :
        StartInternet(j, r) \/ StartClient(j, r) \/ StartServer(j, r)
    /\ UNCHANGED <<cancel, stop, proc, stopVars, history, appVars>>

-----------------------------------------------------------------------------
(***************************************************************************)
(* Finishing and the history file.                                         *)
(***************************************************************************)


\* _finish: a requested stop turns every outcome but "error" into "stopped".
Outcome(j, wanted) ==
    IF stop[j] /\ wanted # "error" THEN "stopped" ELSE wanted

Finish(j, wanted) == status' = [status EXCEPT ![j] = Outcome(j, wanted)]

\* append_history: newest first, truncated to the configured size.
Recorded(j) ==
    LET items == <<j>> \o history
    IN  IF Len(items) > HistorySize THEN SubSeq(items, 1, HistorySize) ELSE items

RecordIfDone(j) ==
    history' = IF status'[j] = "done" THEN Recorded(j) ELSE history

Resume(j, from, to) ==
    /\ up # "down"
    /\ task[j] = from
    /\ task' = [task EXCEPT ![j] = to]

-----------------------------------------------------------------------------
(***************************************************************************)
(* run_internet_test.                                                      *)
(***************************************************************************)

MetaArrives(j) ==
    /\ Resume(j, "connect", "testing")
    /\ ~cancel[j]
    /\ UNCHANGED <<status, history>>

\* An HTTP error of the metadata request: finished first, client closed next.
MetaFails(j) ==
    /\ Resume(j, "connect", "closing")
    /\ ~cancel[j]
    /\ Finish(j, "error")
    /\ UNCHANGED history

\* Mutant: "done" is set inside the client's context, which is closed after.
TestEndsThenCloses(j) ==
    /\ Resume(j, "testing", "closing")
    /\ ~cancel[j]
    /\ Finish(j, "done")
    /\ RecordIfDone(j)

TestEnds(j) ==
    /\ Resume(j, "testing", "over")
    /\ ~cancel[j]
    /\ Finish(j, "done")
    /\ RecordIfDone(j)

TestFails(j) ==
    /\ task[j] \in {"connect", "testing"}
    /\ Resume(j, task[j], "over")
    /\ ~cancel[j]
    /\ Finish(j, "error")
    /\ UNCHANGED history

Closes(j) ==
    /\ Resume(j, "closing", "over")
    /\ ~cancel[j]
    /\ UNCHANGED <<status, history>>

\* CancelledError surfaces at whatever await the task is suspended in.
Cancelled(j) ==
    /\ task[j] \in {"connect", "testing", "closing"}
    /\ Resume(j, task[j], "over")
    /\ cancel[j]
    /\ Finish(j, "stopped")
    /\ UNCHANGED history

InternetStep(j) ==
    /\ \/ MetaArrives(j) \/ MetaFails(j) \/ TestEnds(j)
       \/ TestFails(j) \/ Closes(j) \/ Cancelled(j)
    /\ cancel' = [cancel EXCEPT ![j] = FALSE]
    /\ UNCHANGED <<jobVars, stop, proc, stopVars, appVars>>

-----------------------------------------------------------------------------
(***************************************************************************)
(* run_iperf_client and run_iperf_server.                                  *)
(***************************************************************************)

\* iperf_options answered and create_subprocess_exec forked the process.
Forks(j) ==
    /\ Resume(j, "probe", "exec")
    /\ proc' = [proc EXCEPT ![j] = "alive"]
    /\ UNCHANGED <<status, stop, history>>

ForkFails(j) ==
    /\ Resume(j, "probe", "over")
    /\ Finish(j, "error")
    /\ UNCHANGED <<stop, proc, history>>

\* job.proc = proc; a client runs from here, a server once it listens.
Attaches(j) ==
    /\ Resume(j, "exec", "reading")
    /\ status' = IF params[j].kind = "iperf_client"
                 THEN [status EXCEPT ![j] = "running"] ELSE status
    /\ UNCHANGED <<stop, proc, history>>

\* _read_process meets "Server listening on".
Listens(j) ==
    /\ up # "down"
    /\ task[j] = "reading"
    /\ params[j].kind = "iperf_server"
    /\ status[j] = "starting"
    /\ status' = [status EXCEPT ![j] = "running"]
    /\ UNCHANGED <<task, stop, proc, history>>

\* _read_process meets the end of the process' output.
Eof(j) ==
    /\ Resume(j, "reading", "waiting")
    /\ proc[j] = "exited"
    /\ UNCHANGED <<status, stop, proc, history>>

\* Mutant: the hard limit gives up reading but kills nothing.
HardLimitKillsNothing(j) ==
    /\ params[j].kind = "iperf_client"
    /\ Resume(j, "reading", "waiting")
    /\ proc[j] # "exited"
    /\ UNCHANGED <<status, stop, proc, history>>

\* wait_for(hard_limit) expires: the process is killed.
HardLimit(j) ==
    /\ params[j].kind = "iperf_client"
    /\ Resume(j, "reading", "waiting")
    /\ proc[j] # "exited"
    /\ proc' = [proc EXCEPT ![j] = "killed"]
    /\ UNCHANGED <<status, stop, history>>

\* wait_for(max_lifetime) expires: stop requested, SIGTERM and nothing more.
Lifetime(j) ==
    /\ params[j].kind = "iperf_server"
    /\ params[j].limited
    /\ Resume(j, "reading", "waiting")
    /\ proc[j] # "exited"
    /\ stop' = [stop EXCEPT ![j] = TRUE]
    /\ proc' = [proc EXCEPT ![j] = IF @ = "alive" THEN "termed" ELSE @]
    /\ UNCHANGED <<status, history>>

\* Either limit expires in the turn in which the process was reaped: the
\* signal raises ProcessLookupError, which nothing catches.
LimitAfterExit(j) ==
    /\ params[j].kind = "iperf_server" => params[j].limited
    /\ Resume(j, "reading", "died")
    /\ proc[j] = "exited"
    /\ stop' = IF params[j].kind = "iperf_server"
               THEN [stop EXCEPT ![j] = TRUE] ELSE stop
    /\ UNCHANGED <<status, proc, history>>

\* proc.wait() returned; exitedWell stands for the test of the return code
\* (0 for a client, 0 or -SIGTERM for a server).
ClientEnds(j) ==
    /\ params[j].kind = "iperf_client"
    /\ Resume(j, "waiting", "over")
    /\ proc[j] = "exited"
    /\ \E exitedWell \in BOOLEAN :
        Finish(j, IF stop[j] THEN "stopped"
                  ELSE IF exitedWell THEN "done" ELSE "error")
    /\ RecordIfDone(j)
    /\ UNCHANGED <<stop, proc>>

\* Mutant: the server finishes without waiting for its process.
ServerEndsEarly(j) ==
    /\ params[j].kind = "iperf_server"
    /\ Resume(j, "waiting", "over")
    /\ Finish(j, "stopped")
    /\ UNCHANGED <<stop, proc, history>>

ServerEnds(j) ==
    /\ params[j].kind = "iperf_server"
    /\ Resume(j, "waiting", "over")
    /\ proc[j] = "exited"
    /\ \E exitedWell \in BOOLEAN :
        Finish(j, IF ~stop[j] /\ ~exitedWell THEN "error"
                  ELSE IF params[j].one_off /\ ~stop[j] THEN "done"
                  ELSE "stopped")
    /\ UNCHANGED <<stop, proc, history>>

IperfStep(j) ==
    /\ \/ Forks(j) \/ ForkFails(j) \/ Attaches(j) \/ Listens(j) \/ Eof(j)
       \/ HardLimit(j) \/ Lifetime(j) \/ LimitAfterExit(j)
       \/ ClientEnds(j) \/ ServerEnds(j)
    /\ UNCHANGED <<jobVars, cancel, stopVars, appVars>>

\* The kernel: a live process exits, for whatever reason.
Exits(j) ==
    /\ proc[j] \in Live
    /\ proc' = [proc EXCEPT ![j] = "exited"]
    /\ UNCHANGED <<jobVars, taskVars, stopVars, history, appVars>>

-----------------------------------------------------------------------------
(***************************************************************************)
(* Stopping: JobManager.stop up to its first await, the end of that await, *)
(* and the shutdown sweep that calls it job by job.                        *)
(***************************************************************************)

StopCall(j) ==
    /\ stop' = [stop EXCEPT ![j] = TRUE]
    /\ proc' = [proc EXCEPT ![j] =
                    IF HasHandle(j) /\ @ = "alive" THEN "termed" ELSE @]
    /\ waiters' = IF CanSignal(j) THEN waiters \cup {j} ELSE waiters
    /\ missed' = IF IsIperf(j) /\ ~HasHandle(j) THEN missed \cup {j} ELSE missed
    /\ cancel' = [cancel EXCEPT ![j] =
                    @ \/ (params[j].kind = "internet" /\ task[j] # "over")]

\* POST /jobs/{id}/stop.
StopRequest(j) ==
    /\ up = "up"
    /\ j \in known
    /\ StopCall(j)
    /\ UNCHANGED <<jobVars, status, task, history, appVars>>

\* wait_for(proc.wait(), 3.0) returned ...
StopReturns(j) ==
    /\ up # "down"
    /\ j \in waiters
    /\ proc[j] = "exited"
    /\ waiters' = waiters \ {j}
    /\ UNCHANGED <<jobVars, taskVars, proc, missed, history, appVars>>

\* Mutant: the timeout of stop() is swallowed.
StopGivesUp(j) ==
    /\ up # "down"
    /\ j \in waiters
    /\ proc[j] \in Live
    /\ waiters' = waiters \ {j}
    /\ UNCHANGED <<jobVars, taskVars, proc, missed, history, appVars>>

\* ... or timed out: SIGKILL.
StopKills(j) ==
    /\ up # "down"
    /\ j \in waiters
    /\ proc[j] \in Live
    /\ proc' = [proc EXCEPT ![j] = "killed"]
    /\ waiters' = waiters \ {j}
    /\ UNCHANGED <<jobVars, taskVars, missed, history, appVars>>

\* The lifespan ends once the server has finished its requests.
BeginShutdown ==
    /\ up = "up"
    /\ waiters = {}
    /\ up' = "sweeping"
    /\ sweep' = known
    /\ UNCHANGED <<jobVars, taskVars, proc, stopVars, history>>

\* stop_all visits its copy of the jobs one by one, in insertion order.
SweepVisit(j) ==
    /\ up = "sweeping"
    /\ waiters = {}
    /\ j \in sweep
    /\ \A k \in sweep : born[j] <= born[k]
    /\ sweep' = sweep \ {j}
    /\ IF Active(j) THEN StopCall(j) ELSE UNCHANGED <<stop, cancel, proc, stopVars>>
    /\ UNCHANGED <<jobVars, status, task, history, up>>

SweepEnds ==
    /\ up = "sweeping"
    /\ sweep = {}
    /\ waiters = {}
    /\ up' = "down"
    /\ UNCHANGED <<jobVars, taskVars, proc, stopVars, history, sweep>>

-----------------------------------------------------------------------------
(***************************************************************************)
(* DELETE /history, of one entry or of all.                                *)
(***************************************************************************)
DropEntry(i) == SubSeq(history, 1, i - 1) \o SubSeq(history, i + 1, Len(history))

DeleteHistory ==
    /\ up = "up"
    /\ \/ history' = <<>>
       \/ \E i \in 1..Len(history) : history' = DropEntry(i)
    /\ UNCHANGED <<jobVars, taskVars, proc, stopVars, appVars>>

-----------------------------------------------------------------------------
Next ==
    \/ \E j \in Job :
        \/ Start(j) \/ InternetStep(j) \/ IperfStep(j) \/ Exits(j)
        \/ StopRequest(j) \/ StopReturns(j) \/ StopKills(j) \/ SweepVisit(j)
    \/ BeginShutdown
    \/ SweepEnds
    \/ DeleteHistory

Spec == Init /\ [][Next]_vars

(***************************************************************************)
(* Fairness: the loop resumes every task whose await can end (each await   *)
(* of a test is bounded by a timeout), the 3 s timer of a stop() fires, and *)
(* the kernel reaps a killed process.  Nothing says that a process obeys    *)
(* SIGTERM, that a client stops a job or that the application shuts down.  *)
(***************************************************************************)
KernelReaps(j) == proc[j] = "killed" /\ Exits(j)
TaskStep(j) == InternetStep(j) \/ IperfStep(j)
StopEnds(j) == StopReturns(j) \/ StopKills(j)

FairSpec ==
    /\ Spec
    /\ \A j \in Job : /\ WF_vars(TaskStep(j))
                      /\ WF_vars(StopEnds(j))
                      /\ WF_vars(KernelReaps(j))

-----------------------------------------------------------------------------
(***************************************************************************)
(* Properties.                                                             *)
(***************************************************************************)

\* The 409 answers of the start handlers: one Internet test and one iperf3
\* client test at a time, MaxServers servers, no two of them on one port.
OneTestAtATime ==
    /\ \A j, k \in Job :
        /\ Active(j) /\ Active(k) /\ j # k
        /\ params[j].kind = params[k].kind
        => /\ params[j].kind = "iperf_server"
           /\ params[j].port # params[k].port
    /\ Cardinality(ActiveOf("iperf_server")) <= MaxServers

\* Finished means finished: when a job leaves "starting"/"running" its iperf3
\* process is gone, so the slot and the port its status frees really are free.
FinishedHasNoProcess ==
    \A j \in Job : status[j] \in FinalStatus => proc[j] \notin Live

\* Every process that still runs belongs to a job the manager still lists, so
\* GET /jobs shows it and POST /jobs/{id}/stop can reach it: _gc never
\* forgets a job whose process lives.
LiveIsListed == \A j \in Job : proc[j] \in Live => j \in known /\ Active(j)

\* The job table is bounded although _gc runs on creation only: jobs that
\* finish between two creations can exceed MaxFinished only by those that
\* were active, one for each test and each port of a server.
TableBounded ==
    Cardinality(known)
        <= MaxFinished + Cardinality({<<params[j].kind, params[j].port>> : j \in known})

\* A finished job keeps its outcome; the one exception the code has is an
\* Internet test that failed, whose client is still closing when a stop
\* cancels the task: "error" is then overwritten by "stopped".
OutcomeIsFinal ==
    [][\A j \in Job :
        status[j] \in FinalStatus =>
            \/ status'[j] = status[j]
            \/ status[j] = "error" /\ status'[j] = "stopped" /\ task[j] = "closing"
      ]_vars

\* After stop_all no iperf3 process is left running except one that the sweep
\* (or an earlier stop) found without a handle, i.e. still being launched.
ShutdownLeavesNoProcess ==
    up = "down" =>
        \A j \in Job : proc[j] \in {"alive", "termed"} => j \in missed

\* Every bounded test ends: an Internet test and an iperf3 client leave the
\* active state whatever the peer does (unless its task died at the limit).
TestsEnd ==
    \A j \in Job :
        Active(j) /\ params[j].kind # "iperf_server"
            ~> ~Active(j) \/ task[j] = "died" \/ up = "down"

\* A stop that found the process frees the slot, even if the process ignores
\* SIGTERM.
StopFreesSlot ==
    \A j \in Job :
        j \in waiters ~> ~Active(j) \/ task[j] = "died" \/ up = "down"

\* module_docs.py: "every finished test is stored" (checked, and violated, in
\* the run that records the divergence).
EveryFinishedTestIsStored ==
    [][\A j \in Job :
        Active(j) /\ status'[j] = "done" =>
            \E i \in 1..Len(history') : history'[i] = j]_vars

=============================================================================
