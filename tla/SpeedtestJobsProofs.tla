------------------------ MODULE SpeedtestJobsProofs ------------------------
(***************************************************************************)
(* Theorems about the speed tests, for every set of jobs and requests and  *)
(* every bound. The job table: type correctness, one test at a time, no    *)
(* process behind a finished job, every process listed, outcomes that      *)
(* stay, a shutdown that leaves no process, a table that stays small. The  *)
(* stream of samples: a sample is one whole interval, and a poller that    *)
(* stopped has all that the job keeps.                                     *)
(***************************************************************************)
EXTENDS MCSpeedtestMenu, FiniteSetTheorems, SequenceTheorems, TLAPS

(***************************************************************************)
(* The inductive invariant: where a task is suspended determines what its  *)
(* job's status and process may be.                                        *)
(***************************************************************************)
TestTask == {"connect", "testing"}
IperfTask == {"probe", "exec", "reading", "waiting", "died"}

\* A job exists once its task does, and keeps its request.
BirthInv ==
    \A j \in Job :
        /\ status[j] = "unborn" <=> task[j] = "none"
        /\ born[j] = 0 <=> task[j] = "none"
        /\ params[j] = NoRequest <=> task[j] = "none"

\* Status by suspension point.
StatusInv ==
    \A j \in Job :
        /\ task[j] \in TestTask \cup {"closing"} => params[j].kind = "internet"
        /\ task[j] \in IperfTask => params[j].kind # "internet"
        /\ task[j] \in TestTask \cup IperfTask => Active(j)
        /\ task[j] = "closing" => status[j] = "error"
        /\ task[j] = "over" => status[j] \in FinalStatus

\* Process by suspension point: none before the fork, gone at the end.
ProcInv ==
    \A j \in Job :
        /\ task[j] \in {"none", "probe", "connect", "testing", "closing"}
              => proc[j] = "none"
        /\ task[j] \in {"over", "died"} => proc[j] \notin Live

\* An active job is in the manager's table.
KnownInv ==
    /\ IsFiniteSet(known)
    /\ \A j \in Job : Active(j) => j \in known
    /\ \A j \in known : status[j] # "unborn"

IInv == TypeOK /\ BirthInv /\ StatusInv /\ ProcInv /\ KnownInv /\ OneTestAtATime

-----------------------------------------------------------------------------
(***************************************************************************)
(* Type correctness.                                                       *)
(***************************************************************************)
LEMMA InitTypeOK == Init => TypeOK
BY DEF Init, TypeOK, Status, TaskState, ProcState

LEMMA HistoryType ==
    ASSUME NEW j \in Job, history \in Seq(Job)
    PROVE  Recorded(j) \in Seq(Job)
<1> DEFINE items == <<j>> \o history
<1>1. items \in Seq(Job) /\ Len(items) \in Nat
  OBVIOUS
<1>2. CASE Len(items) > HistorySize
  <2>1. SubSeq(items, 1, HistorySize) \in Seq(Job)
    BY <1>1, <1>2, BoundsAssumption
  <2> QED BY <1>2, <2>1 DEF Recorded
<1>3. CASE ~(Len(items) > HistorySize)
  BY <1>1, <1>3 DEF Recorded
<1> QED BY <1>2, <1>3

LEMMA DropEntryType ==
    ASSUME history \in Seq(Job), NEW i \in 1..Len(history)
    PROVE  DropEntry(i) \in Seq(Job)
<1>1. SubSeq(history, 1, i - 1) \in Seq(Job)
  OBVIOUS
<1>2. SubSeq(history, i + 1, Len(history)) \in Seq(Job)
  OBVIOUS
<1> QED BY <1>1, <1>2 DEF DropEntry

LEMMA OutcomeType ==
    ASSUME TypeOK, NEW j \in Job, NEW w \in FinalStatus, Finish(j, w)
    PROVE  /\ status' \in [Job -> Status]
           /\ status' = [status EXCEPT ![j] = status'[j]]
           /\ status'[j] \in FinalStatus
BY DEF TypeOK, Finish, Outcome, Status, FinalStatus

LEMMA StartTypeOK ==
    ASSUME TypeOK, NEW j \in Job, Start(j)
    PROVE  TypeOK'
<1>1. PICK r \in Request :
          StartInternet(j, r) \/ StartClient(j, r) \/ StartServer(j, r)
  BY DEF Start
<1>2. Create(j, r) /\ status' \in [Job -> Status] /\ task' \in [Job -> TaskState]
  BY <1>1 DEF StartInternet, StartClient, StartServer, TypeOK, Status,
              ActiveStatus, TaskState
<1>3. /\ known' \subseteq Job /\ clock' \in Nat /\ born' \in [Job -> Nat]
      /\ params' \in [Job -> Request \cup {NoRequest}]
  BY <1>2 DEF Create, TypeOK
<1> QED BY <1>2, <1>3 DEF Start, TypeOK, appVars, stopVars

LEMMA InternetTypeOK ==
    ASSUME TypeOK, NEW j \in Job, InternetStep(j)
    PROVE  TypeOK'
<1>1. task' \in [Job -> TaskState]
  BY DEF InternetStep, MetaArrives, MetaFails, TestEnds, TestFails, Closes,
         Cancelled, Resume, TypeOK, TaskState
<1>2. status' \in [Job -> Status]
  BY OutcomeType DEF InternetStep, MetaArrives, MetaFails, TestEnds, TestFails,
         Closes, Cancelled, TypeOK, FinalStatus
<1>3. history' \in Seq(Job)
  <2>1. CASE TestEnds(j)
    BY <2>1, HistoryType DEF TestEnds, RecordIfDone, TypeOK
  <2>2. CASE ~TestEnds(j)
    BY <2>2 DEF InternetStep, MetaArrives, MetaFails, TestFails, Closes,
                Cancelled, TypeOK
  <2> QED BY <2>1, <2>2
<1> QED BY <1>1, <1>2, <1>3 DEF InternetStep, TypeOK, jobVars, stopVars, appVars

LEMMA IperfTypeOK ==
    ASSUME TypeOK, NEW j \in Job, IperfStep(j)
    PROVE  TypeOK'
<1> USE DEF IperfStep, Forks, ForkFails, Attaches, Listens, Eof, HardLimit,
            Lifetime, LimitAfterExit, ClientEnds, ServerEnds, Resume
<1>1. task' \in [Job -> TaskState]
  BY DEF TypeOK, TaskState
<1>2. status' \in [Job -> Status]
  <2>1. CASE ClientEnds(j) \/ ServerEnds(j) \/ ForkFails(j)
    BY <2>1, OutcomeType DEF FinalStatus
  <2>2. CASE ~(ClientEnds(j) \/ ServerEnds(j) \/ ForkFails(j))
    BY <2>2 DEF TypeOK, Status, ActiveStatus
  <2> QED BY <2>1, <2>2
<1>3. history' \in Seq(Job)
  BY HistoryType DEF RecordIfDone, TypeOK
<1>4. stop' \in [Job -> BOOLEAN] /\ proc' \in [Job -> ProcState]
  BY DEF TypeOK, ProcState
<1> QED BY <1>1, <1>2, <1>3, <1>4 DEF TypeOK, jobVars, stopVars, appVars

LEMMA StopCallTypeOK ==
    ASSUME TypeOK, NEW j \in Job, StopCall(j)
    PROVE  /\ stop' \in [Job -> BOOLEAN]
           /\ proc' \in [Job -> ProcState]
           /\ waiters' \subseteq Job
           /\ missed' \subseteq Job
           /\ cancel' \in [Job -> BOOLEAN]
<1>1. proc' \in [Job -> ProcState]
  BY DEF StopCall, TypeOK, ProcState
<1>2. cancel' \in [Job -> BOOLEAN] /\ stop' \in [Job -> BOOLEAN]
  BY DEF StopCall, TypeOK
<1> QED BY <1>1, <1>2 DEF StopCall, TypeOK

LEMMA NextTypeOK == TypeOK /\ [Next]_vars => TypeOK'
<1> SUFFICES ASSUME TypeOK, [Next]_vars PROVE TypeOK'
  OBVIOUS
<1> USE DEF jobVars, taskVars, stopVars, appVars
<1>1. ASSUME NEW j \in Job, Start(j) PROVE TypeOK'
  BY <1>1, StartTypeOK
<1>2. ASSUME NEW j \in Job, InternetStep(j) PROVE TypeOK'
  BY <1>2, InternetTypeOK
<1>3. ASSUME NEW j \in Job, IperfStep(j) PROVE TypeOK'
  BY <1>3, IperfTypeOK
<1>4. ASSUME NEW j \in Job, Exits(j) PROVE TypeOK'
  BY <1>4 DEF Exits, TypeOK, ProcState
<1>5. ASSUME NEW j \in Job, StopRequest(j) PROVE TypeOK'
  BY <1>5, StopCallTypeOK DEF StopRequest, TypeOK
<1>6. ASSUME NEW j \in Job, StopReturns(j) PROVE TypeOK'
  BY <1>6 DEF StopReturns, TypeOK
<1>7. ASSUME NEW j \in Job, StopKills(j) PROVE TypeOK'
  BY <1>7 DEF StopKills, TypeOK, ProcState
<1>8. ASSUME NEW j \in Job, SweepVisit(j) PROVE TypeOK'
  <2>1. CASE Active(j)
    BY <1>8, <2>1, StopCallTypeOK DEF SweepVisit, TypeOK
  <2>2. CASE ~Active(j)
    BY <1>8, <2>2 DEF SweepVisit, TypeOK
  <2> QED BY <2>1, <2>2
<1>9. CASE BeginShutdown
  BY <1>9 DEF BeginShutdown, TypeOK
<1>10. CASE SweepEnds
  BY <1>10 DEF SweepEnds, TypeOK
<1>11. CASE DeleteHistory
  <2>1. history' \in Seq(Job)
    <3>1. CASE history' = <<>>
      BY <3>1
    <3>2. ASSUME NEW i \in 1..Len(history), history' = DropEntry(i)
          PROVE  history' \in Seq(Job)
      BY <3>2, DropEntryType DEF TypeOK
    <3> QED BY <1>11, <3>1, <3>2 DEF DeleteHistory
  <2> QED BY <1>11, <2>1 DEF DeleteHistory, TypeOK
<1>12. CASE UNCHANGED vars
  BY <1>12 DEF vars, TypeOK
<1> QED BY <1>1, <1>2, <1>3, <1>4, <1>5, <1>6, <1>7, <1>8, <1>9, <1>10,
           <1>11, <1>12 DEF Next

\* Every variable of the job manager keeps its type in every reachable state.
THEOREM SpeedtestTypeCorrect == Spec => []TypeOK
<1> QED BY InitTypeOK, NextTypeOK, PTL DEF Spec
-----------------------------------------------------------------------------
(***************************************************************************)
(* The inductive step, one lemma per conjunct of IInv.                     *)
(***************************************************************************)
LEMMA InitIInv == Init => IInv
<1> SUFFICES ASSUME Init PROVE IInv
  OBVIOUS
<1>1. TypeOK
  BY InitTypeOK
<1>2. BirthInv /\ StatusInv /\ ProcInv
  BY DEF Init, BirthInv, StatusInv, ProcInv, TestTask, IperfTask, Active,
         ActiveStatus, FinalStatus, Live
<1>3. KnownInv
  BY FS_EmptySet DEF Init, KnownInv, Active, ActiveStatus
<1>4. OneTestAtATime
  <2>1. ActiveOf("iperf_server") = {}
    BY DEF Init, ActiveOf
  <2>2. Cardinality(ActiveOf("iperf_server")) <= MaxServers
    <3>1. Cardinality(ActiveOf("iperf_server")) = 0
      BY <2>1, FS_EmptySet
    <3> QED BY <3>1, BoundsAssumption
  <2>3. \A k \in Job : ~Active(k)
    BY DEF Init, Active, ActiveStatus
  <2> QED BY <2>2, <2>3 DEF OneTestAtATime
<1> QED BY <1>1, <1>2, <1>3, <1>4 DEF IInv

\* What a stop call leaves alone, and that it revives no process.
LEMMA StopCallEffect ==
    ASSUME TypeOK, NEW j \in Job, StopCall(j)
    PROVE  \A k \in Job : /\ proc'[k] \in Live => proc[k] \in Live
                          /\ proc[k] = "none" => proc'[k] = "none"
BY DEF StopCall, TypeOK, Live

\* The part of IInv that speaks of one job at a time.
LocalInv == BirthInv /\ StatusInv /\ ProcInv

LEMMA StartLocal ==
    ASSUME IInv, NEW j \in Job, Start(j)
    PROVE  LocalInv'
<1> USE DEF IInv, TypeOK
<1>1. PICK r \in Request :
          StartInternet(j, r) \/ StartClient(j, r) \/ StartServer(j, r)
  BY DEF Start
<1>2. /\ Create(j, r)
      /\ r.kind = "internet" =>
            status' = [status EXCEPT ![j] = "running"] /\ task' = [task EXCEPT ![j] = "connect"]
      /\ r.kind # "internet" =>
            status' = [status EXCEPT ![j] = "starting"] /\ task' = [task EXCEPT ![j] = "probe"]
      /\ task[j] = "none" /\ proc[j] = "none" /\ UNCHANGED proc
  BY <1>1 DEF StartInternet, StartClient, StartServer, Start, BirthInv, ProcInv
<1>3. BirthInv'
  BY <1>2, RequestAssumption DEF BirthInv, Create
<1>4. StatusInv'
  BY <1>2 DEF StatusInv, Create, TestTask, IperfTask, Active, ActiveStatus, FinalStatus
<1>5. ProcInv'
  BY <1>2 DEF ProcInv
<1> QED BY <1>3, <1>4, <1>5 DEF LocalInv

LEMMA InternetLocal ==
    ASSUME IInv, NEW j \in Job, InternetStep(j)
    PROVE  LocalInv' /\ (\A k \in Job : Active(k)' => Active(k))
<1> USE DEF IInv, TypeOK, jobVars
<1>1. /\ UNCHANGED jobVars /\ UNCHANGED proc
      /\ task[j] \in TestTask \cup {"closing"}
      /\ task' = [task EXCEPT ![j] = task'[j]]
      /\ status' = [status EXCEPT ![j] = status'[j]]
      /\ \/ task'[j] = "testing" /\ status'[j] = status[j] /\ task[j] = "connect"
         \/ task'[j] = "closing" /\ status'[j] = "error"
         \/ task'[j] = "over" /\ status'[j] \in FinalStatus
  BY OutcomeType
     DEF InternetStep, MetaArrives, MetaFails, TestEnds, TestFails, Closes,
         Cancelled, Resume, Finish, Outcome, FinalStatus, TestTask, StatusInv
<1>2. BirthInv'
  BY <1>1 DEF BirthInv, TestTask, FinalStatus
<1>3. StatusInv' /\ (\A k \in Job : Active(k)' => Active(k))
  BY <1>1 DEF StatusInv, TestTask, IperfTask, Active, ActiveStatus, FinalStatus
<1>4. ProcInv'
  BY <1>1 DEF ProcInv, TestTask, Live
<1> QED BY <1>2, <1>3, <1>4 DEF LocalInv

LEMMA IperfLocal ==
    ASSUME IInv, NEW j \in Job, IperfStep(j)
    PROVE  LocalInv' /\ (\A k \in Job : Active(k)' => Active(k))
<1> USE DEF IInv, TypeOK, jobVars
<1>1. /\ UNCHANGED jobVars
      /\ task[j] \in IperfTask
      /\ task' = [task EXCEPT ![j] = task'[j]]
      /\ status' = [status EXCEPT ![j] = status'[j]]
      /\ proc' = [proc EXCEPT ![j] = proc'[j]]
      /\ \/ /\ task'[j] \in {"exec", "reading", "waiting"}
            /\ status'[j] \in ActiveStatus
         \/ /\ task'[j] = "over" /\ status'[j] \in FinalStatus
            /\ proc'[j] \in {"none", "exited"}
         \/ /\ task'[j] = "died" /\ status'[j] = status[j]
            /\ proc'[j] = "exited"
  <2>1. CASE Forks(j) \/ Attaches(j) \/ Listens(j)
    BY <2>1 DEF IperfStep, Forks, Attaches, Listens, Resume, IperfTask,
                StatusInv, Active, ActiveStatus
  <2>2. CASE Eof(j) \/ HardLimit(j) \/ Lifetime(j) \/ LimitAfterExit(j)
    BY <2>2 DEF IperfStep, Eof, HardLimit, Lifetime, LimitAfterExit, Resume,
                IperfTask, StatusInv, Active, ActiveStatus
  <2>3. CASE ForkFails(j) \/ ClientEnds(j) \/ ServerEnds(j)
    BY <2>3, OutcomeType
       DEF IperfStep, ForkFails, ClientEnds, ServerEnds, Resume, IperfTask,
           FinalStatus, ProcInv
  <2> QED BY <2>1, <2>2, <2>3 DEF IperfStep
<1>2. BirthInv'
  BY <1>1 DEF BirthInv, IperfTask, ActiveStatus, FinalStatus
<1>3. StatusInv' /\ (\A k \in Job : Active(k)' => Active(k))
  BY ZenonT(30), <1>1 DEF StatusInv, TestTask, IperfTask, Active, ActiveStatus, FinalStatus
<1>4. ProcInv'
  BY <1>1 DEF ProcInv, IperfTask, Live
<1> QED BY <1>2, <1>3, <1>4 DEF LocalInv

\* Steps of the kernel and of stop calls: tasks and statuses stay, and no
\* process comes to life.
LEMMA OtherLocal ==
    ASSUME IInv, UNCHANGED <<born, params, status, task>>,
           \A k \in Job : /\ proc'[k] \in Live => proc[k] \in Live
                          /\ proc[k] = "none" => proc'[k] = "none"
    PROVE  LocalInv' /\ (\A k \in Job : Active(k)' => Active(k))
<1>1. BirthInv'
  BY DEF IInv, BirthInv
<1>2. StatusInv' /\ (\A k \in Job : Active(k)' => Active(k))
  BY DEF IInv, StatusInv, Active
<1>3. ProcInv'
  <2> SUFFICES ASSUME NEW k \in Job
               PROVE  /\ task'[k] \in {"none", "probe", "connect", "testing", "closing"}
                              => proc'[k] = "none"
                      /\ task'[k] \in {"over", "died"} => proc'[k] \notin Live
    BY DEF ProcInv
  <2>1. task' = task
    OBVIOUS
  <2>2. /\ task[k] \in {"none", "probe", "connect", "testing", "closing"} => proc[k] = "none"
        /\ task[k] \in {"over", "died"} => proc[k] \notin Live
    BY DEF IInv, ProcInv
  <2> QED BY <2>1, <2>2
<1> QED BY <1>1, <1>2, <1>3 DEF LocalInv

\* A step that creates no job and activates none cannot put two tests side by
\* side, nor forget an active job.
LEMMA QuietStep ==
    ASSUME IInv, UNCHANGED <<known, params>>,
           \A k \in Job : status'[k] = "unborn" <=> status[k] = "unborn",
           \A k \in Job : Active(k)' => Active(k)
    PROVE  KnownInv' /\ OneTestAtATime'
<1>1. KnownInv'
  BY DEF IInv, KnownInv, TypeOK
<1>2. ActiveOf("iperf_server")' \subseteq ActiveOf("iperf_server")
  BY DEF ActiveOf, IInv, TypeOK
<1>3. IsFiniteSet(ActiveOf("iperf_server"))
  BY FS_Subset DEF IInv, KnownInv, ActiveOf
<1>4. Cardinality(ActiveOf("iperf_server")') <= MaxServers
  <2>1. /\ Cardinality(ActiveOf("iperf_server")') <= Cardinality(ActiveOf("iperf_server"))
        /\ IsFiniteSet(ActiveOf("iperf_server")')
    BY <1>2, <1>3, FS_Subset
  <2>2. Cardinality(ActiveOf("iperf_server")') \in Nat /\ Cardinality(ActiveOf("iperf_server")) \in Nat
    BY <1>3, <2>1, FS_CardinalityType
  <2> QED BY <2>1, <2>2, BoundsAssumption DEF IInv, OneTestAtATime
<1> QED BY <1>1, <1>4 DEF IInv, OneTestAtATime

\* A start adds one active job of a kind that may take one more; _gc drops
\* finished jobs only.
LEMMA StartTable ==
    ASSUME IInv, NEW j \in Job, Start(j)
    PROVE  KnownInv' /\ OneTestAtATime'
<1> USE DEF IInv, TypeOK
<1>1. PICK r \in Request :
          StartInternet(j, r) \/ StartClient(j, r) \/ StartServer(j, r)
  BY DEF Start
<1>2. /\ Create(j, r)
      /\ status' = [status EXCEPT ![j] = status'[j]] /\ status'[j] \in ActiveStatus
      /\ status[j] = "unborn"
  BY <1>1 DEF StartInternet, StartClient, StartServer, Start, BirthInv, ActiveStatus
<1>3. ~Active(j) /\ Active(j)' /\ (\A k \in Job \ {j} : Active(k)' <=> Active(k))
  BY <1>2 DEF Active, ActiveStatus
<1>4. KnownInv'
  <2>1. IsFiniteSet(known')
    <3>1. IsFiniteSet(known \cup {j})
      BY FS_AddElement DEF KnownInv
    <3>2. known' \subseteq known \cup {j}
      BY <1>2 DEF Create
    <3> QED BY <3>1, <3>2, FS_Subset
  <2>2. \A k \in Job : Active(k) => k \notin Expired(known, Finished)
    BY DEF Expired, Finished
  <2>3. j \notin Expired(known, Finished)
    BY <1>2 DEF KnownInv, Expired
  <2>4. \A k \in known' : status'[k] # "unborn"
    BY <1>2 DEF KnownInv, Create, ActiveStatus
  <2> QED BY <1>2, <1>3, <2>1, <2>2, <2>3, <2>4 DEF KnownInv, Create
<1>5. \A k \in Job \ {j} : params'[k] = params[k]
  BY <1>2 DEF Create
<1>6. params'[j] = r
  BY <1>2 DEF Create
<1>7. \A k \in Job \ {j} :
        Active(k) /\ params[k].kind = r.kind =>
            r.kind = "iperf_server" /\ params[k].port # r.port
  <2> SUFFICES ASSUME NEW k \in Job \ {j}, Active(k), params[k].kind = r.kind
               PROVE  r.kind = "iperf_server" /\ params[k].port # r.port
    OBVIOUS
  <2>1. k \in ActiveOf(r.kind)
    BY DEF KnownInv, ActiveOf
  <2> QED BY <1>1, <2>1 DEF StartInternet, StartClient, StartServer
<1>8. \A k, l \in Job :
        Active(k)' /\ Active(l)' /\ k # l /\ params'[k].kind = params'[l].kind
        => params'[k].kind = "iperf_server" /\ params'[k].port # params'[l].port
  <2> SUFFICES ASSUME NEW k \in Job, NEW l \in Job, Active(k)', Active(l)',
                      k # l, params'[k].kind = params'[l].kind
               PROVE  params'[k].kind = "iperf_server" /\ params'[k].port # params'[l].port
    OBVIOUS
  <2>1. CASE k = j
    BY <1>3, <1>5, <1>6, <1>7, <2>1
  <2>2. CASE l = j
    BY <1>3, <1>5, <1>6, <1>7, <2>2
  <2>3. CASE k # j /\ l # j
    BY <1>3, <1>5, <2>3 DEF OneTestAtATime
  <2> QED BY <2>1, <2>2, <2>3
<1>9. Cardinality(ActiveOf("iperf_server")') <= MaxServers
  <2> DEFINE before == ActiveOf("iperf_server")
             after == ActiveOf("iperf_server")'
  <2>1. IsFiniteSet(before) /\ Cardinality(before) \in Nat
    BY FS_Subset, FS_CardinalityType DEF KnownInv, ActiveOf
  <2>2. CASE r.kind = "iperf_server"
    <3>1. after \subseteq before \cup {j}
      BY <1>2, <1>3, <1>5 DEF ActiveOf, Create
    <3>2. Cardinality(before) < MaxServers
      BY <1>1, <2>2 DEF StartInternet, StartClient, StartServer
    <3>3. /\ IsFiniteSet(before \cup {j})
          /\ Cardinality(before \cup {j}) <= Cardinality(before) + 1
          /\ Cardinality(before \cup {j}) \in Nat
      <4> HIDE DEF before
      <4>1. /\ IsFiniteSet(before \cup {j})
            /\ Cardinality(before \cup {j}) =
                  IF j \in before THEN Cardinality(before) ELSE Cardinality(before) + 1
        BY <2>1, FS_AddElement
      <4> QED BY <2>1, <4>1
    <3>4. Cardinality(after) <= Cardinality(before \cup {j}) /\ Cardinality(after) \in Nat
      BY <3>1, <3>3, FS_Subset, FS_CardinalityType
    <3> QED BY <2>1, <3>2, <3>3, <3>4, BoundsAssumption
  <2>3. CASE r.kind # "iperf_server"
    <3>1. after \subseteq before
      BY <1>2, <1>3, <1>5, <1>6, <2>3 DEF ActiveOf, Create
    <3>2. Cardinality(after) <= Cardinality(before) /\ Cardinality(after) \in Nat
      BY <2>1, <3>1, FS_Subset, FS_CardinalityType
    <3> QED BY <2>1, <3>2, BoundsAssumption DEF OneTestAtATime
  <2> QED BY <2>2, <2>3
<1> QED BY <1>4, <1>8, <1>9 DEF OneTestAtATime

LEMMA NextIInv == IInv /\ [Next]_vars => IInv'
<1> SUFFICES ASSUME IInv, [Next]_vars PROVE IInv'
  OBVIOUS
<1>0. TypeOK'
  BY NextTypeOK DEF IInv
<1> DEFINE Quiet ==
        /\ UNCHANGED <<known, params>>
        /\ LocalInv'
        /\ \A k \in Job : Active(k)' => Active(k)
        /\ \A k \in Job : status'[k] = "unborn" <=> status[k] = "unborn"
<1>1. ASSUME Quiet PROVE IInv'
  BY <1>0, <1>1, QuietStep DEF IInv, LocalInv
<1>2. ASSUME NEW j \in Job, Start(j) PROVE IInv'
  BY <1>0, <1>2, StartLocal, StartTable DEF IInv, LocalInv
<1>3. ASSUME NEW j \in Job, InternetStep(j) \/ IperfStep(j) PROVE IInv'
  <2>1. UNCHANGED jobVars
    BY <1>3 DEF InternetStep, IperfStep
  <2>2. LocalInv' /\ (\A k \in Job : Active(k)' => Active(k))
    BY <1>3, InternetLocal, IperfLocal
  <2>3. \A k \in Job : status'[k] = "unborn" <=> status[k] = "unborn"
    <3>1. \A k \in Job : task'[k] = "none" <=> born[k] = 0
      BY <2>1, <2>2 DEF LocalInv, BirthInv, jobVars
    <3> QED BY <2>2, <3>1 DEF LocalInv, BirthInv, IInv
  <2> QED BY <1>1, <2>1, <2>2, <2>3 DEF jobVars
<1> DEFINE Other ==
        /\ UNCHANGED <<known, born, params, status, task>>
        /\ \A k \in Job : /\ proc'[k] \in Live => proc[k] \in Live
                          /\ proc[k] = "none" => proc'[k] = "none"
<1>4. ASSUME Other PROVE IInv'
  <2>1. LocalInv' /\ (\A k \in Job : Active(k)' => Active(k))
    BY <1>4, OtherLocal
  <2> QED BY <1>1, <1>4, <2>1
<1>5. ASSUME NEW j \in Job, Exits(j) PROVE Other
  BY <1>5 DEF Exits, jobVars, taskVars, Live, IInv, TypeOK
<1>6. ASSUME NEW j \in Job, StopRequest(j) PROVE Other
  BY <1>6, StopCallEffect DEF StopRequest, jobVars, IInv
<1>7. ASSUME NEW j \in Job, StopReturns(j) \/ StopKills(j) PROVE Other
  BY <1>7 DEF StopReturns, StopKills, jobVars, taskVars, Live, IInv, TypeOK
<1>8. ASSUME NEW j \in Job, SweepVisit(j) PROVE Other
  <2>1. CASE Active(j)
    BY <1>8, <2>1, StopCallEffect DEF SweepVisit, jobVars, IInv
  <2>2. CASE ~Active(j)
    BY <1>8, <2>2 DEF SweepVisit, jobVars
  <2> QED BY <2>1, <2>2
<1>9. ASSUME BeginShutdown \/ SweepEnds \/ DeleteHistory \/ UNCHANGED vars PROVE Other
  BY <1>9 DEF BeginShutdown, SweepEnds, DeleteHistory, vars, jobVars, taskVars
<1> QED BY <1>2, <1>3, <1>4, <1>5, <1>6, <1>7, <1>8, <1>9 DEF Next

LEMMA SpeedtestIInv == Spec => []IInv
<1> QED BY InitIInv, NextIInv, PTL DEF Spec

-----------------------------------------------------------------------------
\* At most one Internet test, one iperf3 client and MaxServers servers on
\* distinct ports are active, whatever starts, stops and exits interleave.
THEOREM SpeedtestOneTestAtATime == Spec => []OneTestAtATime
<1>1. IInv => OneTestAtATime
  BY DEF IInv
<1> QED BY <1>1, SpeedtestIInv, PTL

\* A job that shows a final status has no live iperf3 process behind it.
THEOREM SpeedtestFinishedHasNoProcess == Spec => []FinishedHasNoProcess
<1>1. IInv => FinishedHasNoProcess
  <2> SUFFICES ASSUME IInv, NEW j \in Job, status[j] \in FinalStatus
               PROVE  proc[j] \notin Live
    BY DEF FinishedHasNoProcess
  <2>1. task[j] \in {"closing", "over"}
    BY DEF IInv, TypeOK, BirthInv, StatusInv, TaskState, TestTask, IperfTask,
           Active, ActiveStatus, FinalStatus
  <2> QED BY <2>1 DEF IInv, ProcInv, Live
<1> QED BY <1>1, SpeedtestIInv, PTL

\* A live iperf3 process belongs to an active job that the manager lists.
THEOREM SpeedtestLiveIsListed == Spec => []LiveIsListed
<1>1. IInv => LiveIsListed
  <2> SUFFICES ASSUME IInv, NEW j \in Job, proc[j] \in Live
               PROVE  j \in known /\ Active(j)
    BY DEF LiveIsListed
  <2>1. task[j] \in IperfTask
    BY DEF IInv, TypeOK, ProcInv, TaskState, IperfTask, Live
  <2> QED BY <2>1 DEF IInv, StatusInv, KnownInv
<1> QED BY <1>1, SpeedtestIInv, PTL

-----------------------------------------------------------------------------
(***************************************************************************)
(* Outcomes: a final status is left by nothing but the stop that reaches a  *)
(* failed Internet test while it closes its client.                        *)
(***************************************************************************)
OutcomeStep ==
    \A j \in Job :
        status[j] \in FinalStatus =>
            \/ status'[j] = status[j]
            \/ status[j] = "error" /\ status'[j] = "stopped" /\ task[j] = "closing"

\* Where the task of a job with a final status can be.
LEMMA FinalTask ==
    ASSUME IInv, NEW j \in Job, status[j] \in FinalStatus
    PROVE  task[j] \in {"closing", "over"} /\ (task[j] = "closing" => status[j] = "error")
BY DEF IInv, TypeOK, BirthInv, StatusInv, TaskState, TestTask, IperfTask, Active,
       ActiveStatus, FinalStatus

LEMMA NextOutcome == IInv /\ [Next]_vars => OutcomeStep
<1> SUFFICES ASSUME IInv, [Next]_vars PROVE OutcomeStep
  OBVIOUS
<1> USE DEF OutcomeStep
<1>1. ASSUME NEW j \in Job, Start(j) PROVE OutcomeStep
  <2>1. status[j] = "unborn"
    BY <1>1 DEF Start, IInv, BirthInv
  <2>2. \A k \in Job \ {j} : status'[k] = status[k]
    BY <1>1 DEF Start, StartInternet, StartClient, StartServer, IInv, TypeOK
  <2> QED BY <2>1, <2>2 DEF FinalStatus
<1>2. ASSUME NEW j \in Job, InternetStep(j) PROVE OutcomeStep
  <2>1. \A k \in Job \ {j} : status'[k] = status[k]
    BY <1>2 DEF InternetStep, MetaArrives, MetaFails, TestEnds, TestFails, Closes,
                Cancelled, Finish, IInv, TypeOK
  <2>2. ASSUME status[j] \in FinalStatus
        PROVE  \/ status'[j] = status[j]
               \/ status[j] = "error" /\ status'[j] = "stopped" /\ task[j] = "closing"
    <3>1. task[j] = "closing" /\ status[j] = "error"
      BY <1>2, <2>2, FinalTask
         DEF InternetStep, MetaArrives, MetaFails, TestEnds, TestFails, Closes,
             Cancelled, Resume
    <3>2. Closes(j) \/ Cancelled(j)
      BY <1>2, <3>1 DEF InternetStep, MetaArrives, MetaFails, TestEnds, TestFails, Resume
    <3>3. CASE Closes(j)
      BY <3>3 DEF Closes
    <3>4. CASE Cancelled(j)
      <4>1. status' = [status EXCEPT ![j] = "stopped"]
        BY <3>4 DEF Cancelled, Finish, Outcome
      <4> QED BY <3>1, <4>1 DEF IInv, TypeOK
    <3> QED BY <3>2, <3>3, <3>4
  <2> QED BY <2>1, <2>2
<1>3. ASSUME NEW j \in Job, IperfStep(j) PROVE OutcomeStep
  <2>1. \A k \in Job \ {j} : status'[k] = status[k]
    BY <1>3 DEF IperfStep, Forks, ForkFails, Attaches, Listens, Eof, HardLimit, Lifetime,
                LimitAfterExit, ClientEnds, ServerEnds, Finish, IInv, TypeOK
  <2>2. task[j] \in {"probe", "exec", "reading", "waiting"}
    BY <1>3 DEF IperfStep, Forks, ForkFails, Attaches, Listens, Eof, HardLimit, Lifetime,
                LimitAfterExit, ClientEnds, ServerEnds, Resume
  <2>3. status[j] \notin FinalStatus
    BY <2>2, FinalTask
  <2> QED BY <2>1, <2>3
<1>4. CASE UNCHANGED status
  BY <1>4
<1>5. ASSUME NEW j \in Job,
             Exits(j) \/ StopRequest(j) \/ StopReturns(j) \/ StopKills(j) \/ SweepVisit(j)
      PROVE  UNCHANGED status
  BY <1>5 DEF Exits, StopRequest, StopReturns, StopKills, SweepVisit, taskVars
<1>6. ASSUME BeginShutdown \/ SweepEnds \/ DeleteHistory \/ UNCHANGED vars
      PROVE  UNCHANGED status
  BY <1>6 DEF BeginShutdown, SweepEnds, DeleteHistory, vars, taskVars
<1> QED BY <1>1, <1>2, <1>3, <1>4, <1>5, <1>6 DEF Next

\* A finished job keeps its outcome, except for the failed Internet test whose
\* closing a stop cancels (_finish sets a status whatever the job shows).
THEOREM SpeedtestOutcomeIsFinal == Spec => OutcomeIsFinal
<1>1. IInv /\ [Next]_vars => [OutcomeStep]_vars
  BY NextOutcome
<1> QED BY <1>1, SpeedtestIInv, PTL DEF Spec, OutcomeIsFinal, OutcomeStep

-----------------------------------------------------------------------------
(***************************************************************************)
(* Shutdown: what the sweep has behind it either was found without a        *)
(* process handle or is waited for until its process is gone.               *)
(***************************************************************************)
SweepInv ==
    /\ up = "down" => sweep = {} /\ waiters = {}
    /\ up # "up" =>
          \A j \in Job \ sweep :
              /\ task[j] \in {"probe", "exec"} => j \in missed
              /\ proc[j] \in {"alive", "termed"} => j \in missed \cup waiters

LEMMA InitSweep == Init => SweepInv
BY DEF Init, SweepInv

\* A step of the sweep that calls stop: a job without a handle is missed, one
\* whose process lives is waited for.
LEMMA VisitSweep ==
    ASSUME IInv, SweepInv, NEW j \in Job, SweepVisit(j)
    PROVE  SweepInv'
<1> USE DEF SweepVisit, SweepInv
<1>1. CASE Active(j)
  <2>1. StopCall(j) /\ UNCHANGED task /\ sweep' = sweep \ {j} /\ UNCHANGED up
    BY <1>1
  <2>2. missed \subseteq missed' /\ waiters \subseteq waiters'
    BY <2>1 DEF StopCall
  <2>3. \A k \in Job \ {j} : proc'[k] = proc[k]
    BY <2>1 DEF StopCall, IInv, TypeOK
  <2>4. task[j] \in {"probe", "exec"} => j \in missed'
    <3>1. task[j] \in {"probe", "exec"} => IsIperf(j) /\ ~HasHandle(j)
      BY RequestAssumption DEF IInv, TypeOK, StatusInv, IperfTask, IsIperf, HasHandle,
             RequestType, BirthInv, Kind
    <3> QED BY <2>1, <3>1 DEF StopCall
  <2>5. proc'[j] \in {"alive", "termed"} => j \in missed' \cup waiters'
    <3>1. proc'[j] \in {"alive", "termed"} => proc[j] \in Live
      BY <2>1 DEF StopCall, Live, IInv, TypeOK
    <3>2. CASE HasHandle(j)
      BY <2>1, <3>1, <3>2 DEF StopCall, CanSignal
    <3>3. CASE ~HasHandle(j)
      <4>1. proc[j] \in Live => task[j] = "exec"
        BY <3>3 DEF HasHandle, IInv, TypeOK, ProcInv, TaskState, Live
      <4> QED BY <2>4, <3>1, <4>1
    <3> QED BY <3>2, <3>3
  <2> QED BY <2>1, <2>2, <2>3, <2>4, <2>5
<1>2. CASE ~Active(j)
  <2>1. UNCHANGED <<proc, stopVars, task, up>> /\ sweep' = sweep \ {j}
    BY <1>2
  <2>2. task[j] \notin {"probe", "exec"} /\ proc[j] \notin {"alive", "termed"}
    BY <1>2 DEF IInv, StatusInv, IperfTask, TypeOK, ProcInv, TaskState, TestTask, Live
  <2> QED BY <2>1, <2>2 DEF stopVars
<1> QED BY <1>1, <1>2

\* A step of one task forks a process only where the sweep has missed it.
LEMMA TaskSweep ==
    ASSUME IInv, SweepInv, NEW j \in Job, InternetStep(j) \/ IperfStep(j)
    PROVE  SweepInv'
<1>1. UNCHANGED <<stopVars, appVars>>
  BY DEF InternetStep, IperfStep
<1>2. \A k \in Job \ {j} : task'[k] = task[k] /\ proc'[k] = proc[k]
  BY DEF InternetStep, MetaArrives, MetaFails, TestEnds, TestFails, Closes, Cancelled,
         IperfStep, Forks, ForkFails, Attaches, Listens, Eof, HardLimit, Lifetime,
         LimitAfterExit, ClientEnds, ServerEnds, Resume, IInv, TypeOK
<1>3. /\ task'[j] \in {"probe", "exec"} => task[j] \in {"probe", "exec"}
      /\ proc'[j] \in {"alive", "termed"} =>
            task[j] \in {"probe", "exec"} \/ proc[j] \in {"alive", "termed"}
  <2>1. CASE InternetStep(j)
    BY <2>1 DEF InternetStep, MetaArrives, MetaFails, TestEnds, TestFails, Closes,
                Cancelled, Resume, IInv, TypeOK
  <2>2. CASE IperfStep(j)
    BY <2>2 DEF IperfStep, Forks, ForkFails, Attaches, Listens, Eof, HardLimit, Lifetime,
                LimitAfterExit, ClientEnds, ServerEnds, Resume, IInv, TypeOK
  <2> QED BY <2>1, <2>2
<1> QED BY <1>1, <1>2, <1>3 DEF SweepInv, stopVars, appVars

LEMMA NextSweep == IInv /\ SweepInv /\ [Next]_vars => SweepInv'
<1> SUFFICES ASSUME IInv, SweepInv, [Next]_vars PROVE SweepInv'
  OBVIOUS
<1> USE DEF jobVars, taskVars, stopVars, appVars
<1>1. ASSUME NEW j \in Job, Start(j) PROVE SweepInv'
  BY <1>1 DEF Start, SweepInv
<1>2. ASSUME NEW j \in Job, InternetStep(j) \/ IperfStep(j) PROVE SweepInv'
  BY <1>2, TaskSweep
<1>3. ASSUME NEW j \in Job, Exits(j) PROVE SweepInv'
  BY <1>3 DEF Exits, SweepInv, IInv, TypeOK
<1>4. ASSUME NEW j \in Job, StopRequest(j) PROVE SweepInv'
  BY <1>4 DEF StopRequest, SweepInv
<1>5. ASSUME NEW j \in Job, StopReturns(j) PROVE SweepInv'
  BY <1>5 DEF StopReturns, SweepInv
<1>6. ASSUME NEW j \in Job, StopKills(j) PROVE SweepInv'
  BY <1>6 DEF StopKills, SweepInv, IInv, TypeOK
<1>7. ASSUME NEW j \in Job, SweepVisit(j) PROVE SweepInv'
  BY <1>7, VisitSweep
<1>8. CASE BeginShutdown
  <2>1. \A j \in Job \ known :
            task[j] \notin {"probe", "exec"} /\ proc[j] \notin {"alive", "termed"}
    BY DEF IInv, KnownInv, StatusInv, IperfTask, TypeOK, ProcInv, TaskState, TestTask, Live
  <2> QED BY <1>8, <2>1 DEF BeginShutdown, SweepInv
<1>9. CASE SweepEnds
  BY <1>9 DEF SweepEnds, SweepInv
<1>10. CASE DeleteHistory \/ UNCHANGED vars
  BY <1>10 DEF DeleteHistory, vars, SweepInv
<1> QED BY <1>1, <1>2, <1>3, <1>4, <1>5, <1>6, <1>7, <1>8, <1>9, <1>10 DEF Next

\* After stop_all the only processes not yet killed or gone are those that a
\* stop found still being launched, whatever forks and exits during the sweep.
THEOREM SpeedtestShutdownLeavesNoProcess == Spec => []ShutdownLeavesNoProcess
<1>1. SweepInv => ShutdownLeavesNoProcess
  BY DEF SweepInv, ShutdownLeavesNoProcess
<1> QED BY <1>1, InitSweep, NextSweep, SpeedtestIInv, PTL DEF Spec

-----------------------------------------------------------------------------
(***************************************************************************)
(* The job table: _gc keeps at most MaxFinished finished jobs, because no    *)
(* two jobs have one creation time.                                        *)
(***************************************************************************)

\* A non-empty set of naturals has a least element.
LEMMA LeastNatural ==
    ASSUME NEW S \in SUBSET Nat, S # {}
    PROVE  \E m \in S : \A n \in S : m <= n
<1> DEFINE R == OpToRel(<, Nat)
<1>1. IsWellFoundedOn(R, Nat)
  BY NatLessThanWellFounded
<1>2. \A m, n \in S : n < m => <<n, m>> \in R
  BY Zenon DEF OpToRel
<1> HIDE DEF R
<1>3. PICK m \in S : \A n \in S : ~ (<<n, m>> \in R)
  BY <1>1, WFMin
<1>4. \A n \in S : ~ (n < m)
  BY <1>2, <1>3
<1> QED BY <1>4

\* Of a finite set whose elements have distinct ages, at most N elements have
\* fewer than N younger ones.
LEMMA FewHaveFewYounger ==
    ASSUME NEW F, IsFiniteSet(F), NEW age, \A k \in F : age[k] \in Nat,
           \A k, l \in F : age[k] = age[l] => k = l, NEW N \in Nat,
           NEW K \in SUBSET F, \A k \in K : Cardinality({l \in F : age[l] > age[k]}) < N
    PROVE  IsFiniteSet(K) /\ Cardinality(K) <= N
<1>1. IsFiniteSet(K)
  BY FS_Subset
<1>2. CASE K = {}
  <2>1. Cardinality({}) = 0
    BY FS_EmptySet
  <2>2. Cardinality(K) = 0
    BY <1>2, <2>1, Zenon
  <2> QED BY <1>1, <2>2
<1>3. CASE K # {}
  <2> DEFINE ages == {age[k] : k \in K}
  <2>1. ages \in SUBSET Nat /\ ages # {}
    BY <1>3
  <2>2. PICK m \in ages : \A n \in ages : m <= n
    BY <2>1, LeastNatural
  <2>3. PICK o \in K : \A k \in K : age[o] <= age[k]
    BY <2>2
  <2> DEFINE younger == {l \in F : age[l] > age[o]}
  <2>4. IsFiniteSet(younger) /\ Cardinality(younger) \in Nat
    BY FS_Subset, FS_CardinalityType
  <2>5. Cardinality(younger) < N
    BY <2>3
  <2>6. K \subseteq younger \cup {o}
    <3> SUFFICES ASSUME NEW k \in K, k # o PROVE age[k] > age[o]
      OBVIOUS
    <3>1. age[k] # age[o] /\ age[o] <= age[k] /\ age[k] \in Nat /\ age[o] \in Nat
      BY <2>3
    <3> QED BY <3>1
  <2> HIDE DEF younger
  <2>7. /\ IsFiniteSet(younger \cup {o})
        /\ Cardinality(younger \cup {o}) \in Nat
        /\ Cardinality(younger \cup {o}) <= Cardinality(younger) + 1
    <3>1. /\ IsFiniteSet(younger \cup {o})
          /\ Cardinality(younger \cup {o}) =
                IF o \in younger THEN Cardinality(younger) ELSE Cardinality(younger) + 1
      BY <2>4, FS_AddElement
    <3> QED BY <2>4, <3>1
  <2>8. Cardinality(K) <= Cardinality(younger \cup {o}) /\ Cardinality(K) \in Nat
    BY <1>1, <2>6, <2>7, FS_Subset, FS_CardinalityType
  <2> QED BY <1>1, <2>4, <2>5, <2>7, <2>8
<1> QED BY <1>1, <1>2, <1>3

\* Creation times are not used twice.
BornInv ==
    /\ \A j \in Job : born[j] <= clock
    /\ \A j, k \in Job : born[j] = born[k] /\ born[j] # 0 => j = k

LEMMA NextBorn == TypeOK /\ BornInv /\ [Next]_vars => BornInv'
<1> SUFFICES ASSUME TypeOK, BornInv, [Next]_vars PROVE BornInv'
  OBVIOUS
<1>1. CASE UNCHANGED <<born, clock>>
  BY <1>1 DEF BornInv
<1>2. ASSUME NEW j \in Job, Start(j) PROVE BornInv'
  <2>1. clock' = clock + 1 /\ born' = [born EXCEPT ![j] = clock + 1]
    BY <1>2 DEF Start, StartInternet, StartClient, StartServer, Create
  <2> QED BY <2>1 DEF BornInv, TypeOK
<1>3. ASSUME NEW j \in Job, InternetStep(j) \/ IperfStep(j) \/ Exits(j) \/ StopRequest(j)
                            \/ StopReturns(j) \/ StopKills(j) \/ SweepVisit(j)
      PROVE  UNCHANGED <<born, clock>>
  BY <1>3 DEF InternetStep, IperfStep, Exits, StopRequest, StopReturns, StopKills,
              SweepVisit, jobVars
<1>4. ASSUME BeginShutdown \/ SweepEnds \/ DeleteHistory \/ UNCHANGED vars
      PROVE  UNCHANGED <<born, clock>>
  BY <1>4 DEF BeginShutdown, SweepEnds, DeleteHistory, vars, jobVars
<1> QED BY <1>1, <1>2, <1>3, <1>4 DEF Next

\* What _gc leaves of the finished jobs.
LEMMA GcBound ==
    ASSUME IInv, BornInv
    PROVE  /\ IsFiniteSet(Finished \ Expired(known, Finished))
           /\ Cardinality(Finished \ Expired(known, Finished)) <= MaxFinished
<1> DEFINE K == Finished \ Expired(known, Finished)
<1>1. IsFiniteSet(Finished) /\ known \cap Finished = Finished
  BY FS_Subset DEF IInv, KnownInv, Finished
<1>2. \A k \in Finished : born[k] \in Nat
  BY DEF IInv, TypeOK, Finished
<1>3. \A k, l \in Finished : born[k] = born[l] => k = l
  BY DEF IInv, TypeOK, BirthInv, KnownInv, BornInv, Finished
<1>4. K = {k \in Finished : Cardinality({l \in Finished : born[l] > born[k]}) < MaxFinished}
  <2> SUFFICES ASSUME NEW k \in Finished
               PROVE  ~(Cardinality({l \in Finished : born[l] > born[k]}) >= MaxFinished)
                      <=> Cardinality({l \in Finished : born[l] > born[k]}) < MaxFinished
    BY <1>1 DEF Expired
  <2>1. Cardinality({l \in Finished : born[l] > born[k]}) \in Nat
    BY <1>1, FS_Subset, FS_CardinalityType
  <2> QED BY <2>1, BoundsAssumption
<1> HIDE DEF K
<1>5. IsFiniteSet(K) /\ Cardinality(K) <= MaxFinished
  <2>1. /\ K \in SUBSET Finished
        /\ \A k \in K : Cardinality({l \in Finished : born[l] > born[k]}) < MaxFinished
    BY <1>4
  <2> QED BY <1>1, <1>2, <1>3, <2>1, FewHaveFewYounger, BoundsAssumption
<1> QED BY <1>5 DEF K

\* Active jobs differ in their kind or, servers, in their port.
ActiveFit ==
    /\ IsFiniteSet({j \in known : Active(j)})
    /\ IsFiniteSet({<<params[j].kind, params[j].port>> : j \in known})
    /\ Cardinality({j \in known : Active(j)})
          <= Cardinality({<<params[j].kind, params[j].port>> : j \in known})

LEMMA ActiveBound == IInv => ActiveFit
<1> SUFFICES ASSUME IInv PROVE ActiveFit
  OBVIOUS
<1> DEFINE A == {j \in known : Active(j)}
           Slot(j) == <<params[j].kind, params[j].port>>
           Slots == {Slot(j) : j \in known}
           all == [j \in known |-> Slot(j)]
           act == [j \in A |-> Slot(j)]
<1>1. IsFiniteSet(known) /\ IsFiniteSet(A)
  BY FS_Subset DEF IInv, KnownInv
<1>2. IsFiniteSet(Slots)
  <2>1. all \in Surjection(known, Slots)
    BY DEF Surjection
  <2> QED BY <1>1, <2>1, FS_Surjection
<1>3. act \in Injection(A, Slots)
  <2>1. act \in [A -> Slots]
    OBVIOUS
  <2>2. ASSUME NEW j \in A, NEW k \in A, act[j] = act[k] PROVE j = k
    <3>1. params[j].kind = params[k].kind /\ params[j].port = params[k].port
      BY <2>2
    <3>2. j \in Job /\ k \in Job /\ Active(j) /\ Active(k)
      BY DEF IInv, TypeOK
    <3> QED BY <3>1, <3>2 DEF IInv, OneTestAtATime
  <2> QED BY <2>1, <2>2 DEF Injection, IsInjective
<1>4. Cardinality(A) <= Cardinality(Slots)
  BY <1>2, <1>3, FS_Injection
<1> QED BY <1>1, <1>2, <1>4 DEF ActiveFit

LEMMA ActiveBoundNext == IInv' => ActiveFit'
BY ActiveBound, PTL

LEMMA NextTable == IInv /\ BornInv /\ TableBounded /\ [Next]_vars => TableBounded'
<1> SUFFICES ASSUME IInv, BornInv, TableBounded, [Next]_vars PROVE TableBounded'
  OBVIOUS
<1>0. IInv'
  BY NextIInv
<1>1. CASE UNCHANGED <<known, params>>
  BY <1>1 DEF TableBounded
<1>2. ASSUME NEW j \in Job, Start(j) PROVE TableBounded'
  <2> DEFINE kept == Finished \ Expired(known, Finished)
             act == {k \in known' : Active(k)'}
             slots == {<<params'[k].kind, params'[k].port>> : k \in known'}
  <2>1. /\ known' = (known \cup {j}) \ Expired(known, Finished)
        /\ status' = [status EXCEPT ![j] = status'[j]] /\ status'[j] \in ActiveStatus
    BY <1>2 DEF Start, StartInternet, StartClient, StartServer, Create, IInv, TypeOK,
                ActiveStatus
  <2>2. known' \subseteq kept \cup act
    <3> SUFFICES ASSUME NEW k \in known', ~Active(k)' PROVE k \in kept
      OBVIOUS
    <3>1. k # j /\ k \in known /\ k \notin Expired(known, Finished)
      BY <2>1 DEF Active, IInv, TypeOK
    <3>2. ~Active(k)
      BY <2>1, <3>1 DEF Active, IInv, TypeOK
    <3> QED BY <3>1, <3>2 DEF Finished
  <2>3. IsFiniteSet(kept) /\ Cardinality(kept) <= MaxFinished
    BY GcBound
  <2>4. IsFiniteSet(act) /\ IsFiniteSet(slots) /\ Cardinality(act) <= Cardinality(slots)
    BY <1>0, ActiveBoundNext DEF ActiveFit
  <2> HIDE DEF kept, act, slots
  <2>5. /\ IsFiniteSet(kept \cup act)
        /\ Cardinality(kept \cup act) <= Cardinality(kept) + Cardinality(act)
    <3>1. /\ IsFiniteSet(kept \cup act)
          /\ Cardinality(kept \cup act)
                = Cardinality(kept) + Cardinality(act) - Cardinality(kept \cap act)
      BY <2>3, <2>4, FS_Union
    <3>2. IsFiniteSet(kept \cap act)
      BY <2>3, FS_Intersection
    <3>3. /\ Cardinality(kept) \in Nat /\ Cardinality(act) \in Nat
          /\ Cardinality(kept \cap act) \in Nat
      BY <2>3, <2>4, <3>2, FS_CardinalityType
    <3> QED BY <3>1, <3>3
  <2>6. Cardinality(known') <= Cardinality(kept \cup act)
    BY <2>2, <2>5, FS_Subset
  <2>7. /\ Cardinality(known') \in Nat /\ Cardinality(kept \cup act) \in Nat
        /\ Cardinality(kept) \in Nat /\ Cardinality(act) \in Nat /\ Cardinality(slots) \in Nat
    BY <1>0, <2>3, <2>4, <2>5, FS_CardinalityType DEF IInv, KnownInv
  <2>8. Cardinality(known') <= MaxFinished + Cardinality(slots)
    BY <2>3, <2>4, <2>5, <2>6, <2>7, BoundsAssumption
  <2> QED BY <2>8 DEF TableBounded, slots
<1>3. ASSUME NEW j \in Job, InternetStep(j) \/ IperfStep(j) \/ Exits(j) \/ StopRequest(j)
                            \/ StopReturns(j) \/ StopKills(j) \/ SweepVisit(j)
      PROVE  UNCHANGED <<known, params>>
  BY <1>3 DEF InternetStep, IperfStep, Exits, StopRequest, StopReturns, StopKills,
              SweepVisit, jobVars
<1>4. ASSUME BeginShutdown \/ SweepEnds \/ DeleteHistory \/ UNCHANGED vars
      PROVE  UNCHANGED <<known, params>>
  BY <1>4 DEF BeginShutdown, SweepEnds, DeleteHistory, vars, jobVars
<1> QED BY <1>1, <1>2, <1>3, <1>4 DEF Next

\* The job table exceeds MaxFinished by at most one job for each test and each
\* port of a server among those it lists, although _gc runs on creation only.
THEOREM SpeedtestTableBounded == Spec => []TableBounded
<1>1. Init => BornInv
  BY DEF Init, BornInv
<1>2. Init => TableBounded
  <2> SUFFICES ASSUME Init PROVE TableBounded
    OBVIOUS
  <2>1. known = {} /\ {<<params[j].kind, params[j].port>> : j \in known} = {}
    BY DEF Init
  <2>2. Cardinality({}) = 0
    BY FS_EmptySet
  <2> QED BY <2>1, <2>2, BoundsAssumption DEF TableBounded
<1>3. IInv => TypeOK
  BY DEF IInv
<1> QED BY <1>1, <1>2, <1>3, NextBorn, NextTable, SpeedtestIInv, PTL DEF Spec

-----------------------------------------------------------------------------
(***************************************************************************)
(* The buffer of a job and its poller.  Everything is a part of the        *)
(* sequence of all samples the job ever got: the buffer, an answer on its  *)
(* way, and what the poller shows.                                         *)
(***************************************************************************)
\* The elements of a after position i, up to n.
Part(a, i, n) == SubSeq(a, i + 1, n)

LEMMA PartFacts ==
    ASSUME NEW S, NEW a \in Seq(S), NEW n \in 0..Len(a), NEW i \in 0..n
    PROVE  /\ Part(a, i, n) \in Seq(S)
           /\ Len(Part(a, i, n)) = n - i
           /\ \A k \in 1..(n - i) : Part(a, i, n)[k] = a[i + k]
<1>1. /\ Len(a) \in Nat /\ n \in Nat /\ i \in Nat /\ i <= n /\ n <= Len(a)
      /\ i + 1 \in Int /\ n \in Int
  OBVIOUS
<1>2. \A k \in (i + 1)..n : a[k] \in S
  BY <1>1
<1>3. PICK m \in Int : m = i + 1
  BY <1>1
<1>4. \A k \in m..n : a[k] \in S
  BY <1>2, <1>3
<1>5. /\ SubSeq(a, m, n) \in Seq(S)
      /\ Len(SubSeq(a, m, n)) = IF m <= n THEN n - m + 1 ELSE 0
      /\ \A k \in 1..(n - m + 1) : SubSeq(a, m, n)[k] = a[m + k - 1]
  BY <1>1, <1>4, SubSeqProperties
<1>6. Part(a, i, n) = SubSeq(a, m, n)
  BY <1>3 DEF Part
<1>7. \A k \in 1..(n - i) : Part(a, i, n)[k] = a[i + k]
  <2> SUFFICES ASSUME NEW k \in 1..(n - i) PROVE Part(a, i, n)[k] = a[i + k]
    OBVIOUS
  <2>1. k \in 1..(n - m + 1) /\ m + k - 1 = i + k
    BY <1>1, <1>3
  <2> QED BY <1>5, <1>6, <2>1
<1> QED BY <1>1, <1>3, <1>5, <1>6, <1>7

\* A sequence with the elements of a part is that part.
LEMMA IsPart ==
    ASSUME NEW S, NEW a \in Seq(S), NEW n \in 0..Len(a), NEW i \in 0..n,
           NEW c \in Seq(S), Len(c) = n - i, \A x \in 1..(n - i) : c[x] = a[i + x]
    PROVE  Part(a, i, n) = c
<1>1. PICK d : d = Part(a, i, n)
  OBVIOUS
<1>2. d \in Seq(S) /\ Len(d) = n - i /\ \A x \in 1..(n - i) : d[x] = a[i + x]
  BY ZenonT(30), <1>1, PartFacts
<1>3. Len(d) = Len(c) /\ \A x \in 1..Len(d) : d[x] = c[x]
  BY <1>2
<1>4. d = c
  BY <1>2, <1>3, SeqEqual
<1> QED BY <1>1, <1>4

LEMMA PartOfPart ==
    ASSUME NEW S, NEW a \in Seq(S), NEW n \in 0..Len(a), NEW i \in 0..n, NEW k \in 0..(n - i)
    PROVE  Part(Part(a, i, n), k, n - i) = Part(a, i + k, n)
<1>1. Len(a) \in Nat /\ n \in Nat /\ i \in Nat /\ k \in Nat /\ i + k \in 0..n /\ n - i \in Nat
  OBVIOUS
<1>2. PICK b, c : b = Part(a, i, n) /\ c = Part(b, k, n - i)
  OBVIOUS
<1>3. b \in Seq(S) /\ Len(b) = n - i /\ \A x \in 1..(n - i) : b[x] = a[i + x]
  BY ZenonT(30), <1>2, PartFacts
<1>4. PICK m : m = n - i
  OBVIOUS
<1>5. /\ c \in Seq(S) /\ Len(c) = (n - i) - k
      /\ \A x \in 1..((n - i) - k) : c[x] = b[k + x]
  <2>1. b \in Seq(S) /\ m \in 0..Len(b) /\ k \in 0..m /\ c = Part(b, k, m)
    BY <1>1, <1>2, <1>3, <1>4
  <2>2. /\ c \in Seq(S) /\ Len(c) = m - k
        /\ \A x \in 1..(m - k) : c[x] = b[k + x]
    BY ZenonT(30), <2>1, PartFacts
  <2> QED BY <1>4, <2>2
<1>6. ASSUME NEW x \in 1..(n - (i + k)) PROVE c[x] = a[(i + k) + x]
  <2>1. /\ x \in 1..((n - i) - k) /\ k + x \in 1..(n - i)
        /\ i + (k + x) = (i + k) + x
    BY <1>1
  <2> QED BY <1>3, <1>5, <2>1
<1>7. Len(c) = n - (i + k)
  BY <1>1, <1>5
<1>8. Part(a, i + k, n) = c
  BY <1>1, <1>5, <1>6, <1>7, IsPart
<1> QED BY <1>2, <1>8

LEMMA PartJoin ==
    ASSUME NEW S, NEW a \in Seq(S), NEW n \in 0..Len(a), NEW m \in 0..n, NEW i \in 0..m
    PROVE  Part(a, i, m) \o Part(a, m, n) = Part(a, i, n)
<1>1. Len(a) \in Nat /\ n \in Nat /\ m \in Nat /\ i \in Nat /\ m \in 0..Len(a) /\ i \in 0..n
  OBVIOUS
<1>2. /\ i + 1 \in 1..Len(a) + 1 /\ m \in (i + 1) - 1..Len(a) /\ n \in m..Len(a)
  BY <1>1
<1> QED BY <1>2, ConcatAdjacentSubSeq DEF Part

LEMMA PartPrefix ==
    ASSUME NEW S, NEW a \in Seq(S), NEW b \in Seq(S), NEW n \in 0..Len(a), NEW i \in 0..n
    PROVE  Part(a \o b, i, n) = Part(a, i, n)
<1>1. Len(a) \in Nat /\ Len(b) \in Nat /\ n \in Nat /\ i \in Nat
  OBVIOUS
<1>2. PICK q : q = a \o b
  OBVIOUS
<1>3. /\ q \in Seq(S) /\ Len(q) = Len(a) + Len(b)
      /\ \A x \in 1..(Len(a) + Len(b)) : q[x] = IF x <= Len(a) THEN a[x] ELSE b[x - Len(a)]
  BY <1>2, ConcatProperties
<1>4. n \in 0..Len(q) /\ i \in 0..n
  BY <1>1, <1>3
<1>5. PICK c : c = Part(q, i, n)
  OBVIOUS
<1>6. c \in Seq(S) /\ Len(c) = n - i /\ \A x \in 1..(n - i) : c[x] = q[i + x]
  BY ZenonT(30), <1>3, <1>4, <1>5, PartFacts
<1>7. ASSUME NEW x \in 1..(n - i) PROVE c[x] = a[i + x]
  <2>1. i + x \in 1..(Len(a) + Len(b)) /\ i + x <= Len(a)
    BY <1>1
  <2> QED BY <1>3, <1>6, <2>1
<1>8. Part(a, i, n) = c
  BY <1>6, <1>7, IsPart
<1> QED BY <1>2, <1>5, <1>8

LEMMA PartTail ==
    ASSUME NEW S, NEW a \in Seq(S), NEW b \in Seq(S)
    PROVE  Part(a \o b, Len(a), Len(a) + Len(b)) = b
<1>1. Len(a) \in Nat /\ Len(b) \in Nat
  OBVIOUS
<1>2. PICK q, n : q = a \o b /\ n = Len(a) + Len(b)
  OBVIOUS
<1>3. /\ q \in Seq(S) /\ Len(q) = Len(a) + Len(b)
      /\ \A x \in 1..(Len(a) + Len(b)) : q[x] = IF x <= Len(a) THEN a[x] ELSE b[x - Len(a)]
  BY <1>2, ConcatProperties
<1>4. n \in 0..Len(q) /\ Len(a) \in 0..n /\ Len(b) = n - Len(a)
  BY <1>1, <1>2, <1>3
<1>5. ASSUME NEW x \in 1..(n - Len(a)) PROVE b[x] = q[Len(a) + x]
  <2>1. /\ Len(a) + x \in 1..(Len(a) + Len(b)) /\ ~(Len(a) + x <= Len(a))
        /\ (Len(a) + x) - Len(a) = x
    BY <1>1, <1>2
  <2> QED BY <1>3, <2>1
<1>6. Part(q, Len(a), n) = b
  BY <1>3, <1>4, <1>5, IsPart
<1> QED BY <1>2, <1>6

\* How much of n samples was trimmed, and where the poller goes on.
Trim(n) == IF n > MaxSamples THEN n - MaxSamples ELSE 0
From(s, n) == IF s > Trim(n) THEN s ELSE Trim(n)

LEMMA TrimFacts ==
    ASSUME NEW n \in Nat
    PROVE  Trim(n) \in 0..n /\ Trim(n) \in Nat /\ n - Trim(n) \in Nat
BY StreamAssumption DEF Trim

LEMMA FromFacts ==
    ASSUME NEW n \in Nat, NEW s \in 0..n
    PROVE  From(s, n) \in s..n /\ From(s, n) \in 0..n /\ Trim(s) <= Trim(n)
BY StreamAssumption DEF Trim, From

LEMMA LastOfIs ==
    ASSUME NEW S, NEW q \in Seq(S)
    PROVE  Stream!LastOf(q) = Part(q, Trim(Len(q)), Len(q))
<1>1. Len(q) \in Nat /\ MaxSamples \in Nat
  BY StreamAssumption
<1>2. Trim(Len(q)) + 1 = IF Len(q) > MaxSamples THEN Len(q) - MaxSamples + 1 ELSE 1
  BY <1>1 DEF Trim
<1> QED BY <1>2 DEF Stream!LastOf, Part

\* What is shown up to s, with the samples an answer brings up to n, is what is
\* to be shown up to n, even if some of the samples between were trimmed.
LEMMA ShownGrows ==
    ASSUME NEW S, NEW a \in Seq(S), NEW n \in 0..Len(a), NEW s \in 0..n
    PROVE  Stream!LastOf(Part(a, Trim(s), s) \o Part(a, From(s, n), n)) = Part(a, Trim(n), n)
<1>1. MaxSamples \in Nat /\ Len(a) \in Nat /\ n \in Nat /\ s \in Nat /\ s \in 0..Len(a)
  BY StreamAssumption
<1>2. PICK t, u : t = Trim(s) /\ u = Trim(n)
  OBVIOUS
<1>3. /\ t \in 0..s /\ t \in Nat /\ u \in 0..n /\ u \in Nat /\ t <= u /\ t \in 0..n
      /\ t = (IF s > MaxSamples THEN s - MaxSamples ELSE 0)
      /\ u = (IF n > MaxSamples THEN n - MaxSamples ELSE 0)
  BY <1>1, <1>2 DEF Trim
<1>4. CASE s >= u
  <2>1. PICK q : q = Part(a, t, n)
    OBVIOUS
  <2>2. From(s, n) = s
    BY <1>1, <1>2, <1>3, <1>4 DEF From
  <2>3. Part(a, t, s) \o Part(a, s, n) = q
    BY <1>3, <2>1, PartJoin
  <2>4. q \in Seq(S) /\ Len(q) = n - t
    BY <1>3, <2>1, PartFacts
  <2>5. Trim(n - t) = u - t
    BY <1>1, <1>3, <1>4 DEF Trim
  <2>6. u - t \in 0..(n - t) /\ t + (u - t) = u
    BY <1>1, <1>3
  <2>7. Part(q, u - t, n - t) = Part(a, u, n)
    BY SMTT(30), <1>3, <2>1, <2>6, PartOfPart
  <2>8. Stream!LastOf(q) = Part(q, u - t, n - t)
    BY <2>4, <2>5, LastOfIs
  <2> QED BY <1>2, <2>2, <2>3, <2>7, <2>8
<1>5. CASE s < u
  <2>1. PICK b, c : b = Part(a, t, s) /\ c = Part(a, u, n)
    OBVIOUS
  <2>2. From(s, n) = u /\ n - u = MaxSamples
    BY <1>1, <1>2, <1>3, <1>5 DEF From
  <2>3. b \in Seq(S) /\ Len(b) \in Nat
    <3>1. Part(a, t, s) \in Seq(S)
      BY <1>1, <1>3, PartFacts
    <3> QED BY <2>1, <3>1
  <2>4. c \in Seq(S) /\ Len(c) = MaxSamples
    BY <1>3, <2>1, <2>2, PartFacts
  <2>5. b \o c \in Seq(S) /\ Len(b \o c) = Len(b) + Len(c)
    BY <2>3, <2>4, ConcatProperties
  <2>6. Trim(Len(b) + Len(c)) = Len(b)
    BY <1>1, <2>3, <2>4 DEF Trim
  <2>7. Part(b \o c, Len(b), Len(b) + Len(c)) = c
    BY <2>3, <2>4, PartTail
  <2>8. Stream!LastOf(b \o c) = Part(b \o c, Len(b), Len(b) + Len(c))
    BY <2>5, <2>6, LastOfIs
  <2> QED BY <1>2, <2>1, <2>2, <2>7, <2>8
<1> QED BY <1>1, <1>3, <1>4, <1>5

-----------------------------------------------------------------------------
\* The parser's state has its type, and the buffer is as long as it may be.
ParserInv ==
    /\ run \in IperfRun /\ ahead \in Seq(Stream!Lines) /\ session \in Nat
    /\ summary \subseteq Stream!LineId /\ pending \in Stream!Slot \cup {Nothing}
    /\ out \in Seq(Stream!Sample) /\ base = Trim(Len(out))
    /\ phase \in {"reading", "finishing", "over"}

\* What the poller shows and what it waits for are parts of the samples; the last
\* answer is given when no more samples can come.
PollerInv ==
    /\ since \in 0..Len(out) /\ shown = Part(out, Trim(since), since)
    /\ reply \in Stream!Answer \cup {Nothing, Stopped}
    /\ reply \in Stream!Answer =>
          /\ reply.next \in since..Len(out)
          /\ reply.samples = Part(out, From(since, reply.next), reply.next)
          /\ ~reply.active => phase = "over" /\ reply.next = Len(out)
    /\ reply = Stopped => phase = "over" /\ since = Len(out)

\* Samples are added at the end, so that every part that was there stays.
LEMMA AddsParser ==
    ASSUME ParserInv, NEW new \in Seq(Stream!Sample), Stream!Adds(new)
    PROVE  /\ out' \in Seq(Stream!Sample) /\ base' = Trim(Len(out')) /\ out' = out \o new
<1>1. out' = out \o new /\ out \in Seq(Stream!Sample)
  BY DEF Stream!Adds, ParserInv
<1>2. out' \in Seq(Stream!Sample) /\ Len(out') = Len(out) + Len(new)
  BY <1>1, ConcatProperties
<1>3. PICK l \in Nat, m \in Nat : l = Len(out) /\ m = Len(new)
  BY <1>1
<1>4. Len(out') = l + m /\ base = Trim(l) /\ MaxSamples \in Nat
  BY <1>2, <1>3, StreamAssumption DEF ParserInv
<1>5. base' = IF Len(out') - base > MaxSamples THEN Len(out') - MaxSamples ELSE base
  BY DEF Stream!Adds
<1>6. base' = IF (l + m) - Trim(l) > MaxSamples THEN (l + m) - MaxSamples ELSE Trim(l)
  BY <1>4, <1>5
<1>7. PICK k, t : k = l + m /\ t = Trim(l)
  OBVIOUS
<1>8. k \in Nat /\ t = IF l > MaxSamples THEN l - MaxSamples ELSE 0
  BY <1>3, <1>7 DEF Trim
<1>9. (IF k - t > MaxSamples THEN k - MaxSamples ELSE t)
        = (IF k > MaxSamples THEN k - MaxSamples ELSE 0)
  <2>1. CASE l > MaxSamples
    <3>1. t = l - MaxSamples /\ k = l + m
      BY <1>7, <1>8, <2>1
    <3> QED BY <1>3, <1>4, <2>1, <3>1
  <2>2. CASE ~(l > MaxSamples)
    <3>1. t = 0
      BY <1>8, <2>2
    <3> QED BY <1>4, <1>8, <3>1
  <2> QED BY <2>1, <2>2
<1>10. base' = Trim(l + m)
  BY <1>6, <1>7, <1>9 DEF Trim
<1> QED BY <1>1, <1>2, <1>4, <1>10

LEMMA AddsPoller ==
    ASSUME ParserInv, PollerInv, phase = "reading",
           NEW new \in Seq(Stream!Sample), out' = out \o new,
           UNCHANGED <<since, shown, reply>>
    PROVE  PollerInv'
<1>1. /\ out \in Seq(Stream!Sample) /\ Len(out) \in Nat /\ Len(new) \in Nat
      /\ Len(out') = Len(out) + Len(new)
  BY ConcatProperties DEF ParserInv
<1>2. /\ since \in 0..Len(out) /\ since' = since /\ since \in Nat /\ since' \in 0..Len(out')
  BY <1>1 DEF PollerInv
<1>3. \A n \in 0..Len(out) : \A i \in 0..n : Part(out', i, n) = Part(out, i, n)
  BY <1>1, PartPrefix
<1>4. shown' = Part(out', Trim(since), since)
  BY <1>2, <1>3, TrimFacts DEF PollerInv
<1>5. ASSUME reply \in Stream!Answer
      PROVE  /\ reply.next \in since..Len(out') /\ reply.active
             /\ reply.samples = Part(out', From(since, reply.next), reply.next)
  <2>1. PICK n : n = reply.next
    OBVIOUS
  <2>2. n \in since..Len(out) /\ n \in Nat /\ n \in 0..Len(out) /\ since \in 0..n
    BY <1>1, <1>2, <1>5, <2>1 DEF PollerInv
  <2>3. From(since, n) \in 0..n
    BY <2>2, FromFacts
  <2>4. Part(out', From(since, n), n) = Part(out, From(since, n), n)
    BY <1>3, <2>2, <2>3
  <2>5. reply.active
    BY <1>5 DEF PollerInv, Stream!Answer
  <2>6. reply.samples = Part(out, From(since, n), n)
    BY <1>5, <2>1 DEF PollerInv
  <2>7. n \in since..Len(out')
    BY <1>1, <1>2, <2>2
  <2> QED BY <2>1, <2>4, <2>5, <2>6, <2>7
<1>6. reply # Stopped
  BY DEF PollerInv
<1> QED BY <1>2, <1>4, <1>5, <1>6 DEF PollerInv
\* The types of what is read and of what is added.
LEMMA LineTypes ==
    ASSUME ParserInv, NEW kind, Stream!Reads(kind)
    PROVE  /\ Head(ahead) \in Stream!Lines /\ ahead' \in Seq(Stream!Lines)
           /\ phase = "reading" /\ phase' = phase /\ run' = run
           /\ UNCHANGED <<since, shown, reply>>
BY HeadTailProperties DEF ParserInv, Stream!Reads, Stream!poller

LEMMA FlushedType ==
    ASSUME ParserInv
    PROVE  Stream!Flushed \in Seq(Stream!Sample)
<1>1. CASE pending = Nothing
  BY <1>1 DEF Stream!Flushed
<1>2. CASE pending # Nothing
  <2>1. pending \in Stream!Sample
    BY <1>2 DEF ParserInv, Stream!Sample
  <2> QED BY <1>2, <2>1 DEF Stream!Flushed
<1> QED BY <1>1, <1>2

LEMMA EventType ==
    ASSUME ParserInv, session' \in Nat, NEW what \in {"client", "session_end"}
    PROVE  Stream!Event(what) \in Stream!Sample
BY DEF ParserInv, Stream!Event, Stream!Sample

LEMMA IdType ==
    ASSUME NEW l \in Stream!Lines
    PROVE  [role |-> l.role, id |-> l.id] \in Stream!LineId
BY DEF Stream!LineId

LEMMA SlotTypes ==
    ASSUME ParserInv, NEW l \in Stream!Lines, NEW key,
           key = [session |-> session, at |-> l.at, omitted |-> l.omitted],
           NEW slot \in Stream!Slot
    PROVE  /\ Stream!NewSlot(key) \in Stream!Slot
           /\ [slot EXCEPT !.lines = @ \cup {[role |-> l.role, id |-> l.id]}] \in Stream!Slot
<1>1. key \in Stream!Key
  BY DEF ParserInv, Stream!Key
<1>2. Stream!NewSlot(key) \in Stream!Slot
  BY <1>1 DEF Stream!NewSlot, Stream!Slot
<1>3. slot.lines \cup {[role |-> l.role, id |-> l.id]} \in SUBSET Stream!LineId
  BY IdType DEF Stream!Slot
<1>4. [slot EXCEPT !.lines = @ \cup {[role |-> l.role, id |-> l.id]}] \in Stream!Slot
  BY <1>3 DEF Stream!Slot
<1> QED BY <1>2, <1>4

\* A step of the reader, and one that adds nothing.
LEMMA ReaderAdds ==
    ASSUME ParserInv, PollerInv, phase = "reading", phase' \in {"reading", "finishing"},
           NEW new \in Seq(Stream!Sample), Stream!Adds(new), run' = run,
           ahead' \in Seq(Stream!Lines), session' \in Nat, summary' \subseteq Stream!LineId,
           pending' \in Stream!Slot \cup {Nothing}, UNCHANGED <<since, shown, reply>>
    PROVE  ParserInv' /\ PollerInv'
<1>1. out' \in Seq(Stream!Sample) /\ base' = Trim(Len(out')) /\ out' = out \o new
  BY AddsParser
<1>2. ParserInv'
  BY <1>1 DEF ParserInv
<1>3. PollerInv'
  BY <1>1, AddsPoller
<1> QED BY <1>2, <1>3

LEMMA NothingAdded ==
    ASSUME ParserInv, PollerInv, phase = "over" => phase' = "over",
           phase' \in {"reading", "finishing", "over"},
           run' = run, ahead' \in Seq(Stream!Lines), session' \in Nat,
           summary' \subseteq Stream!LineId, pending' \in Stream!Slot \cup {Nothing},
           UNCHANGED <<out, base, since, shown, reply>>
    PROVE  ParserInv' /\ PollerInv'
<1>1. ParserInv'
  BY DEF ParserInv, Trim
<1>2. PollerInv'
  BY DEF PollerInv, Trim, From, Part
<1> QED BY <1>1, <1>2

-----------------------------------------------------------------------------
LEMMA SeparatorKeeps ==
    ASSUME ParserInv, PollerInv, Stream!Separator
    PROVE  ParserInv' /\ PollerInv'
<1>1. Stream!Reads("separator") /\ Stream!Adds(Stream!Flushed)
  BY DEF Stream!Separator
<1>2. session' = session /\ summary' = summary /\ pending' = Nothing
  BY DEF Stream!Separator
<1>3. session' \in Nat /\ summary' \subseteq Stream!LineId
  BY <1>2 DEF ParserInv
<1> QED BY <1>1, <1>2, <1>3, LineTypes, FlushedType, ReaderAdds

LEMMA AcceptedKeeps ==
    ASSUME ParserInv, PollerInv, Stream!Accepted
    PROVE  ParserInv' /\ PollerInv'
<1>1. /\ Stream!Reads("accepted")
      /\ Stream!Adds(Append(Stream!Flushed, Stream!Event("client")))
  BY DEF Stream!Accepted
<1>2. session' = session + 1 /\ summary' = summary /\ pending' = Nothing
  BY DEF Stream!Accepted
<1>3. session' \in Nat /\ summary' \subseteq Stream!LineId
  BY <1>2 DEF ParserInv
<1>4. Append(Stream!Flushed, Stream!Event("client")) \in Seq(Stream!Sample)
  BY <1>3, FlushedType, EventType, AppendProperties
<1> QED BY <1>1, <1>2, <1>3, <1>4, LineTypes, ReaderAdds

LEMMA ListeningKeeps ==
    ASSUME ParserInv, PollerInv, Stream!Listening
    PROVE  ParserInv' /\ PollerInv'
<1>1. PICK new : /\ new = IF summary = {} THEN <<>> ELSE <<Stream!Event("session_end")>>
                 /\ Stream!Reads("listening") /\ Stream!Adds(new)
  BY DEF Stream!Listening
<1>2. session' = session /\ summary' = {} /\ pending' = pending
  BY DEF Stream!Listening
<1>3. session' \in Nat /\ summary' \subseteq Stream!LineId /\ pending' \in Stream!Slot \cup {Nothing}
  BY <1>2 DEF ParserInv
<1>4. new \in Seq(Stream!Sample)
  BY <1>1, <1>3, EventType
<1> QED BY <1>1, <1>3, <1>4, LineTypes, ReaderAdds

LEMMA EndLineKeeps ==
    ASSUME ParserInv, PollerInv, Stream!EndLine
    PROVE  ParserInv' /\ PollerInv'
<1>1. Stream!Reads("end") /\ UNCHANGED <<session, pending, out, base>>
  BY DEF Stream!EndLine
<1>2. PICK l \in Stream!Lines : l = Head(ahead)
  BY <1>1, LineTypes
<1>3. \/ summary' = summary
      \/ summary' = {s \in summary : s.role # l.role} \cup {[role |-> l.role, id |-> l.id]}
  BY <1>2 DEF Stream!EndLine
<1>4. summary' \subseteq Stream!LineId
  BY <1>2, <1>3, IdType DEF ParserInv
<1>5. session' \in Nat /\ pending' \in Stream!Slot \cup {Nothing}
  BY <1>1 DEF ParserInv
<1>6. phase = "reading" /\ phase' = phase
  BY <1>1, LineTypes
<1> QED BY <1>1, <1>4, <1>5, <1>6, LineTypes, NothingAdded

LEMMA IntervalKeeps ==
    ASSUME ParserInv, PollerInv, Stream!Interval
    PROVE  ParserInv' /\ PollerInv'
<1>1. Stream!Reads("interval") /\ session' = session /\ summary' = summary
  BY DEF Stream!Interval
<1>2. PICK l \in Stream!Lines : l = Head(ahead)
  BY <1>1, LineTypes
<1>3. PICK key, old, slot, others, done :
        /\ key = [session |-> session, at |-> l.at, omitted |-> l.omitted]
        /\ old = IF pending # Nothing /\ pending.key = key
                 THEN pending ELSE Stream!NewSlot(key)
        /\ slot = [old EXCEPT !.lines = @ \cup {[role |-> l.role, id |-> l.id]}]
        /\ others = IF pending # Nothing /\ pending.key = key THEN <<>> ELSE Stream!Flushed
        /\ done = IF Stream!Complete(slot) THEN Append(others, slot) ELSE others
  OBVIOUS
<1>4. IF key \in emitted THEN UNCHANGED <<pending, emitted, out, base>>
      ELSE /\ Stream!Adds(done)
           /\ pending' = IF Stream!Complete(slot) THEN Nothing ELSE slot
  BY <1>2, <1>3 DEF Stream!Interval
<1>5. /\ session' \in Nat /\ summary' \subseteq Stream!LineId /\ phase = "reading"
      /\ phase' = phase /\ run' = run /\ ahead' \in Seq(Stream!Lines)
      /\ UNCHANGED <<since, shown, reply>>
  BY <1>1, LineTypes DEF ParserInv
<1>6. CASE key \in emitted
  <2>1. UNCHANGED <<out, base, since, shown, reply>> /\ pending' \in Stream!Slot \cup {Nothing}
    BY <1>4, <1>5, <1>6 DEF ParserInv
  <2> QED BY <1>5, <2>1, NothingAdded
<1>7. CASE key \notin emitted
  <2>1. key \in Stream!Key
    BY <1>2, <1>3 DEF ParserInv, Stream!Key
  <2>2. Stream!NewSlot(key) \in Stream!Slot
    BY <2>1 DEF Stream!NewSlot, Stream!Slot
  <2>3. old \in Stream!Slot
    BY <1>3, <2>2 DEF ParserInv
  <2>4. slot \in Stream!Slot
    BY <1>2, <1>3, <2>3, SlotTypes
  <2>5. slot \in Stream!Sample
    BY <2>4 DEF Stream!Sample
  <2>6. others \in Seq(Stream!Sample)
    BY <1>3, FlushedType
  <2>7. done \in Seq(Stream!Sample)
    BY <1>3, <2>5, <2>6, AppendProperties
  <2>8. pending' \in Stream!Slot \cup {Nothing}
    BY <1>4, <1>7, <2>4
  <2>9. Stream!Adds(done)
    BY <1>4, <1>7
  <2> QED BY <1>5, <2>7, <2>8, <2>9, ReaderAdds
<1> QED BY <1>6, <1>7

LEMMA FlushKeeps ==
    ASSUME ParserInv, PollerInv, Stream!Quiet \/ Stream!EndOfOutput
    PROVE  ParserInv' /\ PollerInv'
<1>1. /\ Stream!FlushCut /\ phase = "reading" /\ phase' \in {"reading", "finishing"}
      /\ ahead' \in Seq(Stream!Lines)
  <2>1. CASE Stream!Quiet
    BY <2>1 DEF Stream!Quiet, ParserInv
  <2>2. CASE Stream!EndOfOutput
    BY <2>2 DEF Stream!EndOfOutput
  <2> QED BY <2>1, <2>2
<1>2. /\ Stream!Adds(Stream!Flushed) /\ pending' = Nothing /\ run' = run
      /\ session' \in Nat /\ summary' \subseteq Stream!LineId
      /\ UNCHANGED <<since, shown, reply>>
  BY <1>1 DEF Stream!FlushCut, Stream!poller, ParserInv
<1> QED BY <1>1, <1>2, FlushedType, ReaderAdds

LEMMA EndKeeps ==
    ASSUME ParserInv, PollerInv, Stream!TimeLimit \/ Stream!Finish
    PROVE  ParserInv' /\ PollerInv'
<1>1. /\ phase # "over" /\ phase' \in {"reading", "finishing", "over"}
      /\ UNCHANGED <<run, ahead, session, summary, pending, out, base, since, shown, reply>>
  BY DEF Stream!TimeLimit, Stream!Finish, Stream!parser, Stream!poller
<1>2. /\ run' = run /\ ahead' \in Seq(Stream!Lines) /\ session' \in Nat
      /\ summary' \subseteq Stream!LineId /\ pending' \in Stream!Slot \cup {Nothing}
      /\ UNCHANGED <<out, base, since, shown, reply>>
  BY <1>1 DEF ParserInv
<1> QED BY <1>1, <1>2, NothingAdded

-----------------------------------------------------------------------------
\* The poller's steps leave the samples alone.
LEMMA PollKeeps ==
    ASSUME ParserInv, PollerInv, Stream!Poll
    PROVE  ParserInv' /\ PollerInv'
<1>1. /\ UNCHANGED <<run, ahead, session, summary, pending, out, base, phase, since, shown>>
      /\ reply' = Stream!Snapshot
  BY DEF Stream!Poll, Stream!parser
<1>2. ParserInv'
  BY <1>1 DEF ParserInv, Trim
<1>3. PICK n : n = Len(out)
  OBVIOUS
<1>4. /\ out \in Seq(Stream!Sample) /\ n \in Nat /\ base = Trim(n) /\ base \in 0..n
      /\ base \in Nat /\ n \in 0..Len(out) /\ since \in 0..n /\ since \in Nat
  BY <1>3, TrimFacts DEF ParserInv, PollerInv
<1>5. PICK from : from = IF since > base THEN since - base ELSE 0
  OBVIOUS
<1>6. from \in 0..(n - base) /\ base + from = From(since, n) /\ From(since, n) \in 0..n
  BY <1>4, <1>5 DEF From
<1>7. Part(Part(out, base, n), from, n - base) = Part(out, From(since, n), n)
  BY <1>4, <1>6, PartOfPart
<1>8. Part(out, From(since, n), n) \in Seq(Stream!Sample)
  BY <1>4, <1>6, PartFacts
<1>9. reply' = [samples |-> Part(out, From(since, n), n), next |-> n, active |-> phase # "over"]
  BY <1>1, <1>3, <1>5, <1>7 DEF Stream!Snapshot, Stream!NextCursor, Part
<1>10. reply' \in Stream!Answer
  BY <1>4, <1>8, <1>9 DEF Stream!Answer
<1>11. reply' # Stopped
  BY <1>10, StreamAssumption
<1>12. /\ reply'.next = n /\ reply'.samples = Part(out, From(since, n), n)
       /\ ~reply'.active => phase = "over"
  BY <1>9
<1>13. n \in since..n /\ Len(out') = n
  BY <1>1, <1>3, <1>4
<1>14. /\ reply'.next \in since'..Len(out')
       /\ reply'.samples = Part(out', From(since', reply'.next), reply'.next)
       /\ ~reply'.active => phase' = "over" /\ reply'.next = Len(out')
  BY <1>1, <1>12, <1>13
<1>15. since' \in 0..Len(out') /\ shown' = Part(out', Trim(since'), since')
  BY <1>1 DEF PollerInv
<1>16. PollerInv'
  BY <1>10, <1>11, <1>14, <1>15 DEF PollerInv
<1> QED BY <1>2, <1>16

LEMMA ReceiveKeeps ==
    ASSUME ParserInv, PollerInv, Stream!Receive
    PROVE  ParserInv' /\ PollerInv'
<1>1. UNCHANGED <<run, ahead, session, summary, pending, out, base, phase>>
  BY DEF Stream!Receive, Stream!parser
<1>2. ParserInv'
  BY <1>1 DEF ParserInv, Trim
<1>3. reply \in Stream!Answer
  BY DEF Stream!Receive, PollerInv
<1>4. PICK n, s : n = reply.next /\ s = since
  OBVIOUS
<1>5. /\ out \in Seq(Stream!Sample) /\ s \in 0..Len(out) /\ n \in s..Len(out)
      /\ shown = Part(out, Trim(s), s) /\ reply.samples = Part(out, From(s, n), n)
      /\ ~reply.active => phase = "over" /\ n = Len(out)
  BY <1>3, <1>4 DEF ParserInv, PollerInv
<1>6. n \in 0..Len(out) /\ s \in 0..n
  BY <1>5
<1>7. since' = n /\ shown' = Stream!LastOf(Part(out, Trim(s), s) \o Part(out, From(s, n), n))
  BY <1>4, <1>5 DEF Stream!Receive
<1>8. shown' = Part(out, Trim(n), n)
  BY <1>5, <1>6, <1>7, ShownGrows
<1>9. reply' = IF reply.active THEN Nothing ELSE Stopped
  BY DEF Stream!Receive
<1>10. reply' \notin Stream!Answer
  BY <1>9, StreamAssumption
<1>11. reply' = Stopped => phase' = "over" /\ since' = Len(out')
  <2> SUFFICES ASSUME reply' = Stopped PROVE phase' = "over" /\ since' = Len(out')
    OBVIOUS
  <2>1. ~reply.active
    BY <1>9, StreamAssumption
  <2> QED BY <1>1, <1>5, <1>7, <2>1
<1>12. since' \in 0..Len(out') /\ shown' = Part(out', Trim(since'), since')
  BY <1>1, <1>6, <1>7, <1>8
<1>13. PollerInv'
  BY <1>9, <1>10, <1>11, <1>12 DEF PollerInv
<1> QED BY <1>2, <1>13

LEMMA LostKeeps ==
    ASSUME ParserInv, PollerInv, Stream!Lost
    PROVE  ParserInv' /\ PollerInv'
<1>1. /\ UNCHANGED <<run, ahead, session, summary, pending, out, base, phase, since, shown>>
      /\ reply' = Nothing
  BY DEF Stream!Lost, Stream!parser
<1>2. ParserInv'
  BY <1>1 DEF ParserInv, Trim
<1>3. reply' \notin Stream!Answer /\ reply' # Stopped
  BY <1>1, StreamAssumption
<1>4. since' \in 0..Len(out') /\ shown' = Part(out', Trim(since'), since')
  BY <1>1 DEF PollerInv
<1>5. PollerInv'
  BY <1>1, <1>3, <1>4 DEF PollerInv
<1> QED BY <1>2, <1>5

LEMMA StreamKeeps ==
    ASSUME ParserInv, PollerInv, [Stream!Next]_streamVars
    PROVE  ParserInv' /\ PollerInv'
<1>1. CASE Stream!Next
  BY <1>1, SeparatorKeeps, AcceptedKeeps, ListeningKeeps, EndLineKeeps, IntervalKeeps, FlushKeeps,
     EndKeeps, PollKeeps, ReceiveKeeps, LostKeeps DEF Stream!Next
<1>2. CASE UNCHANGED streamVars
  <2>1. /\ UNCHANGED <<run, ahead, session, summary, pending>>
        /\ UNCHANGED <<out, base, phase, since, shown, reply>>
    BY <1>2 DEF streamVars
  <2>2. /\ phase = "over" => phase' = "over"
        /\ phase' \in {"reading", "finishing", "over"}
        /\ run' = run /\ ahead' \in Seq(Stream!Lines) /\ session' \in Nat
        /\ summary' \subseteq Stream!LineId /\ pending' \in Stream!Slot \cup {Nothing}
        /\ UNCHANGED <<out, base, since, shown, reply>>
    BY <2>1 DEF ParserInv
  <2> QED BY <2>2, NothingAdded
<1> QED BY <1>1, <1>2

LEMMA ParserStarts == MenuInit => ParserInv /\ PollerInv
<1> SUFFICES ASSUME MenuInit PROVE ParserInv /\ PollerInv
  OBVIOUS
<1>1. Stream!Init
  BY DEF MenuInit
<1>2. ParserInv
  BY <1>1, StreamAssumption DEF Stream!Init, ParserInv, Trim
<1>3. Part(<<>>, Trim(0), 0) = <<>>
  <2>1. Trim(0) = 0
    BY StreamAssumption DEF Trim
  <2>2. SubSeq(<<>>, 1, 0) = <<>>
    BY SubSeqEmpty
  <2> QED BY <2>1, <2>2 DEF Part
<1>4. since = 0 /\ out = <<>> /\ shown = <<>> /\ reply = Nothing
  BY <1>1 DEF Stream!Init
<1>5. PollerInv
  BY <1>3, <1>4, StreamAssumption DEF PollerInv
<1> QED BY <1>2, <1>5

\* useJob.ts: a poller that stopped shows the last MAX_SAMPLES samples of the job,
\* in order and once, whatever answers were lost and however much was trimmed
\* before it asked.
THEOREM SpeedtestPollerHasAll == MenuSpec => []PollerHasAll
<1>1. MenuInit => ParserInv /\ PollerInv
  BY ParserStarts
<1>2. ParserInv /\ PollerInv /\ [MenuNext]_<<vars, menu, streamVars>> => (ParserInv /\ PollerInv)'
  <2> SUFFICES ASSUME ParserInv, PollerInv, [MenuNext]_<<vars, menu, streamVars>>
               PROVE  ParserInv' /\ PollerInv'
    OBVIOUS
  <2>1. [Stream!Next]_streamVars
    BY DEF MenuNext
  <2> QED BY <2>1, StreamKeeps
<1>3. ParserInv /\ PollerInv => PollerHasAll
  <2> SUFFICES ASSUME ParserInv, PollerInv, reply = Stopped
               PROVE  shown = Stream!LastOf(out)
    BY DEF PollerHasAll, Stream!PollerHasAll
  <2>1. out \in Seq(Stream!Sample) /\ since = Len(out) /\ shown = Part(out, Trim(since), since)
    BY DEF ParserInv, PollerInv
  <2> QED BY <2>1, LastOfIs
<1> QED BY <1>1, <1>2, <1>3, PTL DEF MenuSpec
-----------------------------------------------------------------------------
(***************************************************************************)
(* What the job gets from the lines: the invariant relates the parser's    *)
(* state to the lines that were read.  It says of every interval what was  *)
(* read of it and whether iperf3 has more, and of every session whether    *)
(* its end was reported.                                                   *)
(***************************************************************************)
\* The intervals among the samples q, and their keys.
IntervalsOf(q) == {i \in DOMAIN q : q[i].kind = "interval"}
KeysOf(q) == {q[i].key : i \in IntervalsOf(q)}
Few(q) == Cardinality(IntervalsOf(q)) <= MaxEmitted

\* What the first n lines have of an interval, and whether the others have more.
LinesOfKey(L, key, n) == {w \in 1..n : w \in Stream!LinesOf(L, "interval") /\ Stream!KeyOf(L, w) = key}
ReadOf(L, key, n) == {Stream!IdOf(L[w]) : w \in LinesOfKey(L, key, n)}
MoreOf(L, key, n) == \E m \in Stream!LinesOf(L, "interval") : m > n /\ Stream!KeyOf(L, m) = key

\* The samples q when n lines are read, e is remembered and c tells of a cut.
OutInv(L, q, e, c, n) ==
    /\ \A i \in IntervalsOf(q) : LinesOfKey(L, q[i].key, n) # {}
    /\ \A i, k \in IntervalsOf(q) :
          /\ i < k /\ Stream!SameClock(q[i].key, q[k].key) => q[i].key.at <= q[k].key.at
          /\ i # k /\ (~c \/ Few(q)) => q[i].key # q[k].key
    /\ e \subseteq KeysOf(q) /\ (Few(q) => KeysOf(q) \subseteq e)
    /\ ~c => \A i \in IntervalsOf(q) :
          q[i].lines = Stream!StreamsOf(L, q[i].key.session) /\ ~MoreOf(L, q[i].key, n)

\* The pending interval p, which no separator came after.
PendingInv(L, p, q, e, c, n) ==
    p # Nothing =>
        /\ p.key.session = Stream!SessionOf(L, n) /\ p.key \notin e
        /\ \E w \in LinesOfKey(L, p.key, n) : \A m \in w..n : L[m].kind # "separator"
        /\ \A i \in IntervalsOf(q) : Stream!SameClock(q[i].key, p.key) => q[i].key.at <= p.key.at
        /\ ~c => p.key \notin KeysOf(q) /\ p.lines = ReadOf(L, p.key, n)

\* Nothing that was read is missing.
CoverInv(L, p, q, c, n) ==
    ~c => \A w \in 1..n : w \in Stream!LinesOf(L, "interval") =>
              Stream!KeyOf(L, w) \in KeysOf(q) \/ (p # Nothing /\ Stream!KeyOf(L, w) = p.key)

\* The ends of the sessions, up to s.
EndsOf(q, k) == {i \in DOMAIN q : q[i].kind = "session_end" /\ q[i].session = k}
InSession(L, kind, k, n) ==
    {w \in 1..n : w \in Stream!LinesOf(L, kind) /\ Stream!SessionOf(L, w) = k}
TotalsOf(L, k, n) ==
    {w \in InSession(L, "end", k, n) : Stream!IsTotal(L, k, Stream!IdOf(L[w]))}
EndsInv(L, q, n) ==
    LET s == Stream!SessionOf(L, n)
    IN  /\ \A k \in 1..(s - 1) : Stream!HasTotal(L, k) => EndsOf(q, k) # {}
        /\ EndsOf(q, s) # {} => InSession(L, "listening", s, n) # {}
        /\ \A i \in DOMAIN q : q[i].kind = "session_end" =>
              /\ q[i].session \in 0..s /\ TotalsOf(L, q[i].session, n) # {}
              /\ \A m \in EndsOf(q, q[i].session) : m = i
              /\ \A m \in IntervalsOf(q) : q[m].key.session = q[i].session => m < i
              /\ \A x \in q[i].summary : Stream!IsTotal(L, q[i].session, x)

\* The streams v and the summary y of the session.
SummaryInv(L, v, y, q, n) ==
    LET s == Stream!SessionOf(L, n)
    IN  /\ v = {Stream!IdOf(L[w]) : w \in {x \in InSession(L, "interval", s, n) : L[x].id # "SUM"}}
        /\ y # {} => \E w \in TotalsOf(L, s, n) : \A m \in w..n : L[m].kind # "listening"
        /\ TotalsOf(L, s, n) # {} => y # {} \/ EndsOf(q, s) # {}
        /\ \A x \in y : Stream!IsTotal(L, s, x)

ReadingInv(L, a, n, s, v, p, e, y, q, c) ==
    /\ n \in 0..Len(L) /\ Len(a) = Len(L) - n /\ \A i \in DOMAIN a : a[i] = L[n + i]
    /\ s = Stream!SessionOf(L, n)
    /\ OutInv(L, q, e, c, n) /\ PendingInv(L, p, q, e, c, n) /\ CoverInv(L, p, q, c, n)
    /\ EndsInv(L, q, n) /\ SummaryInv(L, v, y, q, n)

\* What is left of it when nothing is read any more.
WholeInv ==
    \E n \in 0..Len(run.lines) : \E e :
        /\ session = Stream!SessionOf(run.lines, n)
        /\ OutInv(run.lines, out, e, cut, n) /\ EndsInv(run.lines, out, n)

LinesRead == Len(run.lines) - Len(ahead)
StreamInv ==
    /\ WholeInv
    /\ phase = "reading" =>
          ReadingInv(run.lines, ahead, LinesRead, session, seen, pending, emitted, summary, out, cut)

LEMMA StreamCounts == \A S : Stream!Cardinality(S) = Cardinality(S)
BY DEF Stream!Cardinality, Cardinality

LEMMA LineDomain ==
    ASSUME NEW L \in Seq(Stream!Lines)
    PROVE  DOMAIN L = 1..Len(L) /\ Len(L) \in Nat
OBVIOUS

\* A session is as long as no other is accepted.
LEMMA SessionSteps ==
    ASSUME NEW L \in Seq(Stream!Lines), NEW n \in 0..Len(L)
    PROVE  /\ Stream!SessionOf(L, n) \in Nat
           /\ n < Len(L) => Stream!SessionOf(L, n + 1) =
                 IF L[n + 1].kind = "accepted" THEN Stream!SessionOf(L, n) + 1 ELSE Stream!SessionOf(L, n)
<1> DEFINE A(i) == {k \in 1..i : L[k].kind = "accepted"}
<1>1. n \in Nat /\ Len(L) \in Nat
  OBVIOUS
<1>2. IsFiniteSet(1..n) /\ A(n) \in SUBSET (1..n)
  BY <1>1, FS_Interval
<1>3. IsFiniteSet(A(n)) /\ Cardinality(A(n)) \in Nat
  BY <1>2, FS_Subset, FS_CardinalityType
<1>4. \A i : Stream!SessionOf(L, i) = Cardinality(A(i))
  BY StreamCounts DEF Stream!SessionOf
<1>5. n < Len(L) => A(n + 1) = IF L[n + 1].kind = "accepted" THEN A(n) \cup {n + 1} ELSE A(n)
  BY <1>1
<1>6. n + 1 \notin A(n)
  BY <1>1
<1>7. Cardinality(A(n) \cup {n + 1}) = Cardinality(A(n)) + 1
  BY <1>3, <1>6, FS_AddElement
<1> HIDE DEF A
<1> QED BY <1>3, <1>4, <1>5, <1>7

LEMMA SessionStarts == \A L : Stream!SessionOf(L, 0) = 0
<1> TAKE L
<1>1. {k \in 1..0 : L[k].kind = "accepted"} = {}
  OBVIOUS
<1> QED BY <1>1, StreamCounts, FS_EmptySet DEF Stream!SessionOf

LEMMA SessionsGrow ==
    ASSUME NEW L \in Seq(Stream!Lines), NEW n \in 0..Len(L), NEW i \in 0..n
    PROVE  Stream!SessionOf(L, i) <= Stream!SessionOf(L, n)
<1> DEFINE A(x) == {k \in 1..x : L[k].kind = "accepted"}
<1>1. n \in Nat /\ i \in Nat /\ A(n) \in SUBSET (1..n)
  OBVIOUS
<1>2. A(i) \in SUBSET A(n)
  BY <1>1
<1>3. \A x : Stream!SessionOf(L, x) = Cardinality(A(x))
  BY StreamCounts DEF Stream!SessionOf
<1>4. IsFiniteSet(1..n)
  BY <1>1, FS_Interval
<1> HIDE DEF A
<1>5. IsFiniteSet(A(n))
  BY <1>1, <1>4, FS_Subset
<1> QED BY <1>2, <1>3, <1>5, FS_Subset

\* Of an interval that was begun, the next line is more, or there is none.
LEMMA IntervalOver ==
    ASSUME NEW L \in Seq(Stream!Lines), Stream!IntervalsInOrder(L), NEW n \in 0..Len(L), NEW key,
           LinesOfKey(L, key, n) # {}, MoreOf(L, key, n)
    PROVE  n + 1 \in Stream!LinesOf(L, "interval") /\ Stream!KeyOf(L, n + 1) = key
<1>1. PICK w \in 1..n : w \in Stream!LinesOf(L, "interval") /\ Stream!KeyOf(L, w) = key
  BY DEF LinesOfKey
<1>2. PICK m \in Stream!LinesOf(L, "interval") : m > n /\ Stream!KeyOf(L, m) = key
  BY DEF MoreOf
<1>3. m \in 1..Len(L) /\ n \in Nat /\ Len(L) \in Nat /\ n + 1 \in w..m /\ w < m /\ n + 1 \in DOMAIN L
  BY <1>1, <1>2 DEF Stream!LinesOf
<1>4. \A x \in w..m : L[x].kind = "interval" /\ Stream!KeyOf(L, x) = Stream!KeyOf(L, w)
  BY <1>1, <1>2, <1>3 DEF Stream!IntervalsInOrder
<1> QED BY <1>1, <1>3, <1>4 DEF Stream!LinesOf

\* Of an interval that is over, every stream and sum of the session was read.
LEMMA IntervalWhole ==
    ASSUME NEW L \in Seq(Stream!Lines), Stream!IntervalsInOrder(L), NEW n \in 0..Len(L), NEW key,
           LinesOfKey(L, key, n) # {}, ~MoreOf(L, key, n)
    PROVE  ReadOf(L, key, n) = Stream!StreamsOf(L, key.session)
<1>1. PICK w \in 1..n : w \in Stream!LinesOf(L, "interval") /\ Stream!KeyOf(L, w) = key
  BY DEF LinesOfKey
<1>2. \A x : Stream!KeyOf(L, x).session = Stream!SessionOf(L, x)
  BY DEF Stream!KeyOf
<1>3. ASSUME NEW x \in Stream!LinesOf(L, "interval"), Stream!SessionOf(L, x) = key.session
      PROVE  Stream!IdOf(L[x]) \in ReadOf(L, key, n)
  <2>1. PICK m \in Stream!LinesOf(L, "interval") :
           Stream!KeyOf(L, m) = key /\ Stream!IdOf(L[m]) = Stream!IdOf(L[x])
    BY <1>1, <1>2, <1>3 DEF Stream!IntervalsInOrder
  <2>2. m \in 1..n
    BY <2>1 DEF MoreOf, Stream!LinesOf
  <2> QED BY <2>1, <2>2 DEF ReadOf, LinesOfKey
<1>4. ReadOf(L, key, n) \subseteq Stream!StreamsOf(L, key.session)
  BY <1>2 DEF ReadOf, LinesOfKey, Stream!StreamsOf
<1>5. Stream!StreamsOf(L, key.session) \subseteq ReadOf(L, key, n)
  BY <1>3 DEF Stream!StreamsOf
<1> QED BY <1>4, <1>5

-----------------------------------------------------------------------------
\* What is remembered of no interval, of one and of two.
Remember(e, key) == IF Cardinality(e \cup {key}) > MaxEmitted THEN {} ELSE e \cup {key}
AddsKeys(f, slots) ==
    f = [i \in 0..Len(slots) |->
            IF i = 0 THEN emitted
            ELSE LET e == f[i - 1] \cup {slots[i].key}
                 IN  IF Stream!Cardinality(e) > MaxEmitted THEN {} ELSE e]

LEMMA RememberedIs ==
    ASSUME NEW slots, \E f : AddsKeys(f, slots)
    PROVE  \E f : AddsKeys(f, slots) /\ Stream!Remembered(slots) = f[Len(slots)]
BY DEF AddsKeys, Stream!Remembered

LEMMA RememberedNone == Stream!Remembered(<<>>) = emitted
<1>1. Len(<<>>) = 0 /\ 0..0 = {0}
  OBVIOUS
<1> DEFINE g == [i \in 0..0 |-> emitted]
<1>2. AddsKeys(g, <<>>)
  BY <1>1 DEF AddsKeys
<1>3. PICK f : AddsKeys(f, <<>>) /\ Stream!Remembered(<<>>) = f[0]
  BY <1>1, <1>2, RememberedIs
<1>4. f[0] = emitted
  BY <1>1, <1>3 DEF AddsKeys
<1> QED BY <1>3, <1>4

LEMMA RememberedOne ==
    ASSUME NEW a
    PROVE  Stream!Remembered(<<a>>) = Remember(emitted, a.key)
<1> DEFINE g == [i \in 0..1 |-> IF i = 0 THEN emitted ELSE Remember(emitted, a.key)]
<1>1. Len(<<a>>) = 1 /\ <<a>>[1] = a /\ 0..1 = {0, 1}
  OBVIOUS
<1>2. AddsKeys(g, <<a>>)
  BY <1>1, StreamCounts DEF AddsKeys, Remember
<1> HIDE DEF g
<1>3. PICK f : AddsKeys(f, <<a>>) /\ Stream!Remembered(<<a>>) = f[1]
  BY <1>1, <1>2, RememberedIs
<1>4. f[0] = emitted /\ f[1] = Remember(f[0], a.key)
  BY <1>1, <1>3, StreamCounts DEF AddsKeys, Remember
<1> QED BY <1>3, <1>4

LEMMA RememberedTwo ==
    ASSUME NEW a, NEW b
    PROVE  Stream!Remembered(<<a, b>>) = Remember(Remember(emitted, a.key), b.key)
<1> DEFINE r == Remember(emitted, a.key)
<1> DEFINE g == [i \in 0..2 |-> IF i = 0 THEN emitted ELSE IF i = 1 THEN r ELSE Remember(r, b.key)]
<1>1. Len(<<a, b>>) = 2 /\ <<a, b>>[1] = a /\ <<a, b>>[2] = b /\ 0..2 = {0, 1, 2}
  OBVIOUS
<1>2. AddsKeys(g, <<a, b>>)
  BY <1>1, StreamCounts DEF AddsKeys, Remember
<1> HIDE DEF g
<1>3. PICK f : AddsKeys(f, <<a, b>>) /\ Stream!Remembered(<<a, b>>) = f[2]
  BY <1>1, <1>2, RememberedIs
<1>4. f[0] = emitted
  BY <1>1, <1>3 DEF AddsKeys
<1>5. f[1] = Remember(f[0], a.key)
  BY <1>1, <1>3, StreamCounts DEF AddsKeys, Remember
<1>6. f[2] = Remember(f[1], b.key)
  BY <1>1, <1>3, StreamCounts DEF AddsKeys, Remember
<1> QED BY <1>3, <1>4, <1>5, <1>6

\* A sample more, at the end.
LEMMA OneMore ==
    ASSUME NEW q \in Seq(Stream!Sample), NEW x \in Stream!Sample, x.kind = "interval"
    PROVE  /\ Append(q, x) \in Seq(Stream!Sample) /\ DOMAIN Append(q, x) = 1..(Len(q) + 1)
           /\ IntervalsOf(Append(q, x)) = IntervalsOf(q) \cup {Len(q) + 1}
           /\ KeysOf(Append(q, x)) = KeysOf(q) \cup {x.key}
           /\ \A i \in IntervalsOf(q) : i \in 1..Len(q) /\ Append(q, x)[i] = q[i]
           /\ Append(q, x)[Len(q) + 1] = x
           /\ \A k : EndsOf(Append(q, x), k) = EndsOf(q, k)
<1> DEFINE r == Append(q, x)
<1>1. /\ r \in Seq(Stream!Sample) /\ Len(r) = Len(q) + 1 /\ r[Len(q) + 1] = x
      /\ \A i \in 1..Len(q) : r[i] = q[i]
  BY AppendProperties
<1>2. Len(q) \in Nat /\ DOMAIN q = 1..Len(q) /\ DOMAIN r = 1..(Len(q) + 1)
  BY <1>1
<1> HIDE DEF r
<1>3. IntervalsOf(r) = IntervalsOf(q) \cup {Len(q) + 1}
  BY <1>1, <1>2 DEF IntervalsOf
<1>4. \A i \in IntervalsOf(q) : i \in 1..Len(q) /\ r[i] = q[i]
  BY <1>1, <1>2 DEF IntervalsOf
<1>5. KeysOf(r) = KeysOf(q) \cup {x.key}
  BY <1>1, <1>3, <1>4 DEF KeysOf
<1>6. \A k : EndsOf(r, k) = EndsOf(q, k)
  BY <1>1, <1>2 DEF EndsOf
<1> QED BY <1>1, <1>2, <1>3, <1>4, <1>5, <1>6 DEF r

LEMMA IntervalCounts ==
    ASSUME NEW q \in Seq(Stream!Sample)
    PROVE  /\ IsFiniteSet(IntervalsOf(q)) /\ IsFiniteSet(KeysOf(q))
           /\ Cardinality(IntervalsOf(q)) \in Nat /\ Cardinality(KeysOf(q)) <= Cardinality(IntervalsOf(q))
<1>1. Len(q) \in Nat /\ IntervalsOf(q) \in SUBSET (1..Len(q)) /\ IsFiniteSet(1..Len(q))
  BY FS_Interval DEF IntervalsOf
<1>2. IsFiniteSet(IntervalsOf(q)) /\ Cardinality(IntervalsOf(q)) \in Nat
  BY <1>1, FS_Subset, FS_CardinalityType
<1> DEFINE f == [i \in IntervalsOf(q) |-> q[i].key]
<1>3. f \in Surjection(IntervalsOf(q), KeysOf(q))
  BY DEF KeysOf, Surjection
<1> QED BY <1>2, <1>3, FS_Surjection

\* An interval is added to the samples, and remembered.
LEMMA SlotAdded ==
    ASSUME NEW L \in Seq(Stream!Lines), Stream!IntervalsInOrder(L), NEW n \in 0..Len(L),
           NEW q \in Seq(Stream!Sample), NEW x \in Stream!Slot, NEW e, NEW c, NEW d,
           OutInv(L, q, e, c, n), c => d, x.key \notin e, LinesOfKey(L, x.key, n) # {},
           \A i \in IntervalsOf(q) : Stream!SameClock(q[i].key, x.key) => q[i].key.at <= x.key.at,
           ~d => x.key \notin KeysOf(q) /\ x.lines = ReadOf(L, x.key, n) /\ ~MoreOf(L, x.key, n)
    PROVE  OutInv(L, Append(q, x), Remember(e, x.key), d, n)
<1> DEFINE r == Append(q, x)
           z == Len(q) + 1
           g == Remember(e, x.key)
<1>1. x \in Stream!Sample /\ x.kind = "interval"
  BY DEF Stream!Sample, Stream!Slot
<1>2. /\ IntervalsOf(r) = IntervalsOf(q) \cup {z} /\ KeysOf(r) = KeysOf(q) \cup {x.key}
      /\ r \in Seq(Stream!Sample) /\ r[z] = x
      /\ \A i \in IntervalsOf(q) : i \in 1..Len(q) /\ r[i] = q[i]
  BY <1>1, OneMore
<1> HIDE DEF r, g
<1>3. Len(q) \in Nat /\ z \in Nat /\ \A i \in IntervalsOf(q) : i \in Nat /\ i < z
  BY <1>2
<1> HIDE DEF z
<1>4. \A i \in IntervalsOf(r) : LinesOfKey(L, r[i].key, n) # {}
  BY <1>2 DEF OutInv
<1>5. \A i, k \in IntervalsOf(r) :
        i < k /\ Stream!SameClock(r[i].key, r[k].key) => r[i].key.at <= r[k].key.at
  <2> TAKE i, k \in IntervalsOf(r)
  <2> HAVE i < k /\ Stream!SameClock(r[i].key, r[k].key)
  <2>1. CASE k \in IntervalsOf(q)
    <3>1. i \in IntervalsOf(q)
      BY <1>2, <1>3, <2>1
    <3> QED BY <1>2, <2>1, <3>1 DEF OutInv
  <2>2. CASE k = z
    <3>1. i \in IntervalsOf(q)
      BY <1>2, <1>3, <2>2
    <3> QED BY <1>2, <2>2, <3>1
  <2> QED BY <1>2, <2>1, <2>2
<1>6. /\ Cardinality(IntervalsOf(r)) = Cardinality(IntervalsOf(q)) + 1
      /\ Cardinality(IntervalsOf(q)) \in Nat /\ MaxEmitted \in Nat
  <2>1. z \notin IntervalsOf(q)
    BY <1>3
  <2>2. IsFiniteSet(IntervalsOf(q)) /\ Cardinality(IntervalsOf(q)) \in Nat
    BY IntervalCounts
  <2>3. Cardinality(IntervalsOf(q) \cup {z}) = Cardinality(IntervalsOf(q)) + 1
    BY <2>1, <2>2, FS_AddElement
  <2> QED BY <1>2, <2>2, <2>3, StreamAssumption
<1>7. Few(r) => Few(q)
  BY <1>6 DEF Few
<1>8. Few(r) => x.key \notin KeysOf(q)
  BY <1>7 DEF OutInv
<1>9. \A i, k \in IntervalsOf(r) : i # k /\ (~d \/ Few(r)) => r[i].key # r[k].key
  <2> SUFFICES ASSUME ~d \/ Few(r), NEW i \in IntervalsOf(r), NEW k \in IntervalsOf(r), i # k
               PROVE  r[i].key # r[k].key
    OBVIOUS
  <2>1. (~c \/ Few(q)) /\ x.key \notin KeysOf(q)
    BY <1>7, <1>8
  <2>2. \A j \in IntervalsOf(q) : r[j].key # x.key /\ r[j] = q[j]
    BY <1>2, <2>1 DEF KeysOf
  <2>3. CASE i = z
    BY <1>2, <2>2, <2>3
  <2>4. CASE k = z
    BY <1>2, <2>2, <2>4
  <2>5. CASE i \in IntervalsOf(q) /\ k \in IntervalsOf(q)
    BY <2>1, <2>2, <2>5 DEF OutInv
  <2> QED BY <1>2, <2>3, <2>4, <2>5
<1>10. g \subseteq KeysOf(r) /\ (Few(r) => KeysOf(r) \subseteq g)
  <2>1. e \subseteq KeysOf(q)
    BY DEF OutInv
  <2>2. e \cup {x.key} \subseteq KeysOf(r)
    BY <1>2, <2>1
  <2>3. ASSUME Few(r) PROVE g = e \cup {x.key}
    <3>1. IsFiniteSet(KeysOf(r)) /\ Cardinality(KeysOf(r)) <= Cardinality(IntervalsOf(r))
      BY <1>2, IntervalCounts
    <3>2. Cardinality(e \cup {x.key}) <= Cardinality(KeysOf(r)) /\ IsFiniteSet(e \cup {x.key})
      BY <2>2, <3>1, FS_Subset
    <3>3. Cardinality(e \cup {x.key}) \in Nat /\ Cardinality(KeysOf(r)) \in Nat
      BY <3>1, <3>2, FS_CardinalityType
    <3>4. Cardinality(IntervalsOf(r)) \in Nat /\ Cardinality(IntervalsOf(r)) <= MaxEmitted
      BY <1>6, <2>3 DEF Few
    <3>5. ~ (Cardinality(e \cup {x.key}) > MaxEmitted)
      BY <1>6, <3>1, <3>2, <3>3, <3>4
    <3> QED BY <3>5 DEF g, Remember
  <2>4. Few(r) => KeysOf(q) \subseteq e
    BY <1>7 DEF OutInv
  <2>5. g = {} \/ g = e \cup {x.key}
    BY DEF g, Remember
  <2> QED BY <1>2, <2>2, <2>3, <2>4, <2>5
<1>11. ~d => \A i \in IntervalsOf(r) :
         r[i].lines = Stream!StreamsOf(L, r[i].key.session) /\ ~MoreOf(L, r[i].key, n)
  <2> SUFFICES ASSUME ~d, NEW i \in IntervalsOf(r)
               PROVE  r[i].lines = Stream!StreamsOf(L, r[i].key.session) /\ ~MoreOf(L, r[i].key, n)
    OBVIOUS
  <2>1. x.lines = Stream!StreamsOf(L, x.key.session) /\ ~MoreOf(L, x.key, n)
    BY IntervalWhole
  <2>2. \A k \in IntervalsOf(q) :
          q[k].lines = Stream!StreamsOf(L, q[k].key.session) /\ ~MoreOf(L, q[k].key, n)
    BY DEF OutInv
  <2> QED BY <1>2, <2>1, <2>2
<1> QED BY <1>4, <1>5, <1>9, <1>10, <1>11 DEF OutInv, r, g

\* The pending interval is emitted.
LEMMA PendingAdded ==
    ASSUME NEW L \in Seq(Stream!Lines), Stream!IntervalsInOrder(L), NEW n \in 0..Len(L),
           NEW q \in Seq(Stream!Sample), NEW p \in Stream!Slot, p # Nothing, NEW e, NEW c, NEW d,
           OutInv(L, q, e, c, n), PendingInv(L, p, q, e, c, n), CoverInv(L, p, q, c, n),
           c => d, ~d => ~MoreOf(L, p.key, n)
    PROVE  /\ OutInv(L, Append(q, p), Remember(e, p.key), d, n)
           /\ CoverInv(L, Nothing, Append(q, p), d, n)
<1>1. /\ p.key \notin e /\ LinesOfKey(L, p.key, n) # {}
      /\ \A i \in IntervalsOf(q) : Stream!SameClock(q[i].key, p.key) => q[i].key.at <= p.key.at
      /\ ~c => p.key \notin KeysOf(q) /\ p.lines = ReadOf(L, p.key, n)
  BY DEF PendingInv
<1>2. OutInv(L, Append(q, p), Remember(e, p.key), d, n)
  <2>1. ~d => p.key \notin KeysOf(q) /\ p.lines = ReadOf(L, p.key, n) /\ ~MoreOf(L, p.key, n)
    BY <1>1
  <2> QED BY ZenonT(60), <1>1, <2>1, SlotAdded
<1>3. p \in Stream!Sample /\ p.kind = "interval"
  BY DEF Stream!Sample, Stream!Slot
<1>4. KeysOf(Append(q, p)) = KeysOf(q) \cup {p.key}
  BY <1>3, OneMore
<1>5. CoverInv(L, Nothing, Append(q, p), d, n)
  BY <1>4 DEF CoverInv
<1> QED BY <1>2, <1>5

-----------------------------------------------------------------------------
\* One line further.
LEMMA NextLine ==
    ASSUME NEW L \in Seq(Stream!Lines), NEW n \in 0..Len(L), n < Len(L), NEW key
    PROVE  /\ n + 1 \in 0..Len(L) /\ n + 1 \in DOMAIN L
           /\ LinesOfKey(L, key, n + 1) =
                 IF n + 1 \in Stream!LinesOf(L, "interval") /\ Stream!KeyOf(L, n + 1) = key
                 THEN LinesOfKey(L, key, n) \cup {n + 1} ELSE LinesOfKey(L, key, n)
           /\ MoreOf(L, key, n + 1) => MoreOf(L, key, n)
<1>1. /\ n \in Nat /\ Len(L) \in Nat /\ 1..(n + 1) = 1..n \cup {n + 1}
      /\ n + 1 \in 0..Len(L) /\ n + 1 \in DOMAIN L
  OBVIOUS
<1>2. LinesOfKey(L, key, n + 1) =
                 IF n + 1 \in Stream!LinesOf(L, "interval") /\ Stream!KeyOf(L, n + 1) = key
                 THEN LinesOfKey(L, key, n) \cup {n + 1} ELSE LinesOfKey(L, key, n)
  BY Zenon, <1>1 DEF LinesOfKey
<1>3. MoreOf(L, key, n + 1) => MoreOf(L, key, n)
  BY <1>1 DEF MoreOf, Stream!LinesOf
<1> QED BY <1>1, <1>2, <1>3

LEMMA LineElsewhere ==
    ASSUME NEW L \in Seq(Stream!Lines), NEW n \in 0..Len(L), n < Len(L), NEW kind, NEW k,
           L[n + 1].kind # kind \/ Stream!SessionOf(L, n + 1) # k
    PROVE  InSession(L, kind, k, n + 1) = InSession(L, kind, k, n)
<1>1. 1..(n + 1) = 1..n \cup {n + 1}
  OBVIOUS
<1> QED BY <1>1 DEF InSession, Stream!LinesOf

LEMMA LineHere ==
    ASSUME NEW L \in Seq(Stream!Lines), NEW n \in 0..Len(L), n < Len(L), NEW kind, NEW k,
           L[n + 1].kind = kind, Stream!SessionOf(L, n + 1) = k
    PROVE  InSession(L, kind, k, n + 1) = InSession(L, kind, k, n) \cup {n + 1}
<1>1. 1..(n + 1) = 1..n \cup {n + 1} /\ n + 1 \in DOMAIN L
  OBVIOUS
<1> QED BY <1>1 DEF InSession, Stream!LinesOf

\* What was true of the samples is, and so is what a cut leaves of it.
LEMMA OutStays ==
    ASSUME NEW L \in Seq(Stream!Lines), NEW n \in 0..Len(L), n < Len(L),
           NEW q \in Seq(Stream!Sample), NEW e, NEW c, OutInv(L, q, e, c, n)
    PROVE  OutInv(L, q, e, c, n + 1)
<1>1. \A key : /\ LinesOfKey(L, key, n) # {} => LinesOfKey(L, key, n + 1) # {}
               /\ MoreOf(L, key, n + 1) => MoreOf(L, key, n)
  BY NextLine
<1>2. \A i \in IntervalsOf(q) : LinesOfKey(L, q[i].key, n + 1) # {}
  BY <1>1 DEF OutInv
<1>3. ~c => \A i \in IntervalsOf(q) :
          q[i].lines = Stream!StreamsOf(L, q[i].key.session) /\ ~MoreOf(L, q[i].key, n + 1)
  BY <1>1 DEF OutInv
<1> QED BY <1>2, <1>3 DEF OutInv

\* A line that is no interval, no separator and starts no session.
LEMMA PendingStays ==
    ASSUME NEW L \in Seq(Stream!Lines), NEW n \in 0..Len(L), n < Len(L),
           NEW p, NEW q, NEW e, NEW c, PendingInv(L, p, q, e, c, n),
           L[n + 1].kind \notin {"interval", "separator", "accepted"}
    PROVE  PendingInv(L, p, q, e, c, n + 1)
<1> SUFFICES ASSUME p # Nothing PROVE PendingInv(L, p, q, e, c, n + 1)
  BY DEF PendingInv
<1>1. n + 1 \notin Stream!LinesOf(L, "interval")
  BY DEF Stream!LinesOf
<1>2. LinesOfKey(L, p.key, n + 1) = LinesOfKey(L, p.key, n)
  BY <1>1, NextLine
<1>3. ReadOf(L, p.key, n + 1) = ReadOf(L, p.key, n)
  BY <1>2 DEF ReadOf
<1>4. Stream!SessionOf(L, n + 1) = Stream!SessionOf(L, n)
  BY SessionSteps
<1>5. \E w \in LinesOfKey(L, p.key, n + 1) : \A m \in w..(n + 1) : L[m].kind # "separator"
  <2>1. PICK w \in LinesOfKey(L, p.key, n) : \A m \in w..n : L[m].kind # "separator"
    BY DEF PendingInv
  <2>2. w \in Nat /\ n \in Nat
    BY DEF LinesOfKey
  <2>3. \A m \in w..(n + 1) : m \in w..n \/ m = n + 1
    BY <2>2
  <2> QED BY <1>2, <2>1, <2>3
<1> QED BY <1>3, <1>4, <1>5 DEF PendingInv

LEMMA CoverStays ==
    ASSUME NEW L \in Seq(Stream!Lines), NEW n \in 0..Len(L), n < Len(L),
           NEW p, NEW q, NEW c, CoverInv(L, p, q, c, n), L[n + 1].kind # "interval"
    PROVE  CoverInv(L, p, q, c, n + 1)
<1>1. n + 1 \notin Stream!LinesOf(L, "interval")
  BY DEF Stream!LinesOf
<1>2. \A w \in 1..(n + 1) : w \in 1..n \/ w = n + 1
  OBVIOUS
<1> QED BY <1>1, <1>2 DEF CoverInv

\* A sample that is no interval.
LEMMA EventAdded ==
    ASSUME NEW L, NEW q \in Seq(Stream!Sample), NEW x \in Stream!Sample, x.kind # "interval",
           NEW p, NEW e, NEW c, NEW n
    PROVE  /\ OutInv(L, q, e, c, n) => OutInv(L, Append(q, x), e, c, n)
           /\ PendingInv(L, p, q, e, c, n) => PendingInv(L, p, Append(q, x), e, c, n)
           /\ CoverInv(L, p, q, c, n) => CoverInv(L, p, Append(q, x), c, n)
           /\ DOMAIN Append(q, x) = 1..(Len(q) + 1) /\ Append(q, x)[Len(q) + 1] = x
           /\ \A i \in 1..Len(q) : Append(q, x)[i] = q[i]
           /\ IntervalsOf(Append(q, x)) = IntervalsOf(q)
           /\ \A i \in IntervalsOf(q) : Append(q, x)[i] = q[i]
<1> DEFINE r == Append(q, x)
<1>1. /\ r \in Seq(Stream!Sample) /\ Len(r) = Len(q) + 1 /\ r[Len(q) + 1] = x
      /\ \A i \in 1..Len(q) : r[i] = q[i]
  BY AppendProperties
<1>2. Len(q) \in Nat /\ DOMAIN q = 1..Len(q) /\ DOMAIN r = 1..(Len(q) + 1)
  BY <1>1
<1> HIDE DEF r
<1>3. IntervalsOf(r) = IntervalsOf(q) /\ \A i \in IntervalsOf(q) : r[i] = q[i]
  BY <1>1, <1>2 DEF IntervalsOf
<1>4. KeysOf(r) = KeysOf(q) /\ (Few(r) <=> Few(q))
  BY <1>3 DEF KeysOf, Few
<1>5. OutInv(L, q, e, c, n) => OutInv(L, r, e, c, n)
  BY <1>3, <1>4 DEF OutInv
<1>6. PendingInv(L, p, q, e, c, n) => PendingInv(L, p, r, e, c, n)
  BY <1>3, <1>4 DEF PendingInv
<1>7. CoverInv(L, p, q, c, n) => CoverInv(L, p, r, c, n)
  BY <1>4 DEF CoverInv
<1> QED BY <1>1, <1>2, <1>3, <1>5, <1>6, <1>7 DEF r

\* The separator and the start of a session flush the pending interval, and so does
\* a line of another one.
LEMMA Overtaken ==
    ASSUME NEW L \in Seq(Stream!Lines), Stream!IntervalsInOrder(L), NEW n \in 0..Len(L), n < Len(L),
           NEW p, p # Nothing, NEW q, NEW e, NEW c, PendingInv(L, p, q, e, c, n),
           L[n + 1].kind = "interval" => Stream!KeyOf(L, n + 1) # p.key
    PROVE  ~MoreOf(L, p.key, n)
<1>1. LinesOfKey(L, p.key, n) # {}
  BY DEF PendingInv
<1>2. MoreOf(L, p.key, n) => n + 1 \in Stream!LinesOf(L, "interval") /\ Stream!KeyOf(L, n + 1) = p.key
  BY <1>1, IntervalOver
<1> QED BY <1>2 DEF Stream!LinesOf

-----------------------------------------------------------------------------
\* A line of an interval: the first, one more, and one of an interval that was cut.
LEMMA SlotBegun ==
    ASSUME NEW L \in Seq(Stream!Lines), Stream!IntervalsInOrder(L), NEW n \in 0..Len(L), n < Len(L),
           L[n + 1].kind = "interval", NEW q \in Seq(Stream!Sample), NEW e, NEW c, NEW x,
           OutInv(L, q, e, c, n), CoverInv(L, Nothing, q, c, n), x.key = Stream!KeyOf(L, n + 1),
           x.lines = {Stream!IdOf(L[n + 1])}, x.key \notin e, x # Nothing
    PROVE  PendingInv(L, x, q, e, c, n + 1) /\ CoverInv(L, x, q, c, n + 1)
<1>1. n + 1 \in Stream!LinesOf(L, "interval") /\ n \in Nat /\ n + 1 \in 0..Len(L)
  BY DEF Stream!LinesOf
<1>2. LinesOfKey(L, x.key, n + 1) = LinesOfKey(L, x.key, n) \cup {n + 1}
  BY <1>1, NextLine
<1>3. x.key.session = Stream!SessionOf(L, n + 1) /\ x.key.at = L[n + 1].at
  BY DEF Stream!KeyOf
<1>4. \E w \in LinesOfKey(L, x.key, n + 1) : \A m \in w..(n + 1) : L[m].kind # "separator"
  <2>1. \A m \in (n + 1)..(n + 1) : m = n + 1
    BY <1>1
  <2>2. \A m \in (n + 1)..(n + 1) : L[m].kind # "separator"
    BY <2>1
  <2> QED BY <1>2, <2>2
<1>5. ASSUME NEW i \in IntervalsOf(q), Stream!SameClock(q[i].key, x.key)
      PROVE  q[i].key.at <= x.key.at
  <2>1. PICK w \in 1..n : w \in Stream!LinesOf(L, "interval") /\ Stream!KeyOf(L, w) = q[i].key
    BY DEF OutInv, LinesOfKey
  <2>2. w < n + 1 /\ q[i].key.at = L[w].at
    BY <1>1, <2>1 DEF Stream!KeyOf
  <2>3. L[w].at <= L[n + 1].at
    BY <1>1, <1>5, <2>1, <2>2 DEF Stream!IntervalsInOrder
  <2> QED BY <1>3, <2>2, <2>3
<1>6. MoreOf(L, x.key, n)
  BY <1>1 DEF MoreOf
<1>7. ~c => x.key \notin KeysOf(q)
  BY <1>6 DEF OutInv, KeysOf
<1>8. ~c => LinesOfKey(L, x.key, n) = {}
  BY <1>7 DEF CoverInv, LinesOfKey
<1>9. ~c => x.lines = ReadOf(L, x.key, n + 1)
  BY <1>2, <1>8 DEF ReadOf
<1>10. PendingInv(L, x, q, e, c, n + 1)
  BY <1>3, <1>4, <1>5, <1>7, <1>9 DEF PendingInv
<1>11. \A w \in 1..(n + 1) : w \in 1..n \/ w = n + 1
  BY <1>1
<1>12. CoverInv(L, x, q, c, n + 1)
  BY <1>11 DEF CoverInv
<1> QED BY <1>10, <1>12

LEMMA SlotGrows ==
    ASSUME NEW L \in Seq(Stream!Lines), NEW n \in 0..Len(L), n < Len(L),
           L[n + 1].kind = "interval", NEW q \in Seq(Stream!Sample), NEW e, NEW c, NEW p, NEW x,
           p # Nothing, PendingInv(L, p, q, e, c, n), CoverInv(L, p, q, c, n),
           p.key = Stream!KeyOf(L, n + 1), x.key = p.key,
           x.lines = p.lines \cup {Stream!IdOf(L[n + 1])}, x # Nothing
    PROVE  PendingInv(L, x, q, e, c, n + 1) /\ CoverInv(L, x, q, c, n + 1)
<1>1. n + 1 \in Stream!LinesOf(L, "interval") /\ n \in Nat /\ n + 1 \in 0..Len(L)
  BY DEF Stream!LinesOf
<1>2. LinesOfKey(L, x.key, n + 1) = LinesOfKey(L, x.key, n) \cup {n + 1}
  BY <1>1, NextLine
<1>3. x.key.session = Stream!SessionOf(L, n + 1)
  BY DEF Stream!KeyOf
<1>4. \E w \in LinesOfKey(L, x.key, n + 1) : \A m \in w..(n + 1) : L[m].kind # "separator"
  <2>1. \A m \in (n + 1)..(n + 1) : m = n + 1
    BY <1>1
  <2>2. \A m \in (n + 1)..(n + 1) : L[m].kind # "separator"
    BY <2>1
  <2> QED BY <1>2, <2>2
<1>5. ~c => x.lines = ReadOf(L, x.key, n + 1)
  BY <1>2 DEF PendingInv, ReadOf
<1>6. PendingInv(L, x, q, e, c, n + 1)
  BY <1>3, <1>4, <1>5 DEF PendingInv
<1>7. \A w \in 1..(n + 1) : w \in 1..n \/ w = n + 1
  BY <1>1
<1>8. CoverInv(L, x, q, c, n + 1)
  BY <1>7 DEF CoverInv
<1> QED BY <1>6, <1>8

LEMMA LineDropped ==
    ASSUME NEW L \in Seq(Stream!Lines), NEW n \in 0..Len(L), n < Len(L),
           L[n + 1].kind = "interval", NEW q \in Seq(Stream!Sample), NEW e, NEW c, NEW p,
           OutInv(L, q, e, c, n), PendingInv(L, p, q, e, c, n), Stream!KeyOf(L, n + 1) \in e
    PROVE  c /\ PendingInv(L, p, q, e, c, n + 1) /\ CoverInv(L, p, q, c, n + 1)
<1>1. n + 1 \in Stream!LinesOf(L, "interval") /\ n \in Nat
  BY DEF Stream!LinesOf
<1>2. MoreOf(L, Stream!KeyOf(L, n + 1), n) /\ Stream!KeyOf(L, n + 1) \in KeysOf(q)
  BY <1>1 DEF MoreOf, OutInv
<1>3. c
  BY <1>2 DEF OutInv, KeysOf
<1>4. ASSUME p # Nothing
      PROVE  /\ p.key.session = Stream!SessionOf(L, n + 1)
             /\ \E w \in LinesOfKey(L, p.key, n + 1) : \A m \in w..(n + 1) : L[m].kind # "separator"
  <2>1. Stream!SessionOf(L, n + 1) = Stream!SessionOf(L, n)
    BY SessionSteps
  <2>2. PICK w \in LinesOfKey(L, p.key, n) : \A m \in w..n : L[m].kind # "separator"
    BY <1>4 DEF PendingInv
  <2>3. w \in LinesOfKey(L, p.key, n + 1)
    BY NextLine
  <2>4. \A m \in w..(n + 1) : m \in w..n \/ m = n + 1
    BY <1>1 DEF LinesOfKey
  <2>5. p.key.session = Stream!SessionOf(L, n)
    BY <1>4 DEF PendingInv
  <2> QED BY <2>1, <2>2, <2>3, <2>4, <2>5
<1> QED BY <1>3, <1>4 DEF PendingInv, CoverInv

\* A client has every line of an interval that it takes for complete.
LEMMA ClientComplete ==
    ASSUME NEW L \in Seq(Stream!Lines), L = run.lines, Stream!SumsLast(L), Stream!AsAsked(run), NEW n \in Nat,
           NEW x, Stream!Complete(x), x.lines = ReadOf(L, x.key, n)
    PROVE  ~MoreOf(L, x.key, n)
<1> SUFFICES ASSUME NEW m \in Stream!LinesOf(L, "interval"), m > n, Stream!KeyOf(L, m) = x.key
             PROVE  FALSE
  BY DEF MoreOf
<1>1. L[m].role \in run.roles /\ run.expected > 0
  BY DEF Stream!Complete, Stream!AsAsked
<1>2. PICK l \in x.lines : l.role = L[m].role /\ (l.id = "SUM" \/ run.expected = 1)
  BY <1>1 DEF Stream!Complete
<1>3. PICK w \in 1..n : /\ w \in Stream!LinesOf(L, "interval") /\ Stream!KeyOf(L, w) = x.key
                        /\ l = Stream!IdOf(L[w])
  BY <1>2 DEF ReadOf, LinesOfKey
<1>4. L[w].role = L[m].role /\ L[w].id = l.id
  BY <1>2, <1>3 DEF Stream!IdOf
<1>5. w < m /\ w # m
  <2>1. m \in 1..Len(L) /\ Len(L) \in Nat
    BY DEF Stream!LinesOf
  <2> QED BY <2>1
<1>6. L[w].id # "SUM"
  BY <1>3, <1>4, <1>5 DEF Stream!SumsLast
<1>7. run.expected # 1
  BY <1>1, <1>3, <1>4, <1>5 DEF Stream!AsAsked
<1> QED BY <1>2, <1>4, <1>6, <1>7

-----------------------------------------------------------------------------
\* No session ends while an interval of it is pending.
LEMMA NotEnded ==
    ASSUME NEW L \in Seq(Stream!Lines), Stream!SessionsInOrder(L), NEW n \in 0..Len(L),
           NEW p, p # Nothing, NEW q, NEW e, NEW c, PendingInv(L, p, q, e, c, n), EndsInv(L, q, n)
    PROVE  EndsOf(q, p.key.session) = {}
<1> DEFINE s == Stream!SessionOf(L, n)
<1>1. p.key.session = s
  BY DEF PendingInv
<1>2. PICK w \in LinesOfKey(L, p.key, n) : \A m \in w..n : L[m].kind # "separator"
  BY DEF PendingInv
<1>3. /\ w \in 1..n /\ w \in Stream!LinesOf(L, "interval") /\ Stream!SessionOf(L, w) = s
  BY <1>1, <1>2 DEF LinesOfKey, Stream!KeyOf
<1> SUFFICES ASSUME EndsOf(q, s) # {} PROVE FALSE
  BY <1>1
<1>4. PICK v \in 1..n : v \in Stream!LinesOf(L, "end") /\ Stream!SessionOf(L, v) = s
  BY DEF EndsInv, EndsOf, TotalsOf, InSession
<1>5. PICK m \in w..v : L[m].kind = "separator"
  BY <1>3, <1>4 DEF Stream!SessionsInOrder
<1>6. m \in w..n
  BY <1>3, <1>4
<1> QED BY <1>2, <1>5, <1>6

\* What ended stays, when an interval of a session that did not end, or the start
\* of a session, is added.
LEMMA EndsWithSlot ==
    ASSUME NEW L, NEW n, NEW q \in Seq(Stream!Sample), NEW x \in Stream!Sample,
           x.kind = "interval", EndsOf(q, x.key.session) = {}, EndsInv(L, q, n)
    PROVE  EndsInv(L, Append(q, x), n)
<1> DEFINE r == Append(q, x)
           z == Len(q) + 1
<1>1. /\ DOMAIN r = 1..z /\ IntervalsOf(r) = IntervalsOf(q) \cup {z} /\ r[z] = x
      /\ \A k : EndsOf(r, k) = EndsOf(q, k)
      /\ \A i \in IntervalsOf(q) : r[i] = q[i]
  BY OneMore
<1>2. /\ Len(q) \in Nat /\ DOMAIN q = 1..Len(q) /\ \A i \in DOMAIN q : r[i] = q[i]
  BY AppendProperties
<1> HIDE DEF r
<1>3. ASSUME NEW i \in DOMAIN r, r[i].kind = "session_end"
      PROVE  /\ r[i].session \in 0..Stream!SessionOf(L, n) /\ TotalsOf(L, r[i].session, n) # {}
             /\ \A m \in EndsOf(r, r[i].session) : m = i
             /\ \A m \in IntervalsOf(r) : r[m].key.session = r[i].session => m < i
             /\ \A y \in r[i].summary : Stream!IsTotal(L, r[i].session, y)
  <2>1. i \in DOMAIN q /\ r[i] = q[i]
    BY <1>1, <1>2, <1>3
  <2>2. i \in EndsOf(q, q[i].session)
    BY <1>3, <2>1 DEF EndsOf
  <2>3. x.key.session # q[i].session
    BY <2>2
  <2>4. /\ q[i].session \in 0..Stream!SessionOf(L, n) /\ TotalsOf(L, q[i].session, n) # {}
        /\ \A m \in EndsOf(q, q[i].session) : m = i
        /\ \A m \in IntervalsOf(q) : q[m].key.session = q[i].session => m < i
        /\ \A y \in q[i].summary : Stream!IsTotal(L, q[i].session, y)
    BY <1>3, <2>1 DEF EndsInv
  <2> QED BY <1>1, <2>1, <2>3, <2>4
<1>4. /\ \A k \in 1..(Stream!SessionOf(L, n) - 1) : Stream!HasTotal(L, k) => EndsOf(r, k) # {}
      /\ EndsOf(r, Stream!SessionOf(L, n)) # {} =>
            InSession(L, "listening", Stream!SessionOf(L, n), n) # {}
  BY <1>1 DEF EndsInv
<1> QED BY <1>3, <1>4 DEF EndsInv, r

LEMMA EndsWithEvent ==
    ASSUME NEW L, NEW n, NEW q \in Seq(Stream!Sample), NEW x \in Stream!Sample,
           x.kind = "client", EndsInv(L, q, n)
    PROVE  EndsInv(L, Append(q, x), n)
<1> DEFINE r == Append(q, x)
           z == Len(q) + 1
<1>1. DOMAIN r = 1..z /\ IntervalsOf(r) = IntervalsOf(q) /\ r[z] = x
  BY EventAdded
<1>2. /\ Len(q) \in Nat /\ DOMAIN q = 1..Len(q) /\ \A i \in DOMAIN q : r[i] = q[i]
  BY AppendProperties
<1> HIDE DEF r
<1>3. \A k : EndsOf(r, k) = EndsOf(q, k)
  BY <1>1, <1>2 DEF EndsOf
<1>4. \A i \in DOMAIN r : r[i].kind = "session_end" => i \in DOMAIN q /\ r[i] = q[i]
  BY <1>1, <1>2
<1>5. \A i \in IntervalsOf(q) : r[i] = q[i]
  BY <1>2 DEF IntervalsOf
<1> QED BY <1>1, <1>3, <1>4, <1>5 DEF EndsInv, r

LEMMA InSessionGrows ==
    ASSUME NEW L, NEW n \in Nat
    PROVE  \A kind, k : InSession(L, kind, k, n) \subseteq InSession(L, kind, k, n + 1)
<1>1. 1..n \subseteq 1..(n + 1)
  OBVIOUS
<1> QED BY <1>1 DEF InSession

\* What ended stays, and the session that is over did end before the next.
LEMMA EndsStay ==
    ASSUME NEW L \in Seq(Stream!Lines), NEW n \in 0..Len(L), n < Len(L), NEW q,
           EndsInv(L, q, n), L[n + 1].kind # "accepted"
    PROVE  EndsInv(L, q, n + 1)
<1>1. Stream!SessionOf(L, n + 1) = Stream!SessionOf(L, n)
  BY SessionSteps
<1>2. \A kind, k : InSession(L, kind, k, n) \subseteq InSession(L, kind, k, n + 1)
  BY InSessionGrows
<1>3. \A k : TotalsOf(L, k, n) \subseteq TotalsOf(L, k, n + 1)
  BY <1>2 DEF TotalsOf
<1> QED BY <1>1, <1>2, <1>3 DEF EndsInv

LEMMA SessionOver ==
    ASSUME NEW L \in Seq(Stream!Lines), Stream!SessionsInOrder(L), NEW n \in 0..Len(L), n < Len(L),
           NEW v, NEW y, NEW q, EndsInv(L, q, n), SummaryInv(L, v, y, q, n),
           L[n + 1].kind = "accepted"
    PROVE  y = {} /\ EndsInv(L, q, n + 1)
<1> DEFINE s == Stream!SessionOf(L, n)
<1>1. Stream!SessionOf(L, n + 1) = s + 1 /\ s \in Nat /\ n \in Nat
  BY SessionSteps
<1>2. n + 1 \in Stream!LinesOf(L, "accepted")
  BY NextLine DEF Stream!LinesOf
<1>3. PICK j \in Stream!LinesOf(L, "listening") :
        j < n + 1 /\ s + 1 = Stream!SessionOf(L, j) + 1
  BY <1>1, <1>2 DEF Stream!SessionsInOrder
<1>4. j \in 1..n /\ j \in 0..Len(L) /\ L[j].kind = "listening"
  BY <1>3 DEF Stream!LinesOf
<1>5. Stream!SessionOf(L, j) = s
  <2>1. Stream!SessionOf(L, j) \in Nat
    BY <1>4, SessionSteps
  <2> QED BY <1>1, <1>3, <2>1
<1>6. ASSUME NEW w \in InSession(L, "end", s, n) PROVE w \in 1..n /\ j \in w..n
  <2>1. w \in 1..n /\ w \in Stream!LinesOf(L, "end") /\ Stream!SessionOf(L, w) = s
    BY DEF InSession
  <2>2. w < j
    BY <1>3, <1>5, <2>1 DEF Stream!SessionsInOrder
  <2> QED BY <1>4, <2>1, <2>2
<1>7. y = {}
  BY <1>4, <1>6 DEF SummaryInv, TotalsOf
<1>8. Stream!HasTotal(L, s) => EndsOf(q, s) # {}
  <2> SUFFICES ASSUME Stream!HasTotal(L, s) PROVE EndsOf(q, s) # {}
    OBVIOUS
  <2>1. PICK i \in Stream!LinesOf(L, "end") :
           Stream!SessionOf(L, i) = s /\ Stream!IsTotal(L, s, Stream!IdOf(L[i]))
    BY DEF Stream!HasTotal
  <2>2. i < j
    BY <1>3, <1>5, <2>1 DEF Stream!SessionsInOrder
  <2>3. i \in TotalsOf(L, s, n)
    BY <1>4, <2>1, <2>2 DEF TotalsOf, InSession, Stream!LinesOf
  <2> QED BY <1>7, <2>3 DEF SummaryInv
<1>9. \A k \in 1..((s + 1) - 1) : Stream!HasTotal(L, k) => EndsOf(q, k) # {}
  <2>1. \A k \in 1..(s - 1) : Stream!HasTotal(L, k) => EndsOf(q, k) # {}
    BY DEF EndsInv
  <2>2. \A k \in 1..((s + 1) - 1) : k \in 1..(s - 1) \/ k = s
    BY <1>1
  <2> QED BY <1>8, <2>1, <2>2
<1>10. \A i \in DOMAIN q : q[i].kind = "session_end" =>
              /\ q[i].session \in 0..s /\ TotalsOf(L, q[i].session, n + 1) # {}
              /\ \A m \in EndsOf(q, q[i].session) : m = i
              /\ \A m \in IntervalsOf(q) : q[m].key.session = q[i].session => m < i
              /\ \A x \in q[i].summary : Stream!IsTotal(L, q[i].session, x)
  <2>1. \A k : TotalsOf(L, k, n) \subseteq TotalsOf(L, k, n + 1)
    BY <1>1, InSessionGrows DEF TotalsOf
  <2> QED BY <2>1 DEF EndsInv
<1>11. EndsOf(q, s + 1) = {}
  <2>1. \A i \in EndsOf(q, s + 1) : s + 1 \in 0..s
    BY <1>10 DEF EndsOf
  <2> QED BY <1>1, <2>1
<1>12. \A x \in 0..s : x \in 0..(s + 1)
  BY <1>1
<1> HIDE DEF s
<1>13. EndsInv(L, q, n + 1)
  BY <1>1, <1>9, <1>10, <1>11, <1>12 DEF EndsInv
<1> QED BY <1>7, <1>13

\* The end of a session is reported, once.
LEMMA EndAdded ==
    ASSUME NEW L \in Seq(Stream!Lines), Stream!SessionsInOrder(L), NEW n \in 0..Len(L), n < Len(L),
           L[n + 1].kind = "listening", NEW v, NEW y, NEW q \in Seq(Stream!Sample),
           NEW x \in Stream!Sample, x.kind = "session_end", x.session = Stream!SessionOf(L, n),
           x.summary = y, y # {}, EndsInv(L, q, n), SummaryInv(L, v, y, q, n)
    PROVE  EndsInv(L, Append(q, x), n + 1)
<1> DEFINE r == Append(q, x)
           z == Len(q) + 1
           s == Stream!SessionOf(L, n)
<1>1. DOMAIN r = 1..z /\ IntervalsOf(r) = IntervalsOf(q) /\ r[z] = x
  BY EventAdded
<1>2. /\ Len(q) \in Nat /\ DOMAIN q = 1..Len(q) /\ \A i \in DOMAIN q : r[i] = q[i]
  BY AppendProperties
<1> HIDE DEF r
<1>3. s \in Nat /\ Stream!SessionOf(L, n + 1) = s
  BY SessionSteps
<1>4. EndsOf(q, s) = {}
  <2> SUFFICES ASSUME EndsOf(q, s) # {} PROVE FALSE
    OBVIOUS
  <2>1. PICK j \in InSession(L, "listening", s, n) : TRUE
    BY DEF EndsInv
  <2>2. /\ j \in 1..n /\ j \in Stream!LinesOf(L, "listening") /\ L[j].kind = "listening"
        /\ Stream!SessionOf(L, j) = s
    BY <2>1 DEF InSession, Stream!LinesOf
  <2>3. PICK w \in TotalsOf(L, s, n) : \A m \in w..n : L[m].kind # "listening"
    BY DEF SummaryInv
  <2>4. w \in 1..n /\ w \in Stream!LinesOf(L, "end") /\ Stream!SessionOf(L, w) = s
    BY DEF TotalsOf, InSession
  <2>5. w < j
    BY <2>2, <2>4 DEF Stream!SessionsInOrder
  <2>6. j \in w..n
    BY <2>2, <2>4, <2>5
  <2> QED BY <2>2, <2>3, <2>6
<1>5. z \notin DOMAIN q /\ \A m \in DOMAIN q : m < z
  BY <1>2
<1>6. EndsOf(r, s) = {z} /\ \A k : k # s => EndsOf(r, k) = EndsOf(q, k)
  <2>1. \A k : EndsOf(r, k) = EndsOf(q, k) \cup {i \in {z} : k = s}
    BY <1>1, <1>2 DEF EndsOf
  <2> QED BY <1>4, <2>1
<1>7. InSession(L, "listening", s, n + 1) # {}
  <2>1. L[n + 1].kind = "listening" /\ Stream!SessionOf(L, n + 1) = s
    BY <1>3
  <2>2. InSession(L, "listening", s, n + 1) = InSession(L, "listening", s, n) \cup {n + 1}
    BY <2>1, LineHere
  <2> QED BY <2>2
<1>8. TotalsOf(L, s, n) # {} /\ \A k : TotalsOf(L, k, n) \subseteq TotalsOf(L, k, n + 1)
  <2>1. n \in Nat
    OBVIOUS
  <2> QED BY <2>1, InSessionGrows DEF SummaryInv, TotalsOf
<1>9. ASSUME NEW i \in DOMAIN r, r[i].kind = "session_end"
      PROVE  /\ r[i].session \in 0..s /\ TotalsOf(L, r[i].session, n + 1) # {}
             /\ \A m \in EndsOf(r, r[i].session) : m = i
             /\ \A m \in IntervalsOf(r) : r[m].key.session = r[i].session => m < i
             /\ \A t \in r[i].summary : Stream!IsTotal(L, r[i].session, t)
  <2>1. \A m \in IntervalsOf(q) : m \in DOMAIN q /\ r[m] = q[m]
    BY <1>2 DEF IntervalsOf
  <2>2. CASE i = z
    <3>1. \A t \in y : Stream!IsTotal(L, s, t)
      BY DEF SummaryInv
    <3>2. r[i].session = s /\ r[i].summary = y /\ s \in 0..s
      BY <1>1, <1>3, <2>2
    <3> QED BY <1>1, <1>5, <1>6, <1>8, <2>1, <2>2, <3>1, <3>2
  <2>3. CASE i \in DOMAIN q
    <3>1. r[i] = q[i] /\ i \in EndsOf(q, q[i].session)
      BY <1>2, <1>9, <2>3 DEF EndsOf
    <3>2. q[i].session # s
      BY <1>4, <3>1
    <3>3. /\ q[i].session \in 0..s /\ TotalsOf(L, q[i].session, n + 1) # {}
          /\ \A m \in EndsOf(q, q[i].session) : m = i
          /\ \A m \in IntervalsOf(q) : q[m].key.session = q[i].session => m < i
          /\ \A t \in q[i].summary : Stream!IsTotal(L, q[i].session, t)
      BY <1>8, <1>9, <2>3, <3>1 DEF EndsInv
    <3> QED BY <1>1, <1>6, <2>1, <3>1, <3>2, <3>3
  <2> QED BY <1>1, <1>2, <2>2, <2>3
<1>10. \A k \in 1..(s - 1) : Stream!HasTotal(L, k) => EndsOf(r, k) # {}
  <2>1. \A k \in 1..(s - 1) : k # s /\ (Stream!HasTotal(L, k) => EndsOf(q, k) # {})
    BY <1>3 DEF EndsInv
  <2> QED BY <1>6, <2>1
<1> HIDE DEF s
<1> QED BY <1>3, <1>7, <1>9, <1>10 DEF EndsInv, r

-----------------------------------------------------------------------------
\* The streams and the summary of the session, after each kind of line.
LEMMA SummaryStarts ==
    ASSUME NEW L \in Seq(Stream!Lines), NEW n \in 0..Len(L), n < Len(L), NEW q,
           L[n + 1].kind = "accepted"
    PROVE  SummaryInv(L, {}, {}, q, n + 1)
<1> DEFINE s == Stream!SessionOf(L, n + 1)
<1>1. Stream!SessionOf(L, n) \in Nat /\ s = Stream!SessionOf(L, n) + 1
  BY SessionSteps
<1>2. \A w \in 1..n : Stream!SessionOf(L, w) # s
  <2> TAKE w \in 1..n
  <2>1. w \in 0..n /\ w \in 0..Len(L)
    OBVIOUS
  <2>2. Stream!SessionOf(L, w) <= Stream!SessionOf(L, n) /\ Stream!SessionOf(L, w) \in Nat
    BY <2>1, SessionsGrow, SessionSteps
  <2> QED BY <1>1, <2>2
<1>3. \A kind : InSession(L, kind, s, n) = {}
  BY <1>2 DEF InSession
<1>4. InSession(L, "interval", s, n + 1) = {} /\ InSession(L, "end", s, n + 1) = {}
  <2>1. L[n + 1].kind # "interval" /\ L[n + 1].kind # "end"
    OBVIOUS
  <2>2. InSession(L, "interval", s, n + 1) = InSession(L, "interval", s, n)
    BY <2>1, LineElsewhere
  <2>3. InSession(L, "end", s, n + 1) = InSession(L, "end", s, n)
    BY <2>1, LineElsewhere
  <2> QED BY <1>3, <2>2, <2>3
<1> HIDE DEF s
<1>5. TotalsOf(L, s, n + 1) = {}
  BY <1>4 DEF TotalsOf
<1> QED BY <1>4, <1>5 DEF SummaryInv, s

LEMMA SummaryStays ==
    ASSUME NEW L \in Seq(Stream!Lines), NEW n \in 0..Len(L), n < Len(L), NEW q, NEW r, NEW v, NEW y,
           L[n + 1].kind \notin {"interval", "end", "listening", "accepted"},
           \A k : EndsOf(r, k) = EndsOf(q, k), SummaryInv(L, v, y, q, n)
    PROVE  SummaryInv(L, v, y, r, n + 1)
<1> DEFINE s == Stream!SessionOf(L, n)
<1>1. Stream!SessionOf(L, n + 1) = s
  BY SessionSteps
<1>2. /\ InSession(L, "interval", s, n + 1) = InSession(L, "interval", s, n)
      /\ InSession(L, "end", s, n + 1) = InSession(L, "end", s, n)
  <2>1. L[n + 1].kind # "interval" /\ L[n + 1].kind # "end"
    OBVIOUS
  <2> QED BY <2>1, LineElsewhere
<1>3. y # {} => \E w \in TotalsOf(L, s, n) : \A m \in w..(n + 1) : L[m].kind # "listening"
  <2> SUFFICES ASSUME y # {}
               PROVE  \E w \in TotalsOf(L, s, n) : \A m \in w..(n + 1) : L[m].kind # "listening"
    OBVIOUS
  <2>1. PICK w \in TotalsOf(L, s, n) : \A m \in w..n : L[m].kind # "listening"
    BY DEF SummaryInv
  <2>2. \A m \in w..(n + 1) : m \in w..n \/ m = n + 1
    BY DEF TotalsOf, InSession
  <2> QED BY <2>1, <2>2
<1>4. /\ v = {Stream!IdOf(L[w]) : w \in {x \in InSession(L, "interval", s, n) : L[x].id # "SUM"}}
      /\ TotalsOf(L, s, n) # {} => y # {} \/ EndsOf(r, s) # {}
      /\ \A x \in y : Stream!IsTotal(L, s, x)
  BY DEF SummaryInv
<1> HIDE DEF s
<1> QED BY <1>1, <1>2, <1>3, <1>4 DEF SummaryInv, TotalsOf

LEMMA SummaryTaken ==
    ASSUME NEW L \in Seq(Stream!Lines), NEW n \in 0..Len(L), n < Len(L), NEW q, NEW r, NEW v, NEW y,
           L[n + 1].kind = "listening", SummaryInv(L, v, y, q, n),
           \A k : EndsOf(q, k) # {} => EndsOf(r, k) # {},
           y # {} => EndsOf(r, Stream!SessionOf(L, n)) # {}
    PROVE  SummaryInv(L, v, {}, r, n + 1)
<1> DEFINE s == Stream!SessionOf(L, n)
<1>1. Stream!SessionOf(L, n + 1) = s
  BY SessionSteps
<1>2. /\ InSession(L, "interval", s, n + 1) = InSession(L, "interval", s, n)
      /\ InSession(L, "end", s, n + 1) = InSession(L, "end", s, n)
  <2>1. L[n + 1].kind # "interval" /\ L[n + 1].kind # "end"
    OBVIOUS
  <2> QED BY <2>1, LineElsewhere
<1>3. /\ v = {Stream!IdOf(L[w]) : w \in {x \in InSession(L, "interval", s, n) : L[x].id # "SUM"}}
      /\ TotalsOf(L, s, n) # {} => EndsOf(r, s) # {}
  BY DEF SummaryInv
<1> HIDE DEF s
<1> QED BY <1>1, <1>2, <1>3 DEF SummaryInv, TotalsOf

LEMMA SeenGrows ==
    ASSUME NEW L \in Seq(Stream!Lines), NEW n \in 0..Len(L), n < Len(L), NEW q, NEW r, NEW v, NEW y,
           L[n + 1].kind = "interval", SummaryInv(L, v, y, q, n),
           \A k : EndsOf(r, k) = EndsOf(q, k), NEW w,
           w = IF L[n + 1].id = "SUM" THEN v ELSE v \cup {Stream!IdOf(L[n + 1])}
    PROVE  SummaryInv(L, w, y, r, n + 1)
<1> DEFINE s == Stream!SessionOf(L, n)
           I == InSession(L, "interval", s, n)
<1>1. Stream!SessionOf(L, n + 1) = s
  BY SessionSteps
<1>2. /\ InSession(L, "interval", s, n + 1) = I \cup {n + 1}
      /\ InSession(L, "end", s, n + 1) = InSession(L, "end", s, n)
  <2>1. L[n + 1].kind # "end"
    OBVIOUS
  <2>2. InSession(L, "end", s, n + 1) = InSession(L, "end", s, n)
    BY <2>1, LineElsewhere
  <2> QED BY <1>1, <2>2, LineHere
<1>3. y # {} => \E e \in TotalsOf(L, s, n) : \A m \in e..(n + 1) : L[m].kind # "listening"
  <2> SUFFICES ASSUME y # {}
               PROVE  \E e \in TotalsOf(L, s, n) : \A m \in e..(n + 1) : L[m].kind # "listening"
    OBVIOUS
  <2>1. PICK e \in TotalsOf(L, s, n) : \A m \in e..n : L[m].kind # "listening"
    BY DEF SummaryInv
  <2>2. \A m \in e..(n + 1) : m \in e..n \/ m = n + 1
    BY DEF TotalsOf, InSession
  <2> QED BY <2>1, <2>2
<1>4. v = {Stream!IdOf(L[i]) : i \in {x \in I : L[x].id # "SUM"}}
  BY DEF SummaryInv
<1>5. /\ TotalsOf(L, s, n) # {} => y # {} \/ EndsOf(r, s) # {}
      /\ \A x \in y : Stream!IsTotal(L, s, x)
  BY DEF SummaryInv
<1> HIDE DEF s, I
<1>6. w = {Stream!IdOf(L[i]) : i \in {x \in I \cup {n + 1} : L[x].id # "SUM"}}
  BY <1>4
<1> QED BY <1>1, <1>2, <1>3, <1>5, <1>6 DEF SummaryInv, TotalsOf

\* Of a role that was not seen with several streams, an end line is the total.
LEMMA OneOrSeveral ==
    ASSUME NEW S, IsFiniteSet(S)
    PROVE  Stream!Cardinality(S) > 1 <=> \E a, b \in S : a # b
<1>1. Stream!Cardinality(S) = Cardinality(S) /\ Cardinality(S) \in Nat
  BY StreamCounts, FS_CardinalityType
<1>2. ASSUME NEW a \in S, NEW b \in S, a # b PROVE Cardinality(S) > 1
  <2>1. Cardinality(S) # 0
    BY FS_EmptySet
  <2>2. Cardinality(S) # 1
    <3>1. Cardinality(S) = 1 => \E x : S = {x}
      BY FS_Singleton
    <3> QED BY <1>2, <3>1
  <2> QED BY <1>1, <2>1, <2>2
<1>3. ASSUME Cardinality(S) > 1 PROVE \E a, b \in S : a # b
  <2>1. S # {} /\ \A x : S # {x}
    BY <1>3, FS_EmptySet, FS_Singleton
  <2> QED BY <2>1
<1> QED BY <1>1, <1>2, <1>3

LEMMA SeenFinite ==
    ASSUME NEW L \in Seq(Stream!Lines), NEW n \in 0..Len(L), NEW q, NEW v, NEW y,
           SummaryInv(L, v, y, q, n), NEW role
    PROVE  IsFiniteSet({t \in v : t.role = role})
<1> DEFINE s == Stream!SessionOf(L, n)
           I == {x \in InSession(L, "interval", s, n) : L[x].id # "SUM"}
           f == [w \in I |-> Stream!IdOf(L[w])]
<1>1. n \in Nat /\ I \in SUBSET (1..n)
  BY DEF InSession
<1>2. IsFiniteSet(I)
  BY <1>1, FS_Interval, FS_Subset
<1>3. v = {Stream!IdOf(L[w]) : w \in I}
  BY DEF SummaryInv
<1> HIDE DEF I
<1>4. f \in Surjection(I, v)
  BY <1>3 DEF Surjection
<1>5. IsFiniteSet(v)
  BY <1>2, <1>4, FS_Surjection
<1>6. {t \in v : t.role = role} \in SUBSET v
  OBVIOUS
<1> QED BY <1>5, <1>6, FS_Subset

LEMMA SummaryLine ==
    ASSUME NEW L \in Seq(Stream!Lines), Stream!SessionsInOrder(L), Stream!SumsLast(L),
           NEW n \in 0..Len(L), n < Len(L), NEW q, NEW v, NEW y, NEW z, NEW l,
           l = L[n + 1], l.kind = "end", SummaryInv(L, v, y, q, n),
           z = IF l.id # "SUM" /\ Stream!Cardinality({t \in v : t.role = l.role}) > 1 THEN y
               ELSE {t \in y : t.role # l.role} \cup {Stream!IdOf(l)}
    PROVE  SummaryInv(L, v, z, q, n + 1)
<1> DEFINE s == Stream!SessionOf(L, n)
           id == Stream!IdOf(l)
           several == \E a, b \in {t \in v : t.role = l.role} : a # b
<1>1. Stream!SessionOf(L, n + 1) = s /\ n \in Nat
  BY SessionSteps
<1>2. n + 1 \in Stream!LinesOf(L, "end")
  BY DEF Stream!LinesOf
<1>3. /\ InSession(L, "interval", s, n + 1) = InSession(L, "interval", s, n)
      /\ InSession(L, "end", s, n + 1) = InSession(L, "end", s, n) \cup {n + 1}
  <2>1. L[n + 1].kind # "interval" /\ L[n + 1].kind = "end"
    OBVIOUS
  <2>2. InSession(L, "interval", s, n + 1) = InSession(L, "interval", s, n)
    BY <2>1, LineElsewhere
  <2> QED BY <1>1, <2>1, <2>2, LineHere
<1>4. z = IF l.id # "SUM" /\ several THEN y ELSE {t \in y : t.role # l.role} \cup {id}
  <2>1. \A role : IsFiniteSet({t \in v : t.role = role})
    BY SeenFinite
  <2>2. PICK S : S = {t \in v : t.role = l.role}
    OBVIOUS
  <2>3. IsFiniteSet(S)
    BY <2>1, <2>2
  <2>4. Stream!Cardinality(S) > 1 <=> \E a, b \in S : a # b
    BY <2>3, OneOrSeveral
  <2>5. Stream!Cardinality({t \in v : t.role = l.role}) > 1 <=> several
    BY <2>2, <2>4
  <2> HIDE DEF several
  <2> QED BY <2>5
<1>5. v = {Stream!IdOf(L[w]) : w \in {x \in InSession(L, "interval", s, n) : L[x].id # "SUM"}}
  BY DEF SummaryInv
<1>6. \A i \in Stream!LinesOf(L, "interval") :
         Stream!SessionOf(L, i) = s => i \in InSession(L, "interval", s, n)
  <2> SUFFICES ASSUME NEW i \in Stream!LinesOf(L, "interval"), Stream!SessionOf(L, i) = s
               PROVE  i \in InSession(L, "interval", s, n)
    OBVIOUS
  <2>1. i < n + 1
    BY <1>1, <1>2 DEF Stream!SessionsInOrder
  <2> QED BY <1>1, <2>1 DEF InSession, Stream!LinesOf
<1>7. \A t : t \in Stream!StreamsOf(L, s) /\ t.id # "SUM" => t \in v
  <2> SUFFICES ASSUME NEW i \in Stream!LinesOf(L, "interval"), Stream!SessionOf(L, i) = s,
                      Stream!IdOf(L[i]).id # "SUM"
               PROVE  Stream!IdOf(L[i]) \in v
    BY DEF Stream!StreamsOf
  <2>1. L[i].id # "SUM"
    BY DEF Stream!IdOf
  <2> QED BY <1>5, <1>6, <2>1
<1>8. \A t \in v : t \in Stream!StreamsOf(L, s)
  BY <1>5 DEF InSession, Stream!StreamsOf
<1>9. id.id = l.id /\ id.role = l.role
  BY DEF Stream!IdOf
<1>10. ASSUME l.id # "SUM" PROVE id \in Stream!StreamsOf(L, s)
  BY <1>1, <1>2, <1>10 DEF Stream!SessionsInOrder
<1>11. ASSUME l.id # "SUM" PROVE Stream!IsTotal(L, s, id) <=> ~several
  <2>1. id \in Stream!StreamsOf(L, s) /\ id \in v
    BY <1>7, <1>9, <1>10, <1>11
  <2>2. ASSUME several PROVE ~Stream!IsTotal(L, s, id)
    <3>1. PICK a, b \in v : a.role = l.role /\ b.role = l.role /\ a # b
      BY <2>2
    <3>2. a \in Stream!StreamsOf(L, s) /\ b \in Stream!StreamsOf(L, s)
      BY <1>8
    <3> QED BY <1>9, <1>11, <3>1, <3>2 DEF Stream!IsTotal
  <2>3. ASSUME ~several, NEW t \in Stream!StreamsOf(L, s), t.role = l.role PROVE t = id
    <3>1. CASE t.id # "SUM"
      <4>1. t \in v
        BY <1>7, <3>1
      <4> QED BY <1>9, <2>1, <2>3, <4>1
    <3>2. CASE t.id = "SUM"
      <4>1. PICK i \in Stream!LinesOf(L, "interval") :
               Stream!SessionOf(L, i) = s /\ t = Stream!IdOf(L[i])
        BY DEF Stream!StreamsOf
      <4>2. L[i].id = "SUM" /\ L[i].role = l.role
        BY <2>3, <3>2, <4>1 DEF Stream!IdOf
      <4>3. PICK a, b \in Stream!StreamsOf(L, s) :
               /\ a.role = L[i].role /\ b.role = a.role
               /\ "SUM" \notin {a.id, b.id} /\ a # b
        BY <4>1, <4>2 DEF Stream!SumsLast
      <4>4. a \in v /\ b \in v
        BY <1>7, <4>3
      <4> QED BY <2>3, <4>2, <4>3, <4>4
    <3> QED BY <3>1, <3>2
  <2>4. ~several => Stream!IsTotal(L, s, id)
    BY <1>9, <2>1, <2>3 DEF Stream!IsTotal
  <2> QED BY <2>2, <2>4
<1>12. l.id = "SUM" => Stream!IsTotal(L, s, id)
  BY <1>9 DEF Stream!IsTotal
<1>13. /\ TotalsOf(L, s, n) \subseteq TotalsOf(L, s, n + 1)
       /\ l.id # "SUM" /\ several => TotalsOf(L, s, n + 1) = TotalsOf(L, s, n)
       /\ ~(l.id # "SUM" /\ several) => n + 1 \in TotalsOf(L, s, n + 1)
  <2>1. \A w \in InSession(L, "end", s, n + 1) : w \in InSession(L, "end", s, n) \/ w = n + 1
    BY <1>3
  <2>2. InSession(L, "end", s, n) \subseteq InSession(L, "end", s, n + 1)
        /\ n + 1 \in InSession(L, "end", s, n + 1)
    BY <1>3
  <2>3. Stream!IsTotal(L, s, Stream!IdOf(L[n + 1])) <=> ~(l.id # "SUM" /\ several)
    BY <1>11, <1>12
  <2> HIDE DEF s, several, id
  <2> QED BY <2>1, <2>2, <2>3 DEF TotalsOf
<1>14. /\ z # {} => \E w \in TotalsOf(L, s, n + 1) : \A m \in w..(n + 1) : L[m].kind # "listening"
       /\ TotalsOf(L, s, n + 1) # {} => z # {} \/ EndsOf(q, s) # {}
  <2>1. CASE l.id # "SUM" /\ several
    <3>1. z = y /\ TotalsOf(L, s, n + 1) = TotalsOf(L, s, n)
      BY <1>4, <1>13, <2>1
    <3>2. ASSUME y # {}
          PROVE  \E w \in TotalsOf(L, s, n + 1) : \A m \in w..(n + 1) : L[m].kind # "listening"
      <4>1. PICK w \in TotalsOf(L, s, n) : \A m \in w..n : L[m].kind # "listening"
        BY <3>2 DEF SummaryInv
      <4>2. \A m \in w..(n + 1) : m \in w..n \/ m = n + 1
        BY DEF TotalsOf, InSession
      <4> QED BY <3>1, <4>1, <4>2
    <3>3. TotalsOf(L, s, n) # {} => y # {} \/ EndsOf(q, s) # {}
      BY DEF SummaryInv
    <3> QED BY <3>1, <3>2, <3>3
  <2>2. CASE ~(l.id # "SUM" /\ several)
    <3>1. z # {} /\ n + 1 \in TotalsOf(L, s, n + 1)
      BY <1>4, <1>13, <2>2
    <3>2. \A m \in (n + 1)..(n + 1) : m = n + 1
      BY <1>1
    <3>3. \A m \in (n + 1)..(n + 1) : L[m].kind # "listening"
      BY <3>2
    <3> QED BY <3>1, <3>3
  <2> QED BY <2>1, <2>2
<1>15. \A x \in z : Stream!IsTotal(L, s, x)
  <2>1. \A x \in y : Stream!IsTotal(L, s, x)
    BY DEF SummaryInv
  <2>2. CASE l.id # "SUM" /\ several
    BY <1>4, <2>1, <2>2
  <2>3. CASE ~(l.id # "SUM" /\ several)
    <3>1. Stream!IsTotal(L, s, id)
      BY <1>11, <1>12, <2>3
    <3> QED BY <1>4, <2>1, <2>3, <3>1
  <2> QED BY <2>2, <2>3
<1> HIDE DEF s
<1> QED BY <1>1, <1>3, <1>5, <1>14, <1>15 DEF SummaryInv

-----------------------------------------------------------------------------
\* Adding none, one and two samples.
LEMMA SamplesAdded ==
    ASSUME NEW q \in Seq(Stream!Sample)
    PROVE  /\ q \o <<>> = q
           /\ \A x \in Stream!Sample : q \o <<x>> = Append(q, x) /\ Append(q, x) \in Seq(Stream!Sample)
           /\ \A x, y \in Stream!Sample : q \o <<x, y>> = Append(Append(q, x), y)
           /\ \A x, y \in Stream!Sample : Append(<<>>, x) = <<x>> /\ Append(<<x>>, y) = <<x, y>>
<1>1. q \o <<>> = q
  OBVIOUS
<1>2. \A x \in Stream!Sample : q \o <<x>> = Append(q, x) /\ Append(q, x) \in Seq(Stream!Sample)
  OBVIOUS
<1>3. \A x, y \in Stream!Sample : q \o <<x, y>> = Append(Append(q, x), y)
  OBVIOUS
<1>4. ASSUME NEW x \in Stream!Sample, NEW y \in Stream!Sample
      PROVE  Append(<<>>, x) = <<x>> /\ Append(<<x>>, y) = <<x, y>>
  <2>1. PICK a, b, c : a = <<x>> /\ b = Append(a, y) /\ c = <<x, y>>
    OBVIOUS
  <2>2. a \in Seq(Stream!Sample) /\ Len(a) = 1 /\ a[1] = x
    BY <2>1
  <2>3. b \in Seq(Stream!Sample) /\ Len(b) = 2 /\ b[1] = x /\ b[2] = y
    <3>1. /\ b \in Seq(Stream!Sample) /\ Len(b) = Len(a) + 1 /\ b[Len(a) + 1] = y
          /\ \A i \in 1..Len(a) : b[i] = a[i]
      BY <2>1, <2>2, AppendProperties
    <3> QED BY <2>2, <3>1
  <2>4. c \in Seq(Stream!Sample) /\ Len(c) = 2 /\ c[1] = x /\ c[2] = y
    BY <2>1
  <2>5. \A i \in 1..Len(b) : b[i] = c[i]
    BY <2>3, <2>4
  <2>6. b = c
    BY <2>3, <2>4, <2>5, SeqEqual
  <2>7. Append(<<>>, x) = <<x>>
    OBVIOUS
  <2> QED BY <2>1, <2>6, <2>7
<1> QED BY <1>1, <1>2, <1>3, <1>4

\* What is read is the next line.
LEMMA WhatIsRead ==
    ASSUME ParserInv, StreamInv, NEW kind, Stream!Reads(kind),
           NEW L, L = run.lines, NEW n, n = LinesRead
    PROVE  /\ L \in Seq(Stream!Lines) /\ Stream!IntervalsInOrder(L) /\ Stream!SumsLast(L)
           /\ Stream!SessionsInOrder(L) /\ Stream!AsAsked(run)
           /\ n \in 0..Len(L) /\ n < Len(L) /\ L[n + 1] = Head(ahead) /\ L[n + 1].kind = kind
           /\ run' = run /\ cut' = cut /\ LinesRead' = n + 1
           /\ Len(ahead') = Len(L) - (n + 1) /\ \A i \in DOMAIN ahead' : ahead'[i] = L[(n + 1) + i]
           /\ ReadingInv(L, ahead, n, session, seen, pending, emitted, summary, out, cut)
<1>1. /\ phase = "reading" /\ ahead # <<>> /\ Head(ahead).kind = kind
      /\ ahead' = Tail(ahead) /\ run' = run /\ cut' = cut
  BY DEF Stream!Reads
<1>2. /\ L \in Seq(Stream!Lines) /\ Stream!IntervalsInOrder(L) /\ Stream!SumsLast(L)
      /\ Stream!SessionsInOrder(L) /\ Stream!AsAsked(run)
  BY StreamAssumption, IperfAssumption DEF ParserInv, Stream!Prints
<1>3. ReadingInv(L, ahead, n, session, seen, pending, emitted, summary, out, cut)
  BY <1>1 DEF StreamInv
<1>4. n \in 0..Len(L) /\ Len(ahead) = Len(L) - n /\ \A i \in DOMAIN ahead : ahead[i] = L[n + i]
  BY <1>3 DEF ReadingInv
<1>5. ahead \in Seq(Stream!Lines) /\ Len(L) \in Nat /\ n \in Nat
  BY <1>2, <1>4 DEF ParserInv
<1>6. /\ Len(ahead) \in Nat /\ Len(ahead) >= 1 /\ Head(ahead) = ahead[1] /\ DOMAIN ahead = 1..Len(ahead)
      /\ Len(ahead') = Len(ahead) - 1 /\ DOMAIN ahead' = 1..(Len(ahead) - 1)
      /\ \A i \in 1..(Len(ahead) - 1) : ahead'[i] = ahead[i + 1]
  <2>1. ahead # <<>> /\ ahead \in Seq(Stream!Lines) /\ ahead' = Tail(ahead)
    BY <1>1, <1>5
  <2> QED BY <2>1
<1>7. n < Len(L) /\ L[n + 1] = Head(ahead)
  <2>1. 1 \in DOMAIN ahead
    BY <1>6
  <2>2. ahead[1] = L[n + 1]
    BY <1>4, <2>1
  <2>3. n < Len(L)
    <3>1. Len(ahead) = Len(L) - n /\ Len(ahead) >= 1
      BY <1>4, <1>6
    <3> QED BY <1>5, <3>1
  <2> QED BY <1>6, <2>2, <2>3
<1>8. \A i \in DOMAIN ahead' : ahead'[i] = L[(n + 1) + i]
  <2> TAKE i \in DOMAIN ahead'
  <2>1. i \in Nat /\ i + 1 \in DOMAIN ahead /\ ahead'[i] = ahead[i + 1]
    BY <1>6
  <2>2. n + (i + 1) = (n + 1) + i
    BY <1>5, <2>1
  <2> QED BY <1>4, <2>1, <2>2
<1>9. Len(ahead') = Len(L) - (n + 1)
  BY <1>4, <1>5, <1>6
<1>10. LinesRead' = n + 1
  BY <1>1, <1>5, <1>9 DEF LinesRead
<1> QED BY <1>1, <1>2, <1>3, <1>4, <1>7, <1>8, <1>9, <1>10

LEMMA ReadOn ==
    ASSUME ParserInv, StreamInv, NEW kind, Stream!Reads(kind),
           NEW L, L = run.lines, NEW n, n = LinesRead, session' = Stream!SessionOf(L, n + 1),
           OutInv(L, out', emitted', cut, n + 1), PendingInv(L, pending', out', emitted', cut, n + 1),
           CoverInv(L, pending', out', cut, n + 1), EndsInv(L, out', n + 1),
           SummaryInv(L, seen', summary', out', n + 1)
    PROVE  StreamInv'
<1>1. /\ n \in 0..Len(L) /\ n < Len(L) /\ run' = run /\ cut' = cut /\ LinesRead' = n + 1
      /\ Len(ahead') = Len(L) - (n + 1) /\ \A i \in DOMAIN ahead' : ahead'[i] = L[(n + 1) + i]
      /\ L \in Seq(Stream!Lines)
  BY WhatIsRead
<1>2. n + 1 \in 0..Len(L)
  BY <1>1
<1>3. ReadingInv(L, ahead', n + 1, session', seen', pending', emitted', summary', out', cut')
  BY <1>1, <1>2 DEF ReadingInv
<1>4. WholeInv'
  BY <1>1, <1>2 DEF WholeInv
<1> QED BY <1>1, <1>3, <1>4 DEF StreamInv

\* A line that flushes the pending interval.
LEMMA FlushedWhole ==
    ASSUME ParserInv, StreamInv, NEW kind, kind \in {"separator", "accepted"}, Stream!Reads(kind),
           NEW L, L = run.lines, NEW n, n = LinesRead, NEW q, q = out \o Stream!Flushed,
           NEW e, e = Stream!Remembered(Stream!Flushed)
    PROVE  /\ q \in Seq(Stream!Sample) /\ OutInv(L, q, e, cut, n + 1)
           /\ CoverInv(L, Nothing, q, cut, n + 1) /\ EndsInv(L, q, n)
           /\ \A k : EndsOf(q, k) = EndsOf(out, k)
<1>1. /\ L \in Seq(Stream!Lines) /\ Stream!IntervalsInOrder(L) /\ Stream!SessionsInOrder(L)
      /\ n \in 0..Len(L) /\ n < Len(L) /\ L[n + 1].kind = kind
      /\ ReadingInv(L, ahead, n, session, seen, pending, emitted, summary, out, cut)
  BY WhatIsRead
<1>2. /\ OutInv(L, out, emitted, cut, n) /\ PendingInv(L, pending, out, emitted, cut, n)
      /\ CoverInv(L, pending, out, cut, n) /\ EndsInv(L, out, n)
  BY <1>1 DEF ReadingInv
<1>3. out \in Seq(Stream!Sample) /\ pending \in Stream!Slot \cup {Nothing}
  BY DEF ParserInv
<1>4. kind # "interval"
  OBVIOUS
<1>5. /\ q \in Seq(Stream!Sample) /\ OutInv(L, q, e, cut, n) /\ CoverInv(L, Nothing, q, cut, n)
      /\ EndsInv(L, q, n) /\ \A k : EndsOf(q, k) = EndsOf(out, k)
  <2>1. CASE pending = Nothing
    <3>1. q = out /\ e = emitted
      BY <1>3, <2>1, SamplesAdded, RememberedNone DEF Stream!Flushed
    <3> QED BY <1>2, <1>3, <2>1, <3>1
  <2>2. CASE pending # Nothing
    <3>1. pending \in Stream!Slot /\ pending \in Stream!Sample /\ pending.kind = "interval"
      BY <1>3, <2>2 DEF Stream!Sample, Stream!Slot
    <3>2. Stream!Flushed = <<pending>>
      BY <2>2 DEF Stream!Flushed
    <3>3. q = Append(out, pending) /\ e = Remember(emitted, pending.key)
      BY <1>3, <3>1, <3>2, SamplesAdded, RememberedOne
    <3>4. ~MoreOf(L, pending.key, n)
      BY <1>1, <1>2, <1>4, <2>2, Overtaken
    <3>5. /\ OutInv(L, Append(out, pending), Remember(emitted, pending.key), cut, n)
          /\ CoverInv(L, Nothing, Append(out, pending), cut, n)
      <4>1. (cut => cut) /\ (~cut => ~MoreOf(L, pending.key, n))
        BY <3>4
      <4>2. L \in Seq(Stream!Lines) /\ Stream!IntervalsInOrder(L) /\ n \in 0..Len(L)
        BY <1>1
      <4> QED BY SMTT(60), <1>2, <1>3, <2>2, <3>1, <4>1, <4>2, PendingAdded
    <3>6. EndsOf(out, pending.key.session) = {}
      BY <1>1, <1>2, <2>2, NotEnded
    <3>7. EndsInv(L, Append(out, pending), n)
      BY <1>2, <1>3, <3>1, <3>6, EndsWithSlot
    <3>8. \A k : EndsOf(q, k) = EndsOf(out, k)
      BY <1>3, <3>1, <3>3, OneMore
    <3>9. q \in Seq(Stream!Sample)
      BY <1>3, <3>1, <3>3, SamplesAdded
    <3> QED BY <3>3, <3>5, <3>7, <3>8, <3>9
  <2> QED BY <2>1, <2>2
<1>6. OutInv(L, q, e, cut, n + 1)
  BY <1>1, <1>5, OutStays
<1>7. CoverInv(L, Nothing, q, cut, n + 1)
  BY <1>1, <1>4, <1>5, CoverStays
<1> QED BY <1>5, <1>6, <1>7

LEMMA SeparatorWhole ==
    ASSUME ParserInv, StreamInv, Stream!Separator
    PROVE  StreamInv'
<1>1. PICK L, n, q, e : /\ L = run.lines /\ n = LinesRead /\ q = out \o Stream!Flushed
                        /\ e = Stream!Remembered(Stream!Flushed)
  OBVIOUS
<1>2. /\ Stream!Reads("separator") /\ out' = q /\ emitted' = e /\ pending' = Nothing
      /\ session' = session /\ seen' = seen /\ summary' = summary
  BY <1>1 DEF Stream!Separator, Stream!Emits, Stream!Adds
<1>3. /\ L \in Seq(Stream!Lines) /\ n \in 0..Len(L) /\ n < Len(L) /\ L[n + 1].kind = "separator"
      /\ ReadingInv(L, ahead, n, session, seen, pending, emitted, summary, out, cut)
  BY <1>1, <1>2, WhatIsRead
<1>4. /\ OutInv(L, q, e, cut, n + 1) /\ CoverInv(L, Nothing, q, cut, n + 1)
      /\ EndsInv(L, q, n) /\ \A k : EndsOf(q, k) = EndsOf(out, k)
  BY <1>1, <1>2, FlushedWhole
<1>5. SummaryInv(L, seen, summary, out, n) /\ session = Stream!SessionOf(L, n)
  BY <1>3 DEF ReadingInv
<1>6. SummaryInv(L, seen, summary, q, n + 1)
  BY <1>3, <1>4, <1>5, SummaryStays
<1>7. EndsInv(L, q, n + 1)
  BY <1>3, <1>4, EndsStay
<1>8. session' = Stream!SessionOf(L, n + 1)
  BY <1>2, <1>3, <1>5, SessionSteps
<1>9. PendingInv(L, Nothing, q, e, cut, n + 1)
  BY DEF PendingInv
<1> QED BY ZenonT(60), <1>1, <1>2, <1>4, <1>6, <1>7, <1>8, <1>9, ReadOn

LEMMA AcceptedWhole ==
    ASSUME ParserInv, StreamInv, Stream!Accepted
    PROVE  StreamInv'
<1>1. PICK L, n, q, e, x :
        /\ L = run.lines /\ n = LinesRead /\ q = out \o Stream!Flushed
        /\ e = Stream!Remembered(Stream!Flushed) /\ x = Stream!Event("client")
  OBVIOUS
<1>2. /\ Stream!Reads("accepted") /\ out' = out \o Append(Stream!Flushed, x)
      /\ e = Stream!Remembered(Stream!Flushed) /\ emitted' = Stream!Remembered(Stream!Flushed)
      /\ pending' = Nothing /\ session' = session + 1 /\ seen' = {} /\ summary' = summary
  BY <1>1 DEF Stream!Accepted, Stream!Emits, Stream!Adds
<1>3. /\ L \in Seq(Stream!Lines) /\ Stream!SessionsInOrder(L)
      /\ n \in 0..Len(L) /\ n < Len(L) /\ L[n + 1].kind = "accepted"
      /\ ReadingInv(L, ahead, n, session, seen, pending, emitted, summary, out, cut)
  BY <1>1, <1>2, WhatIsRead
<1>4. /\ q \in Seq(Stream!Sample) /\ OutInv(L, q, e, cut, n + 1)
      /\ CoverInv(L, Nothing, q, cut, n + 1)
      /\ EndsInv(L, q, n) /\ \A k : EndsOf(q, k) = EndsOf(out, k)
  BY <1>1, <1>2, FlushedWhole
<1>5. /\ SummaryInv(L, seen, summary, out, n) /\ EndsInv(L, out, n)
      /\ session = Stream!SessionOf(L, n)
  BY <1>3 DEF ReadingInv
<1>6. session' = Stream!SessionOf(L, n + 1)
  BY <1>2, <1>3, <1>5, SessionSteps
<1>7. session' \in Nat /\ x \in Stream!Sample /\ x.kind = "client"
  <2>1. session' \in Nat
    BY <1>2 DEF ParserInv
  <2> QED BY <1>1, <2>1, EventType DEF Stream!Event
<1>8. SummaryInv(L, seen, summary, q, n)
  BY <1>4, <1>5 DEF SummaryInv
<1>9. summary = {} /\ EndsInv(L, q, n + 1)
  BY <1>3, <1>4, <1>8, SessionOver
<1>10. out' = Append(q, x)
  <2>1. out \in Seq(Stream!Sample) /\ Stream!Flushed \in Seq(Stream!Sample)
    BY FlushedType DEF ParserInv
  <2> QED BY <1>1, <1>2, <1>7, <2>1
<1>11. EndsInv(L, Append(q, x), n + 1)
  BY <1>4, <1>7, <1>9, EndsWithEvent
<1>12. OutInv(L, Append(q, x), e, cut, n + 1) /\ CoverInv(L, Nothing, Append(q, x), cut, n + 1)
  BY <1>4, <1>7, EventAdded
<1>13. SummaryInv(L, {}, {}, Append(q, x), n + 1)
  BY <1>3, SummaryStarts
<1>14. PendingInv(L, Nothing, Append(q, x), e, cut, n + 1)
  BY DEF PendingInv
<1>15. emitted' = e /\ summary' = {}
  BY <1>2, <1>9
<1> QED BY ZenonT(60), <1>1, <1>2, <1>6, <1>10, <1>11, <1>12, <1>13, <1>14, <1>15, ReadOn

LEMMA ListeningWhole ==
    ASSUME ParserInv, StreamInv, Stream!Listening
    PROVE  StreamInv'
<1>1. PICK L, n, x : L = run.lines /\ n = LinesRead /\ x = Stream!Event("session_end")
  OBVIOUS
<1>2. /\ Stream!Reads("listening") /\ session' = session /\ summary' = {}
      /\ out' = out \o (IF summary = {} THEN <<>> ELSE <<x>>)
      /\ seen' = seen /\ pending' = pending /\ emitted' = emitted
  BY <1>1 DEF Stream!Listening, Stream!Adds
<1>3. /\ L \in Seq(Stream!Lines) /\ Stream!SessionsInOrder(L)
      /\ n \in 0..Len(L) /\ n < Len(L) /\ L[n + 1].kind = "listening"
      /\ ReadingInv(L, ahead, n, session, seen, pending, emitted, summary, out, cut)
  BY <1>1, <1>2, WhatIsRead
<1>4. /\ OutInv(L, out, emitted, cut, n) /\ PendingInv(L, pending, out, emitted, cut, n)
      /\ CoverInv(L, pending, out, cut, n) /\ EndsInv(L, out, n)
      /\ SummaryInv(L, seen, summary, out, n) /\ session = Stream!SessionOf(L, n)
  BY <1>3 DEF ReadingInv
<1>5. out \in Seq(Stream!Sample) /\ session' \in Nat
  BY <1>2 DEF ParserInv
<1>6. "listening" \notin {"interval", "separator", "accepted"}
  OBVIOUS
<1>7. /\ OutInv(L, out, emitted, cut, n + 1) /\ PendingInv(L, pending, out, emitted, cut, n + 1)
      /\ CoverInv(L, pending, out, cut, n + 1)
  BY <1>3, <1>4, <1>5, <1>6, OutStays, PendingStays, CoverStays
<1>8. session' = Stream!SessionOf(L, n + 1)
  BY <1>2, <1>3, <1>4, SessionSteps
<1>9. CASE summary = {}
  <2>1. out' = out
    BY <1>2, <1>5, <1>9, SamplesAdded
  <2>2. EndsInv(L, out, n + 1)
    BY <1>3, <1>4, EndsStay
  <2>3. SummaryInv(L, seen, {}, out, n + 1)
    BY <1>3, <1>4, <1>9, SummaryTaken
  <2> QED BY ZenonT(60), <1>1, <1>2, <1>7, <1>8, <2>1, <2>2, <2>3, ReadOn
<1>10. CASE summary # {}
  <2>1. x \in Stream!Sample
    BY <1>1, <1>5, EventType
  <2>2. x.kind = "session_end" /\ x.session = Stream!SessionOf(L, n) /\ x.summary = summary
    BY <1>1, <1>2, <1>4 DEF Stream!Event
  <2>3. out' = Append(out, x)
    BY <1>2, <1>5, <1>10, <2>1, SamplesAdded
  <2>4. EndsInv(L, Append(out, x), n + 1)
    BY <1>3, <1>4, <1>5, <1>10, <2>1, <2>2, EndAdded
  <2>5. /\ \A k : EndsOf(out, k) # {} => EndsOf(Append(out, x), k) # {}
        /\ EndsOf(Append(out, x), Stream!SessionOf(L, n)) # {}
    <3>1. /\ DOMAIN out = 1..Len(out) /\ DOMAIN Append(out, x) = 1..(Len(out) + 1) /\ Len(out) \in Nat
          /\ \A i \in 1..Len(out) : Append(out, x)[i] = out[i]
          /\ Append(out, x)[Len(out) + 1] = x
      BY <1>5, <2>1
    <3>2. \A k : EndsOf(out, k) \subseteq EndsOf(Append(out, x), k)
      BY <3>1 DEF EndsOf
    <3>3. Len(out) + 1 \in EndsOf(Append(out, x), Stream!SessionOf(L, n))
      BY <2>2, <3>1 DEF EndsOf
    <3> QED BY <3>2, <3>3
  <2>6. SummaryInv(L, seen, {}, Append(out, x), n + 1)
    BY <1>3, <1>4, <2>5, SummaryTaken
  <2>7. /\ OutInv(L, Append(out, x), emitted, cut, n + 1)
        /\ PendingInv(L, pending, Append(out, x), emitted, cut, n + 1)
        /\ CoverInv(L, pending, Append(out, x), cut, n + 1)
    <3>1. x.kind # "interval"
      BY <2>2
    <3> QED BY <1>5, <1>7, <2>1, <3>1, EventAdded
  <2> QED BY ZenonT(60), <1>1, <1>2, <1>8, <2>3, <2>4, <2>6, <2>7, ReadOn
<1> QED BY <1>9, <1>10

LEMMA EndLineWhole ==
    ASSUME ParserInv, StreamInv, Stream!EndLine
    PROVE  StreamInv'
<1>1. PICK L, n, l : L = run.lines /\ n = LinesRead /\ l = Head(ahead)
  OBVIOUS
<1>2. /\ Stream!Reads("end") /\ session' = session /\ out' = out
      /\ seen' = seen /\ pending' = pending /\ emitted' = emitted
      /\ summary' = IF l.id # "SUM" /\ Stream!Cardinality({t \in seen : t.role = l.role}) > 1
                    THEN summary
                    ELSE {t \in summary : t.role # l.role} \cup {Stream!IdOf(l)}
  BY <1>1 DEF Stream!EndLine, Stream!IdOf
<1>3. /\ L \in Seq(Stream!Lines) /\ Stream!SessionsInOrder(L) /\ Stream!SumsLast(L)
      /\ n \in 0..Len(L) /\ n < Len(L) /\ l = L[n + 1] /\ L[n + 1].kind = "end"
      /\ ReadingInv(L, ahead, n, session, seen, pending, emitted, summary, out, cut)
  BY <1>1, <1>2, WhatIsRead
<1>4. /\ OutInv(L, out, emitted, cut, n) /\ PendingInv(L, pending, out, emitted, cut, n)
      /\ CoverInv(L, pending, out, cut, n) /\ EndsInv(L, out, n)
      /\ SummaryInv(L, seen, summary, out, n) /\ session = Stream!SessionOf(L, n)
  BY <1>3 DEF ReadingInv
<1>5. out \in Seq(Stream!Sample) /\ "end" \notin {"interval", "separator", "accepted"}
  BY DEF ParserInv
<1>6. /\ OutInv(L, out, emitted, cut, n + 1) /\ PendingInv(L, pending, out, emitted, cut, n + 1)
      /\ CoverInv(L, pending, out, cut, n + 1)
  BY <1>3, <1>4, <1>5, OutStays, PendingStays, CoverStays
<1>7. session' = Stream!SessionOf(L, n + 1) /\ EndsInv(L, out, n + 1)
  BY <1>2, <1>3, <1>4, SessionSteps, EndsStay
<1>8. SummaryInv(L, seen, summary', out, n + 1)
  BY <1>2, <1>3, <1>4, SummaryLine
<1> QED BY ZenonT(60), <1>1, <1>2, <1>6, <1>7, <1>8, ReadOn

-----------------------------------------------------------------------------
\* An interval that a client takes for complete.
LEMMA SlotComplete ==
    ASSUME NEW L \in Seq(Stream!Lines), L = run.lines, Stream!IntervalsInOrder(L),
           Stream!SumsLast(L), Stream!SessionsInOrder(L), Stream!AsAsked(run),
           NEW n \in 0..Len(L), NEW q \in Seq(Stream!Sample), NEW x \in Stream!Slot, x # Nothing,
           NEW e, NEW c, OutInv(L, q, e, c, n), PendingInv(L, x, q, e, c, n),
           CoverInv(L, x, q, c, n), EndsInv(L, q, n), Stream!Complete(x)
    PROVE  /\ OutInv(L, Append(q, x), Remember(e, x.key), c, n)
           /\ CoverInv(L, Nothing, Append(q, x), c, n) /\ EndsInv(L, Append(q, x), n)
           /\ \A k : EndsOf(Append(q, x), k) = EndsOf(q, k)
<1>1. n \in Nat /\ x \in Stream!Sample /\ x.kind = "interval"
  BY DEF Stream!Sample, Stream!Slot
<1>2. ~c => x.lines = ReadOf(L, x.key, n)
  BY DEF PendingInv
<1>3. (c => c) /\ (~c => ~MoreOf(L, x.key, n))
  BY <1>1, <1>2, ClientComplete
<1>4. /\ OutInv(L, Append(q, x), Remember(e, x.key), c, n)
      /\ CoverInv(L, Nothing, Append(q, x), c, n)
  BY <1>3, PendingAdded
<1>5. EndsOf(q, x.key.session) = {}
  BY NotEnded
<1>6. EndsInv(L, Append(q, x), n)
  BY <1>1, <1>5, EndsWithSlot
<1>7. \A k : EndsOf(Append(q, x), k) = EndsOf(q, k)
  BY <1>1, OneMore
<1> QED BY <1>4, <1>6, <1>7

\* What the samples are before the line is taken: a line of another interval
\* flushes the pending one.
LEMMA OthersFlushed ==
    ASSUME ParserInv, StreamInv, Stream!Reads("interval"), NEW L, L = run.lines,
           NEW n, n = LinesRead, NEW x \in Stream!Slot, x.key = Stream!KeyOf(L, n + 1),
           x.key \notin emitted, pending = Nothing \/ pending.key # x.key,
           x.lines = {Stream!IdOf(L[n + 1])},
           NEW q, q = out \o Stream!Flushed, NEW e, e = Stream!Remembered(Stream!Flushed)
    PROVE  /\ q \in Seq(Stream!Sample) /\ OutInv(L, q, e, cut, n + 1)
           /\ PendingInv(L, x, q, e, cut, n + 1) /\ CoverInv(L, x, q, cut, n + 1)
           /\ EndsInv(L, q, n + 1) /\ \A k : EndsOf(q, k) = EndsOf(out, k)
<1>1. /\ L \in Seq(Stream!Lines) /\ Stream!IntervalsInOrder(L) /\ Stream!SessionsInOrder(L)
      /\ n \in 0..Len(L) /\ n < Len(L) /\ L[n + 1].kind = "interval"
      /\ ReadingInv(L, ahead, n, session, seen, pending, emitted, summary, out, cut)
  BY WhatIsRead
<1>2. /\ OutInv(L, out, emitted, cut, n) /\ PendingInv(L, pending, out, emitted, cut, n)
      /\ CoverInv(L, pending, out, cut, n) /\ EndsInv(L, out, n)
  BY <1>1 DEF ReadingInv
<1>3. out \in Seq(Stream!Sample) /\ pending \in Stream!Slot \cup {Nothing} /\ x # Nothing
  BY StreamAssumption DEF ParserInv
<1>4. /\ q \in Seq(Stream!Sample) /\ OutInv(L, q, e, cut, n) /\ CoverInv(L, Nothing, q, cut, n)
      /\ EndsInv(L, q, n) /\ \A k : EndsOf(q, k) = EndsOf(out, k)
      /\ x.key \notin e
  <2>1. CASE pending = Nothing
    <3>1. q = out /\ e = emitted
      BY <1>3, <2>1, SamplesAdded, RememberedNone DEF Stream!Flushed
    <3> QED BY <1>2, <1>3, <2>1, <3>1
  <2>2. CASE pending # Nothing
    <3>1. pending \in Stream!Slot /\ pending \in Stream!Sample /\ pending.kind = "interval"
      BY <1>3, <2>2 DEF Stream!Sample, Stream!Slot
    <3>2. Stream!Flushed = <<pending>>
      BY <2>2 DEF Stream!Flushed
    <3>3. q = Append(out, pending) /\ e = Remember(emitted, pending.key)
      BY <1>3, <3>1, <3>2, SamplesAdded, RememberedOne
    <3>4. (cut => cut) /\ (~cut => ~MoreOf(L, pending.key, n))
      <4>1. Stream!KeyOf(L, n + 1) # pending.key
        BY <2>2
      <4> QED BY <1>1, <1>2, <2>2, <4>1, Overtaken
    <3>5. /\ OutInv(L, Append(out, pending), Remember(emitted, pending.key), cut, n)
          /\ CoverInv(L, Nothing, Append(out, pending), cut, n)
      <4>1. L \in Seq(Stream!Lines) /\ Stream!IntervalsInOrder(L) /\ n \in 0..Len(L)
        BY <1>1
      <4> QED BY SMTT(60), <1>2, <1>3, <2>2, <3>1, <3>4, <4>1, PendingAdded
    <3>6. EndsOf(out, pending.key.session) = {}
      BY <1>1, <1>2, <2>2, NotEnded
    <3>7. EndsInv(L, Append(out, pending), n)
      BY <1>2, <1>3, <3>1, <3>6, EndsWithSlot
    <3>8. \A k : EndsOf(q, k) = EndsOf(out, k)
      BY <1>3, <3>1, <3>3, OneMore
    <3>9. q \in Seq(Stream!Sample)
      BY <1>3, <3>1, <3>3, SamplesAdded
    <3>10. x.key \notin e
      BY <2>2, <3>3 DEF Remember
    <3> QED BY <3>3, <3>5, <3>7, <3>8, <3>9, <3>10
  <2> QED BY <2>1, <2>2
<1>5. PendingInv(L, x, q, e, cut, n + 1) /\ CoverInv(L, x, q, cut, n + 1)
  BY <1>1, <1>3, <1>4, SlotBegun
<1>6. OutInv(L, q, e, cut, n + 1)
  BY <1>1, <1>4, OutStays
<1>7. EndsInv(L, q, n + 1)
  <2>1. L[n + 1].kind # "accepted"
    BY <1>1
  <2> QED BY <1>1, <1>4, <2>1, EndsStay
<1> QED BY <1>4, <1>5, <1>6, <1>7

LEMMA IntervalTaken ==
    ASSUME ParserInv, StreamInv, Stream!Interval
    PROVE  StreamInv'
<1>1. Stream!Reads("interval") /\ session' = session /\ summary' = summary
  BY DEF Stream!Interval
<1>2. PICK l \in Stream!Lines : l = Head(ahead)
  BY <1>1, LineTypes
<1>3. PICK key, same, old, slot, others, done :
        /\ key = [session |-> session, at |-> l.at, omitted |-> l.omitted]
        /\ same = (pending # Nothing /\ pending.key = key)
        /\ old = IF same THEN pending ELSE Stream!NewSlot(key)
        /\ slot = [old EXCEPT !.lines = @ \cup {[role |-> l.role, id |-> l.id]}]
        /\ others = IF same THEN <<>> ELSE Stream!Flushed
        /\ done = IF Stream!Complete(slot) THEN Append(others, slot) ELSE others
  OBVIOUS
<1>4. /\ seen' = IF l.id = "SUM" THEN seen ELSE seen \cup {Stream!IdOf(l)}
      /\ IF key \in emitted THEN UNCHANGED <<pending, emitted, out, base>>
         ELSE /\ emitted' = Stream!Remembered(done) /\ out' = out \o done
              /\ pending' = IF Stream!Complete(slot) THEN Nothing ELSE slot
  BY <1>2, <1>3 DEF Stream!Interval, Stream!Emits, Stream!Adds, Stream!IdOf
<1>5. PICK L, n : L = run.lines /\ n = LinesRead
  OBVIOUS
<1>6. /\ L \in Seq(Stream!Lines) /\ Stream!IntervalsInOrder(L) /\ Stream!SumsLast(L)
      /\ Stream!SessionsInOrder(L) /\ Stream!AsAsked(run)
      /\ n \in 0..Len(L) /\ n < Len(L) /\ l = L[n + 1] /\ L[n + 1].kind = "interval"
      /\ ReadingInv(L, ahead, n, session, seen, pending, emitted, summary, out, cut)
  BY <1>1, <1>2, <1>5, WhatIsRead
<1>7. /\ OutInv(L, out, emitted, cut, n) /\ PendingInv(L, pending, out, emitted, cut, n)
      /\ CoverInv(L, pending, out, cut, n) /\ EndsInv(L, out, n)
      /\ SummaryInv(L, seen, summary, out, n) /\ session = Stream!SessionOf(L, n)
  BY <1>6 DEF ReadingInv
<1>8. n + 1 \in 0..Len(L) /\ L[n + 1].kind # "accepted"
  BY <1>6
<1>9. session' = Stream!SessionOf(L, n + 1) /\ session = Stream!SessionOf(L, n + 1)
  BY <1>1, <1>6, <1>7, <1>8, SessionSteps
<1>10. key = Stream!KeyOf(L, n + 1)
  BY <1>3, <1>6, <1>9 DEF Stream!KeyOf
<1>11. out \in Seq(Stream!Sample) /\ pending \in Stream!Slot \cup {Nothing}
  BY DEF ParserInv
<1>12. /\ slot \in Stream!Slot /\ slot \in Stream!Sample /\ slot # Nothing
       /\ slot.key = key /\ slot.lines = old.lines \cup {Stream!IdOf(L[n + 1])}
       /\ ~same => slot.lines = {Stream!IdOf(L[n + 1])}
  <2>1. Stream!NewSlot(key) \in Stream!Slot
    BY <1>2, <1>3 DEF ParserInv, Stream!Key, Stream!NewSlot, Stream!Slot
  <2>2. old \in Stream!Slot /\ old.key = key /\ (~same => old.lines = {})
    BY <1>3, <1>11, <2>1 DEF Stream!NewSlot
  <2>3. slot \in Stream!Slot
    BY <1>2, <1>3, <2>2, SlotTypes
  <2>4. slot.key = key /\ slot.lines = old.lines \cup {Stream!IdOf(L[n + 1])}
    BY <1>3, <1>6, <2>2 DEF Stream!Slot, Stream!IdOf
  <2> QED BY <2>2, <2>3, <2>4, StreamAssumption DEF Stream!Sample
<1>13. \A r : (\A k : EndsOf(r, k) = EndsOf(out, k)) => SummaryInv(L, seen', summary', r, n + 1)
  <2> SUFFICES ASSUME NEW r, \A k : EndsOf(r, k) = EndsOf(out, k)
               PROVE  SummaryInv(L, seen', summary', r, n + 1)
    OBVIOUS
  <2>1. seen' = IF L[n + 1].id = "SUM" THEN seen ELSE seen \cup {Stream!IdOf(L[n + 1])}
    BY <1>4, <1>6
  <2> QED BY <1>1, <1>6, <1>7, <2>1, SeenGrows
<1>14. CASE key \in emitted
  <2>1. pending' = pending /\ emitted' = emitted /\ out' = out
    BY <1>4, <1>14
  <2>2. PendingInv(L, pending, out, emitted, cut, n + 1) /\ CoverInv(L, pending, out, cut, n + 1)
    BY <1>6, <1>7, <1>10, <1>11, <1>14, LineDropped
  <2>3. OutInv(L, out, emitted, cut, n + 1) /\ EndsInv(L, out, n + 1)
    BY <1>6, <1>7, <1>8, <1>11, OutStays, EndsStay
  <2>4. SummaryInv(L, seen', summary', out, n + 1)
    BY <1>13
  <2> QED BY ZenonT(60), <1>1, <1>5, <1>9, <2>1, <2>2, <2>3, <2>4, ReadOn
<1>15. CASE key \notin emitted
  <2>1. PICK q, e : q = out \o others /\ e = Stream!Remembered(others)
    OBVIOUS
  <2>2. /\ q \in Seq(Stream!Sample) /\ OutInv(L, q, e, cut, n + 1)
        /\ PendingInv(L, slot, q, e, cut, n + 1) /\ CoverInv(L, slot, q, cut, n + 1)
        /\ EndsInv(L, q, n + 1) /\ \A k : EndsOf(q, k) = EndsOf(out, k)
    <3>1. CASE same
      <4>1. q = out /\ e = emitted
        BY <1>3, <1>11, <2>1, <3>1, SamplesAdded, RememberedNone
      <4>2. OutInv(L, out, emitted, cut, n + 1) /\ EndsInv(L, out, n + 1)
        BY <1>6, <1>7, <1>8, <1>11, OutStays, EndsStay
      <4>3. /\ pending # Nothing /\ pending.key = Stream!KeyOf(L, n + 1) /\ slot.key = pending.key
            /\ slot.lines = pending.lines \cup {Stream!IdOf(L[n + 1])}
        BY <1>3, <1>10, <1>12, <3>1
      <4>4. /\ PendingInv(L, slot, out, emitted, cut, n + 1) /\ CoverInv(L, slot, out, cut, n + 1)
        BY <1>6, <1>7, <1>11, <1>12, <4>3, SlotGrows
      <4> QED BY <1>11, <4>1, <4>2, <4>4
    <3>2. CASE ~same
      <4>1. others = Stream!Flushed /\ (pending = Nothing \/ pending.key # slot.key)
        BY <1>3, <1>12, <3>2
      <4>2. slot.key = Stream!KeyOf(L, n + 1) /\ slot.key \notin emitted
        BY <1>10, <1>12, <1>15
      <4>3. q = out \o Stream!Flushed /\ e = Stream!Remembered(Stream!Flushed)
        BY <2>1, <4>1
      <4> QED BY <1>1, <1>5, <1>12, <3>2, <4>1, <4>2, <4>3, OthersFlushed
    <3> QED BY <3>1, <3>2
  <2>3. /\ out' = IF Stream!Complete(slot) THEN Append(q, slot) ELSE q
        /\ emitted' = IF Stream!Complete(slot) THEN Remember(e, slot.key) ELSE e
        /\ pending' = IF Stream!Complete(slot) THEN Nothing ELSE slot
    <3>1. out' = out \o done /\ emitted' = Stream!Remembered(done)
          /\ pending' = IF Stream!Complete(slot) THEN Nothing ELSE slot
      BY <1>4, <1>15
    <3>2. others = <<>> \/ (pending \in Stream!Sample /\ others = <<pending>>)
      BY <1>3, <1>11 DEF Stream!Flushed, Stream!Sample
    <3>3. CASE ~Stream!Complete(slot)
      BY <1>3, <2>1, <3>1, <3>3
    <3>4. CASE Stream!Complete(slot) /\ others = <<>>
      <4>1. done = <<slot>>
        BY <1>3, <1>11, <1>12, <3>4, SamplesAdded
      <4>2. q = out /\ e = emitted
        BY <1>11, <2>1, <3>4, SamplesAdded, RememberedNone
      <4> QED BY <1>11, <1>12, <3>1, <3>4, <4>1, <4>2, SamplesAdded, RememberedOne
    <3>5. CASE Stream!Complete(slot) /\ pending \in Stream!Sample /\ others = <<pending>>
      <4>1. done = <<pending, slot>>
        <5>1. done = Append(others, slot)
          BY <1>3, <3>5
        <5>2. Append(<<pending>>, slot) = <<pending, slot>>
          BY <1>11, <1>12, <3>5, SamplesAdded
        <5>3. others = <<pending>>
          BY <3>5
        <5> QED BY <5>1, <5>2, <5>3
      <4>2. q = Append(out, pending) /\ e = Remember(emitted, pending.key)
        BY <1>11, <2>1, <3>5, SamplesAdded, RememberedOne
      <4> QED BY <1>11, <1>12, <3>1, <3>5, <4>1, <4>2, SamplesAdded, RememberedTwo
    <3> QED BY <3>2, <3>3, <3>4, <3>5
  <2>4. /\ OutInv(L, out', emitted', cut, n + 1) /\ PendingInv(L, pending', out', emitted', cut, n + 1)
        /\ CoverInv(L, pending', out', cut, n + 1)
        /\ EndsInv(L, out', n + 1) /\ \A k : EndsOf(out', k) = EndsOf(q, k)
    <3>1. CASE ~Stream!Complete(slot)
      BY <2>2, <2>3, <3>1
    <3>2. CASE Stream!Complete(slot)
      <4>1. out' = Append(q, slot) /\ emitted' = Remember(e, slot.key) /\ pending' = Nothing
        BY <2>3, <3>2
      <4>2. /\ OutInv(L, Append(q, slot), Remember(e, slot.key), cut, n + 1)
            /\ CoverInv(L, Nothing, Append(q, slot), cut, n + 1) /\ EndsInv(L, Append(q, slot), n + 1)
            /\ \A k : EndsOf(Append(q, slot), k) = EndsOf(q, k)
        BY <1>5, <1>6, <1>8, <1>12, <2>2, <3>2, SlotComplete
      <4>3. PendingInv(L, Nothing, out', emitted', cut, n + 1)
        BY DEF PendingInv
      <4> QED BY <4>1, <4>2, <4>3
    <3> QED BY <3>1, <3>2
  <2>5. SummaryInv(L, seen', summary', out', n + 1)
    BY <1>13, <2>2, <2>4
  <2> QED BY ZenonT(60), <1>1, <1>5, <1>9, <2>4, <2>5, ReadOn
<1> QED BY <1>14, <1>15

-----------------------------------------------------------------------------
\* The reader gives up waiting: what is cut from then on is told by cut.
LEMMA CutWhole ==
    ASSUME ParserInv, StreamInv, phase = "reading", Stream!FlushCut,
           NEW L, L = run.lines, NEW n, n = LinesRead
    PROVE  /\ L \in Seq(Stream!Lines) /\ n \in 0..Len(L) /\ session' = Stream!SessionOf(L, n)
           /\ run' = run /\ seen' = seen /\ summary' = summary /\ pending' = Nothing
           /\ OutInv(L, out', emitted', cut', n) /\ CoverInv(L, Nothing, out', cut', n)
           /\ EndsInv(L, out', n) /\ \A k : EndsOf(out', k) = EndsOf(out, k)
<1>1. /\ out' = out \o Stream!Flushed /\ emitted' = Stream!Remembered(Stream!Flushed)
      /\ pending' = Nothing /\ cut' = (cut \/ Stream!IsMore)
      /\ run' = run /\ session' = session /\ seen' = seen /\ summary' = summary
  BY DEF Stream!FlushCut, Stream!Emits, Stream!Adds
<1>2. /\ L \in Seq(Stream!Lines) /\ Stream!IntervalsInOrder(L) /\ Stream!SessionsInOrder(L)
  BY StreamAssumption, IperfAssumption DEF ParserInv, Stream!Prints
<1>3. ReadingInv(L, ahead, n, session, seen, pending, emitted, summary, out, cut)
  BY DEF StreamInv
<1>4. /\ OutInv(L, out, emitted, cut, n) /\ PendingInv(L, pending, out, emitted, cut, n)
      /\ CoverInv(L, pending, out, cut, n) /\ EndsInv(L, out, n)
      /\ session = Stream!SessionOf(L, n) /\ n \in 0..Len(L)
      /\ Len(ahead) = Len(L) - n /\ \A i \in DOMAIN ahead : ahead[i] = L[n + i]
  BY <1>3 DEF ReadingInv
<1>5. /\ out \in Seq(Stream!Sample) /\ pending \in Stream!Slot \cup {Nothing}
      /\ ahead \in Seq(Stream!Lines)
  BY DEF ParserInv
<1>6. CASE pending = Nothing
  <2>1. out' = out /\ emitted' = emitted /\ (cut => cut')
    BY <1>1, <1>5, <1>6, SamplesAdded, RememberedNone DEF Stream!Flushed
  <2>2. OutInv(L, out, emitted, cut', n)
    BY <1>4, <2>1 DEF OutInv
  <2>3. CoverInv(L, Nothing, out, cut', n)
    BY <1>4, <1>6, <2>1 DEF CoverInv
  <2> QED BY <1>1, <1>2, <1>4, <2>1, <2>2, <2>3
<1>7. CASE pending # Nothing
  <2>1. pending \in Stream!Slot /\ pending \in Stream!Sample /\ pending.kind = "interval"
    BY <1>5, <1>7 DEF Stream!Sample, Stream!Slot
  <2>2. Stream!Flushed = <<pending>>
    BY <1>7 DEF Stream!Flushed
  <2>3. out' = Append(out, pending) /\ emitted' = Remember(emitted, pending.key)
    BY <1>1, <1>5, <2>1, <2>2, SamplesAdded, RememberedOne
  <2>4. MoreOf(L, pending.key, n) => Stream!IsMore
    <3> SUFFICES ASSUME MoreOf(L, pending.key, n) PROVE Stream!IsMore
      OBVIOUS
    <3>1. LinesOfKey(L, pending.key, n) # {}
      BY <1>4, <1>7 DEF PendingInv
    <3>2. n + 1 \in Stream!LinesOf(L, "interval") /\ Stream!KeyOf(L, n + 1) = pending.key
      BY <1>2, <1>4, <3>1, IntervalOver
    <3>3. n + 1 \in 1..Len(L) /\ L[n + 1].kind = "interval"
      BY <1>2, <3>2 DEF Stream!LinesOf
    <3>4. Len(L) \in Nat /\ n \in Nat /\ DOMAIN ahead = 1..Len(ahead)
      BY <1>2, <1>4, <1>5
    <3>5. ahead # <<>> /\ Head(ahead) = ahead[1] /\ 1 \in DOMAIN ahead
      BY <1>4, <1>5, <3>3, <3>4
    <3>6. Head(ahead) = L[n + 1]
      BY <1>4, <3>5
    <3>7. L[n + 1].at = pending.key.at /\ L[n + 1].omitted = pending.key.omitted
      BY <3>2 DEF Stream!KeyOf
    <3> QED BY <1>7, <3>3, <3>5, <3>6, <3>7 DEF Stream!IsMore
  <2>5. PICK c : c = cut'
    OBVIOUS
  <2>6. (cut => c) /\ (~c => ~MoreOf(L, pending.key, n))
    BY <1>1, <2>4, <2>5
  <2>7. /\ OutInv(L, Append(out, pending), Remember(emitted, pending.key), c, n)
        /\ CoverInv(L, Nothing, Append(out, pending), c, n)
    BY SMTT(60), <1>2, <1>4, <1>5, <1>7, <2>1, <2>6, PendingAdded
  <2>8. EndsOf(out, pending.key.session) = {}
    BY <1>2, <1>4, <1>7, NotEnded
  <2>9. EndsInv(L, Append(out, pending), n) /\ \A k : EndsOf(Append(out, pending), k) = EndsOf(out, k)
    BY <1>4, <1>5, <2>1, <2>8, EndsWithSlot, OneMore
  <2> QED BY <1>1, <1>2, <1>4, <2>3, <2>5, <2>7, <2>9
<1> QED BY <1>6, <1>7

LEMMA QuietWhole ==
    ASSUME ParserInv, StreamInv, Stream!Quiet \/ Stream!EndOfOutput
    PROVE  StreamInv'
<1>1. PICK L, n : L = run.lines /\ n = LinesRead
  OBVIOUS
<1>2. phase = "reading" /\ Stream!FlushCut
  BY DEF Stream!Quiet, Stream!EndOfOutput
<1>3. /\ L \in Seq(Stream!Lines) /\ n \in 0..Len(L) /\ session' = Stream!SessionOf(L, n)
      /\ run' = run /\ seen' = seen /\ summary' = summary /\ pending' = Nothing
      /\ OutInv(L, out', emitted', cut', n) /\ CoverInv(L, Nothing, out', cut', n)
      /\ EndsInv(L, out', n) /\ \A k : EndsOf(out', k) = EndsOf(out, k)
  BY <1>1, <1>2, CutWhole
<1>4. WholeInv'
  BY <1>1, <1>3 DEF WholeInv
<1>5. CASE Stream!Quiet
  <2>1. ahead' = ahead /\ LinesRead' = n
    BY <1>1, <1>3, <1>5 DEF Stream!Quiet, LinesRead
  <2>2. ReadingInv(L, ahead, n, session, seen, pending, emitted, summary, out, cut)
    BY <1>1, <1>2 DEF StreamInv
  <2>3. SummaryInv(L, seen', summary', out', n)
    BY <1>3, <2>2 DEF ReadingInv, SummaryInv
  <2>4. PendingInv(L, pending', out', emitted', cut', n)
    BY <1>3 DEF PendingInv
  <2>5. ReadingInv(L, ahead', n, session', seen', pending', emitted', summary', out', cut')
    BY <1>3, <2>1, <2>2, <2>3, <2>4 DEF ReadingInv
  <2> QED BY <1>1, <1>3, <1>4, <2>1, <2>5 DEF StreamInv
<1>6. CASE Stream!EndOfOutput
  <2>1. phase' # "reading"
    BY <1>6 DEF Stream!EndOfOutput
  <2> QED BY <1>4, <2>1 DEF StreamInv
<1> QED BY <1>2, <1>5, <1>6

\* The other steps read nothing and add nothing.
LEMMA OthersWhole ==
    ASSUME StreamInv, phase' = "reading" => phase = "reading",
           UNCHANGED <<run, ahead, session, seen, pending, emitted, summary, out, cut>>
    PROVE  StreamInv'
BY DEF StreamInv, WholeInv, LinesRead

LEMMA StreamWhole ==
    ASSUME ParserInv, StreamInv, [Stream!Next]_streamVars
    PROVE  StreamInv'
<1>1. CASE Stream!TimeLimit \/ Stream!Finish
  BY <1>1, OthersWhole DEF Stream!TimeLimit, Stream!Finish, Stream!parser
<1>2. CASE Stream!Poll \/ Stream!Receive \/ Stream!Lost
  BY <1>2, OthersWhole DEF Stream!Poll, Stream!Receive, Stream!Lost, Stream!parser
<1>3. CASE UNCHANGED streamVars
  BY <1>3, OthersWhole DEF streamVars
<1> QED BY <1>1, <1>2, <1>3, SeparatorWhole, AcceptedWhole, ListeningWhole, EndLineWhole,
        IntervalTaken, QuietWhole DEF Stream!Next

LEMMA StreamWholeNow ==
    ASSUME ParserInv, StreamInv
    PROVE  SamplesAreWhole
<1>1. PICK L : L = run.lines
  OBVIOUS
<1>2. PICK n, e :
        /\ session = Stream!SessionOf(L, n)
        /\ OutInv(L, out, e, cut, n) /\ EndsInv(L, out, n)
  BY <1>1 DEF StreamInv, WholeInv
<1>3. /\ Stream!Intervals = IntervalsOf(out) /\ \A k : Stream!Ends(k) = EndsOf(out, k)
      /\ \A k : Stream!Told(k) = Stream!StreamsOf(L, k)
      /\ session \in Nat /\ out \in Seq(Stream!Sample)
  BY <1>1 DEF Stream!Intervals, Stream!Ends, Stream!Told, IntervalsOf, EndsOf, ParserInv
<1>4. \A i, k \in Stream!Intervals :
        /\ i < k /\ Stream!SameClock(out[i].key, out[k].key) => out[i].key.at <= out[k].key.at
        /\ i # k /\ (~cut \/ Stream!Cardinality(Stream!Intervals) <= MaxEmitted)
              => out[i].key # out[k].key
  BY <1>2, <1>3, StreamCounts DEF OutInv, Few
<1>5. ~cut => \A i \in Stream!Intervals : out[i].lines = Stream!Told(out[i].key.session)
  BY <1>2, <1>3 DEF OutInv
<1>6. \A k, i : i \in EndsOf(out, k) =>
        /\ EndsOf(out, k) = {i}
        /\ \A m \in IntervalsOf(out) : out[m].key.session = k => m < i
        /\ \A x \in out[i].summary : Stream!IsTotal(L, k, x)
  <2> SUFFICES ASSUME NEW k, NEW i \in EndsOf(out, k)
               PROVE  /\ EndsOf(out, k) = {i}
                      /\ \A m \in IntervalsOf(out) : out[m].key.session = k => m < i
                      /\ \A x \in out[i].summary : Stream!IsTotal(L, k, x)
    OBVIOUS
  <2>1. i \in DOMAIN out /\ out[i].kind = "session_end" /\ out[i].session = k
    BY DEF EndsOf
  <2>2. /\ \A m \in EndsOf(out, k) : m = i
        /\ \A m \in IntervalsOf(out) : out[m].key.session = k => m < i
        /\ \A x \in out[i].summary : Stream!IsTotal(L, k, x)
    BY <1>2, <2>1 DEF EndsInv
  <2> QED BY <2>2
<1>7. \A k \in 1..(session - 1) :
         Stream!Cardinality(Stream!Ends(k)) = IF Stream!HasTotal(L, k) THEN 1 ELSE 0
  <2> TAKE k \in 1..(session - 1)
  <2>1. CASE Stream!HasTotal(L, k)
    <3>1. PICK i : i \in EndsOf(out, k)
      BY <1>2, <2>1 DEF EndsInv
    <3>2. EndsOf(out, k) = {i}
      BY <1>6, <3>1
    <3> QED BY <1>3, <2>1, <3>2, StreamCounts, FS_Singleton
  <2>2. CASE ~Stream!HasTotal(L, k)
    <3>1. TotalsOf(L, k, n) = {}
      BY <2>2 DEF TotalsOf, InSession, Stream!HasTotal
    <3>2. EndsOf(out, k) = {}
      BY <1>2, <3>1 DEF EndsInv, EndsOf
    <3> QED BY <1>3, <2>2, <3>2, StreamCounts, FS_EmptySet
  <2> QED BY <2>1, <2>2
<1>8. \A k \in 1..session : \A i \in Stream!Ends(k) :
        /\ \A m \in Stream!Intervals : out[m].key.session = k => m < i
        /\ \A x \in out[i].summary : Stream!IsTotal(run.lines, k, x)
  BY <1>1, <1>3, <1>6
<1> QED BY <1>1, <1>4, <1>5, <1>7, <1>8 DEF SamplesAreWhole, Stream!SamplesAreWhole

\* speedtest.py: a sample is one whole interval, and an interval one sample, in the
\* order of time, unless the pipe was quiet in the middle of it; a session that is over
\* was reported once, with its total and after its intervals, and one without a total never.
THEOREM SpeedtestSamplesAreWhole == MenuSpec => []SamplesAreWhole
<1>1. MenuInit => ParserInv /\ PollerInv
  BY ParserStarts
<1>2. MenuInit => StreamInv
  <2> SUFFICES ASSUME MenuInit PROVE StreamInv
    OBVIOUS
  <2>1. /\ run \in IperfRun /\ ahead = run.lines /\ session = 0 /\ seen = {} /\ pending = Nothing
        /\ emitted = {} /\ summary = {} /\ out = <<>> /\ phase = "reading" /\ cut = FALSE
    BY DEF MenuInit, Stream!Init
  <2>2. PICK L : L = run.lines /\ L \in Seq(Stream!Lines)
    BY <2>1, StreamAssumption
  <2>3. Len(L) \in Nat /\ DOMAIN L = 1..Len(L) /\ 1..0 = {} /\ 0 \in 0..Len(L)
    BY <2>2
  <2>4. LinesRead = 0 /\ Stream!SessionOf(L, 0) = 0
    BY <2>1, <2>2, <2>3, SessionStarts DEF LinesRead
  <2>5. IntervalsOf(<<>>) = {} /\ KeysOf(<<>>) = {} /\ \A k : EndsOf(<<>>, k) = {}
    BY DEF IntervalsOf, KeysOf, EndsOf
  <2>6. OutInv(L, <<>>, {}, FALSE, 0)
    BY <2>5 DEF OutInv
  <2>7. PendingInv(L, Nothing, <<>>, {}, FALSE, 0) /\ CoverInv(L, Nothing, <<>>, FALSE, 0)
    BY <2>3 DEF PendingInv, CoverInv
  <2>8. EndsInv(L, <<>>, 0)
    <3>1. 1..(0 - 1) = {} /\ DOMAIN <<>> = {}
      OBVIOUS
    <3> QED BY <2>4, <2>5, <3>1 DEF EndsInv
  <2>9. SummaryInv(L, {}, {}, <<>>, 0)
    BY <2>3 DEF SummaryInv, InSession, TotalsOf
  <2>10. Len(L) = Len(L) - 0 /\ \A i \in DOMAIN L : L[i] = L[0 + i]
    BY <2>3
  <2>11. ReadingInv(L, L, 0, 0, {}, Nothing, {}, {}, <<>>, FALSE)
    BY <2>3, <2>4, <2>6, <2>7, <2>8, <2>9, <2>10 DEF ReadingInv
  <2> QED BY <2>1, <2>2, <2>3, <2>4, <2>6, <2>8, <2>11 DEF StreamInv, WholeInv
<1>3. /\ ParserInv /\ PollerInv /\ StreamInv
      /\ [MenuNext]_<<vars, menu, streamVars>>
      => (ParserInv /\ PollerInv /\ StreamInv)'
  <2> SUFFICES ASSUME ParserInv, PollerInv, StreamInv, [MenuNext]_<<vars, menu, streamVars>>
               PROVE  ParserInv' /\ PollerInv' /\ StreamInv'
    OBVIOUS
  <2>1. [Stream!Next]_streamVars
    BY DEF MenuNext
  <2> QED BY <2>1, StreamKeeps, StreamWhole
<1>4. ParserInv /\ StreamInv => SamplesAreWhole
  BY StreamWholeNow
<1> QED BY <1>1, <1>2, <1>3, <1>4, PTL DEF MenuSpec
=============================================================================
