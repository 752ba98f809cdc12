-------------------------- MODULE NginxEdgeProofs ---------------------------
(***************************************************************************)
(* What holds of the Nginx edge module for every set of handlers, routes,  *)
(* certificates, failures and any length of the clock.                     *)
(*                                                                         *)
(* The saved document stays free of clashes although it is written from    *)
(* many places: by the request that checked the conflicts, by an apply     *)
(* that ends with a document loaded long before, by a rollback. The        *)
(* invariant says that each of those sources is free of clashes too: the   *)
(* document in the hands of every handler, and the one in every backup.    *)
(*                                                                         *)
(* With one request at a time, an apply that succeeds is served and one    *)
(* that fails is undone: an invariant for each says what every command has *)
(* left on the disk.                                                       *)
(***************************************************************************)
EXTENDS NginxEdge, TLAPS

NoClash(d) == \A a, b \in d : a.enabled /\ b.enabled => ~(Clash(a, b) /\ Clash(b, a))

\* A handler that is at a command on a part has one, and one that restores has
\* been told why.
Located(t) ==
    /\ t.verb \in {"backup", "rm", "cp"} => t.part \in Part
    /\ t.verb = "write" => t.part \in Part \cup {"acme"}
    /\ t.verb \in {"rm", "cp"} => t.op \in {"undo", "undo_reload", "rollback"}

Good(t) == Located(t) /\ NoClash(t.doc)

BackupsGood == \A s \in Second : backups[s].doc # Absent => NoClash(backups[s].doc)

IInv ==
    /\ TypeOK
    /\ \A h \in Handler : Good(task[h])
    /\ NoClash(stateFile)
    /\ BackupsGood

-----------------------------------------------------------------------------
\* The empty document has no clash, and adding an admissible route to a document
\* without a clash gives none: this is what _conflict_check is for.
LEMMA EmptyNoClash == NoClash({})
  BY DEF NoClash

LEMMA WithNoClash ==
  ASSUME NEW d, NEW r, NoClash(d), Admissible(d, r)
  PROVE  NoClash(With(d, r))
<1> SUFFICES ASSUME NEW a \in With(d, r), NEW b \in With(d, r),
                    a.enabled, b.enabled, Clash(a, b), Clash(b, a)
             PROVE  FALSE
  BY DEF NoClash
<1>1. a.id # b.id
  BY DEF Clash
<1>2. CASE a = r
  <2>1. b \in d
    BY <1>1, <1>2 DEF With
  <2> QED BY <1>2, <2>1 DEF Admissible
<1>3. CASE b = r
  <2>1. a \in d
    BY <1>1, <1>3 DEF With
  <2> QED BY <1>3, <2>1 DEF Admissible
<1>4. CASE a # r /\ b # r
  BY <1>4 DEF With, NoClash
<1> QED BY <1>2, <1>3, <1>4

\* Removing a route leaves no clash either.
LEMMA SubsetNoClash ==
  ASSUME NEW d, NEW e \in SUBSET d, NoClash(d)
  PROVE  NoClash(e)
  BY DEF NoClash

\* A handler that has nothing to do is well typed.
LEMMA NoTaskGood == NoTask \in Task /\ Good(NoTask)
<1>1. Empty \in Config
  BY DEF Empty, Config
<1>2. Missing \in Managed
  BY DEF Missing, Managed
<1>3. 1 \in Second
  BY EdgeAssumption DEF Second
<1>4. NoTask \in Task
  BY <1>1, <1>2, <1>3 DEF NoTask, Task, Verb, Op, Docs, Part
<1>5. Good(NoTask)
  BY EmptyNoClash DEF NoTask, Good, Located
<1> QED BY <1>4, <1>5

\* _ensure_dirs leaves a well-typed configuration, with no directory missing.
LEMMA EnsuredType ==
  ASSUME NEW m \in Managed
  PROVE  Ensured(m) \in Managed /\ Serve(m) \in Config
  BY DEF Managed, Config, Ensured, Serve

LEMMA RenderType ==
  ASSUME NEW d \in Docs
  PROVE  Render(d) \in Config
  BY DEF Docs, Config, Render, Entry

\* What nginx reads is what it may run.
LEMMA ReadsType ==
  ASSUME managed \in Managed
  PROVE  Reads \in Running /\ Reads # Down
<1>1. \A p \in Part : Serve(managed)[p] \in SUBSET Entry
  BY EnsuredType DEF Config
<1>2. Reads \in [Part -> SUBSET (Entry \cup {Distro})]
  BY <1>1 DEF Reads
<1> QED BY <1>2, RouteAssumption DEF Running

\* Giving a handler a good task keeps every task good.
LEMMA TaskSet ==
  ASSUME IInv, NEW h \in Handler, NEW t \in Task, Good(t),
         task' = [task EXCEPT ![h] = t]
  PROVE  task' \in [Handler -> Task] /\ \A k \in Handler : Good(task'[k])
  BY DEF IInv, TypeOK

LEMMA GotoGood ==
  ASSUME IInv, NEW h \in Handler, NEW v \in Verb, NEW p \in Part \cup {"-", "acme"},
         v \in {"backup", "rm", "cp"} => p \in Part,
         v = "write" => p \in Part \cup {"acme"},
         v \in {"rm", "cp"} => task[h].op \in {"undo", "undo_reload", "rollback"},
         Goto(h, v, p)
  PROVE  task' \in [Handler -> Task] /\ \A k \in Handler : Good(task'[k])
<1> DEFINE t == [task[h] EXCEPT !.verb = v, !.part = p]
<1>1. task[h] \in Task /\ Good(task[h])
  BY DEF IInv, TypeOK
<1>2. t \in Task
  BY <1>1 DEF Task
<1>3. t.verb = v /\ t.part = p /\ t.op = task[h].op /\ t.doc = task[h].doc
  BY <1>1 DEF Task
<1>4. Good(t)
  BY <1>1, <1>3 DEF Good, Located
<1>5. task' = [task EXCEPT ![h] = t]
  BY DEF Goto, IInv, TypeOK
<1> QED BY <1>2, <1>4, <1>5, TaskSet

LEMMA EndsGood ==
  ASSUME IInv, NEW h \in Handler, NEW r \in {"none", "ok", "failed"}, Ends(h, r)
  PROVE  /\ task' \in [Handler -> Task] /\ \A k \in Handler : Good(task'[k])
         /\ outcome' \in [Handler -> {"none", "ok", "failed"}]
<1>1. outcome' \in [Handler -> {"none", "ok", "failed"}]
  BY DEF Ends, IInv, TypeOK
<1> QED BY <1>1, NoTaskGood, TaskSet DEF Ends

LEMMA BeginsGood ==
  ASSUME IInv, NEW h \in Handler, NEW t \in Task, Good(t), Begins(h, t)
  PROVE  /\ task' \in [Handler -> Task] /\ \A k \in Handler : Good(task'[k])
         /\ outcome' \in [Handler -> {"none", "ok", "failed"}]
<1>1. outcome' \in [Handler -> {"none", "ok", "failed"}]
  BY DEF Begins, IInv, TypeOK
<1> QED BY <1>1, TaskSet DEF Begins

-----------------------------------------------------------------------------
\* Requests: one lemma per handler.
LEMMA UpsertStep ==
  ASSUME IInv, NEW h \in Handler, NEW r \in RouteBody, NEW o \in {"save", "apply"},
         Upsert(h, r, o)
  PROVE  IInv'
<1> DEFINE t == [NoTask EXCEPT !.verb = "save", !.op = o, !.doc = With(stateFile, r)]
<1>1. With(stateFile, r) \in Docs /\ NoClash(With(stateFile, r))
  BY WithNoClash DEF Upsert, IInv, TypeOK, Docs, With
<1>2. t \in Task /\ Good(t)
  BY <1>1, NoTaskGood DEF Task, Good, Located, NoTask, Verb, Op
<1>3. Begins(h, t)
  BY DEF Upsert
<1>4. /\ task' \in [Handler -> Task] /\ \A k \in Handler : Good(task'[k])
      /\ outcome' \in [Handler -> {"none", "ok", "failed"}]
  BY <1>2, <1>3, BeginsGood
<1> QED BY <1>4 DEF Upsert, IInv, TypeOK, BackupsGood, disk

LEMMA DeleteRouteStep ==
  ASSUME IInv, NEW h \in Handler, NEW i, NEW o \in {"save", "apply"},
         DeleteRoute(h, i, o)
  PROVE  IInv'
<1> DEFINE d == {r \in stateFile : r.id # i}
           t == [NoTask EXCEPT !.verb = "save", !.op = o, !.doc = d]
<1>1. d \in Docs /\ NoClash(d)
  BY SubsetNoClash DEF IInv, TypeOK, Docs
<1>2. t \in Task /\ Good(t)
  BY <1>1, NoTaskGood DEF Task, Good, Located, NoTask, Verb, Op
<1>3. Begins(h, t)
  BY DEF DeleteRoute
<1>4. /\ task' \in [Handler -> Task] /\ \A k \in Handler : Good(task'[k])
      /\ outcome' \in [Handler -> {"none", "ok", "failed"}]
  BY <1>2, <1>3, BeginsGood
<1> QED BY <1>4 DEF DeleteRoute, IInv, TypeOK, BackupsGood, disk

LEMMA RollbackStep ==
  ASSUME IInv, NEW h \in Handler, NEW b \in Listed, Rollback(h, b)
  PROVE  IInv'
<1> DEFINE t == [NoTask EXCEPT !.verb = "rm", !.part = "http", !.op = "rollback",
                               !.bid = b.at]
<1>1. b.at \in Second
  BY DEF Listed, IInv, TypeOK
<1>2. t \in Task /\ Good(t)
  BY <1>1, NoTaskGood DEF Task, Good, Located, NoTask, Verb, Op, Part
<1>3. Begins(h, t)
  BY DEF Rollback
<1>4. /\ task' \in [Handler -> Task] /\ \A k \in Handler : Good(task'[k])
      /\ outcome' \in [Handler -> {"none", "ok", "failed"}]
  BY <1>2, <1>3, BeginsGood
<1> QED BY <1>4 DEF Rollback, IInv, TypeOK, BackupsGood, disk

LEMMA PlainRequestStep ==
  ASSUME IInv, NEW h \in Handler,
         \/ AcmeStart(h) \/ RenewStart(h) \/ ReloadStart(h)
         \/ \E c \in Cert : DeleteCert(h, c)
  PROVE  IInv'
<1>1. \E t \in Task : Good(t) /\ Begins(h, t)
  <2>1. CASE AcmeStart(h)
    <3> DEFINE t == [NoTask EXCEPT !.verb = "dirs", !.op = "acme"]
    <3>1. t \in Task /\ Good(t)
      BY NoTaskGood DEF Task, Good, Located, NoTask, Verb, Op
    <3>2. Begins(h, t)
      BY <2>1 DEF AcmeStart
    <3> QED BY <3>1, <3>2
  <2>2. CASE RenewStart(h)
    <3> DEFINE t == [NoTask EXCEPT !.verb = "test", !.op = "renew"]
    <3>1. t \in Task /\ Good(t)
      BY NoTaskGood DEF Task, Good, Located, NoTask, Verb, Op
    <3>2. Begins(h, t)
      BY <2>2 DEF RenewStart
    <3> QED BY <3>1, <3>2
  <2>3. CASE ReloadStart(h)
    <3> DEFINE t == [NoTask EXCEPT !.verb = "reload", !.op = "reload"]
    <3>1. t \in Task /\ Good(t)
      BY NoTaskGood DEF Task, Good, Located, NoTask, Verb, Op
    <3>2. Begins(h, t)
      BY <2>3 DEF ReloadStart
    <3> QED BY <3>1, <3>2
  <2>4. CASE \E c \in Cert : DeleteCert(h, c)
    <3>1. PICK c \in Cert : DeleteCert(h, c)
      BY <2>4
    <3> DEFINE t == [NoTask EXCEPT !.verb = "rm_cert", !.op = "delete_cert", !.cert = c]
    <3>2. t \in Task /\ Good(t)
      BY NoTaskGood DEF Task, Good, Located, NoTask, Verb, Op
    <3>3. Begins(h, t)
      BY <3>1 DEF DeleteCert
    <3> QED BY <3>2, <3>3
  <2> QED BY <2>1, <2>2, <2>3, <2>4
<1>3. /\ task' \in [Handler -> Task] /\ \A k \in Handler : Good(task'[k])
      /\ outcome' \in [Handler -> {"none", "ok", "failed"}]
  BY <1>1, BeginsGood
<1>4. /\ managed' \in Managed
      /\ UNCHANGED <<stateFile, certs, backups, manual, running, held, distro, now>>
  BY EnsuredType DEF AcmeStart, RenewStart, ReloadStart, DeleteCert, disk, IInv, TypeOK
<1> QED BY <1>3, <1>4 DEF IInv, TypeOK, BackupsGood

LEMMA ServiceStep ==
  ASSUME IInv, NEW h \in Handler, ServiceRestart(h) \/ ServiceStop(h)
  PROVE  IInv'
<1>1. managed' \in Managed
  BY EnsuredType DEF ServiceRestart, ServiceStop, IInv, TypeOK
<1>2. running' \in Running
  BY ReadsType DEF ServiceRestart, ServiceStop, Booted, Running, IInv, TypeOK
<1> QED BY <1>1, <1>2 DEF ServiceRestart, ServiceStop, IInv, TypeOK, BackupsGood

-----------------------------------------------------------------------------
\* The commands of a handler.
LEMMA SaveStep ==
  ASSUME IInv, NEW h \in Handler, Save(h)
  PROVE  IInv'
<1>1. /\ task' \in [Handler -> Task] /\ \A k \in Handler : Good(task'[k])
      /\ outcome' \in [Handler -> {"none", "ok", "failed"}]
  <2>1. CASE Goto(h, "preview", "-") /\ UNCHANGED outcome
    BY <2>1, GotoGood DEF Verb, IInv, TypeOK
  <2>2. CASE Ends(h, "ok") \/ Ends(h, "none")
    BY <2>2, EndsGood
  <2> QED BY <2>1, <2>2 DEF Save
<1>2. task[h].doc \in Docs /\ NoClash(task[h].doc)
  BY DEF IInv, TypeOK, Task, Good
<1>3. stateFile' \in Docs /\ NoClash(stateFile')
  BY <1>2 DEF Save, IInv, TypeOK
<1>4. managed' \in Managed
  BY EnsuredType DEF Save, IInv, TypeOK
<1> QED BY <1>1, <1>3, <1>4 DEF Save, IInv, TypeOK, BackupsGood

LEMMA PreviewStep ==
  ASSUME IInv, NEW h \in Handler, Preview(h)
  PROVE  IInv'
<1> DEFINE t == [NoTask EXCEPT !.verb = "dirs", !.op = "apply",
                               !.preview = Render(stateFile), !.was = managed]
<1>1. Render(stateFile) \in Config
  BY RenderType DEF IInv, TypeOK
<1>2. t \in Task /\ Good(t)
  BY <1>1, NoTaskGood DEF Task, Good, Located, NoTask, Verb, Op, IInv, TypeOK
<1>3. /\ task' \in [Handler -> Task] /\ \A k \in Handler : Good(task'[k])
      /\ outcome' \in [Handler -> {"none", "ok", "failed"}]
  <2>1. CASE Renderable(stateFile)
    <3>1. task' = [task EXCEPT ![h] = t]
      BY <2>1 DEF Preview
    <3>2. outcome' = [outcome EXCEPT ![h] = "none"]
      BY <2>1 DEF Preview
    <3> QED BY <1>1, <1>2, <2>1, <3>1, <3>2, TaskSet DEF Preview, IInv, TypeOK
  <2>2. CASE ~Renderable(stateFile)
    BY <2>2, EndsGood DEF Preview, IInv, TypeOK
  <2> QED BY <2>1, <2>2
<1> QED BY <1>3 DEF Preview, IInv, TypeOK, BackupsGood, disk

LEMMA DirsStep ==
  ASSUME IInv, NEW h \in Handler, Dirs(h)
  PROVE  IInv'
<1> DEFINE t == IF task[h].op = "apply"
                THEN [task[h] EXCEPT !.verb = "backup", !.part = "http", !.bid = now]
                ELSE [task[h] EXCEPT !.verb = "write", !.part = "acme"]
<1>1. task[h] \in Task /\ Good(task[h]) /\ now \in Second
  BY DEF IInv, TypeOK
<1>2. t \in Task /\ Good(t)
  <2>1. CASE task[h].op = "apply"
    BY <1>1, <2>1 DEF Task, Good, Located, Verb, Part
  <2>2. CASE task[h].op # "apply"
    BY <1>1, <2>2 DEF Task, Good, Located, Verb
  <2> QED BY <2>1, <2>2
<1>3. task' = [task EXCEPT ![h] = t]
  BY DEF Dirs
<1>4. task' \in [Handler -> Task] /\ \A k \in Handler : Good(task'[k])
  BY <1>2, <1>3, TaskSet
<1>5. managed' \in Managed
  BY EnsuredType DEF Dirs, IInv, TypeOK
<1> QED BY <1>4, <1>5 DEF Dirs, IInv, TypeOK, BackupsGood

\* A copy yields one of the two directories it is given.
LEMMA CopiesType ==
  ASSUME NEW m \in Managed, NEW n \in Managed, NEW p \in Part,
         NEW copy \in Copies(m[p], n[p])
  PROVE  [n EXCEPT ![p] = copy] \in Managed
  BY DEF Copies, Copied, Managed

LEMMA BackupStep ==
  ASSUME IInv, NEW h \in Handler, Backup(h)
  PROVE  IInv'
<1>1. /\ task' \in [Handler -> Task] /\ \A k \in Handler : Good(task'[k])
      /\ outcome' \in [Handler -> {"none", "ok", "failed"}]
  BY GotoGood DEF Backup, Part, Verb, IInv, TypeOK
<1> DEFINE b == task[h].bid
           p == task[h].part
<1>2. b \in Second /\ p \in Part
  BY DEF IInv, TypeOK, Task, Good, Located, Backup, At
<1>3. PICK copy \in Copies(managed[p], backups[b].parts[p]) :
         backups' = [backups EXCEPT ![b].taken = TRUE, ![b].parts[p] = copy]
  BY DEF Backup
<1>4. backups[b].parts \in Managed /\ managed \in Managed
  BY <1>2 DEF IInv, TypeOK
<1>5. [backups[b].parts EXCEPT ![p] = copy] \in Managed
  BY <1>2, <1>4, CopiesType
<1>6. backups' = [backups EXCEPT ![b] =
         [@ EXCEPT !.taken = TRUE, !.parts = [backups[b].parts EXCEPT ![p] = copy]]]
  BY <1>2, <1>3 DEF IInv, TypeOK
<1>7. /\ backups' \in [Second -> [taken : BOOLEAN, parts : Managed, doc : {Absent} \cup Docs]]
      /\ \A s \in Second : backups'[s].doc = backups[s].doc
  BY <1>2, <1>5, <1>6 DEF IInv, TypeOK
<1> QED BY <1>1, <1>7 DEF Backup, IInv, TypeOK, BackupsGood

LEMMA BackupDocStep ==
  ASSUME IInv, NEW h \in Handler, BackupDoc(h)
  PROVE  IInv'
<1> DEFINE t == [task[h] EXCEPT !.verb = "write", !.part = "acme", !.doc = stateFile]
<1>1. task[h] \in Task /\ Good(task[h]) /\ stateFile \in Docs /\ NoClash(stateFile)
  BY DEF IInv, TypeOK
<1>2. t \in Task /\ Good(t)
  BY <1>1 DEF Task, Good, Located, Verb, Part
<1>3. task' = [task EXCEPT ![h] = t]
  BY DEF BackupDoc
<1>4. task' \in [Handler -> Task] /\ \A k \in Handler : Good(task'[k])
  BY <1>2, <1>3, TaskSet
<1>5. task[h].bid \in Second
  BY <1>1 DEF Task
<1>6. /\ backups' \in [Second -> [taken : BOOLEAN, parts : Managed, doc : {Absent} \cup Docs]]
      /\ \A s \in Second : backups'[s].doc \in {backups[s].doc, stateFile}
  <2>1. CASE backups' = [backups EXCEPT ![task[h].bid].doc = stateFile]
    BY <1>1, <1>5, <2>1 DEF IInv, TypeOK
  <2>2. CASE UNCHANGED backups
    BY <2>2 DEF IInv, TypeOK
  <2> QED BY <2>1, <2>2 DEF BackupDoc
<1>7. \A s \in Second : backups'[s].doc # Absent => NoClash(backups'[s].doc)
  BY <1>1, <1>6 DEF IInv, BackupsGood
<1> QED BY <1>4, <1>6, <1>7 DEF BackupDoc, IInv, TypeOK, BackupsGood

\* Every file written leaves the directories well typed.
LEMMA WrittenType ==
  ASSUME managed \in Managed, NEW t \in Task, t.part \in Part \cup {"acme"}
  PROVE  Written(t) \in Managed
<1>1. t.preview \in Config /\ Serve(managed)["http"] \in SUBSET Entry
  BY EnsuredType DEF Task, Config, Part
<1>2. Bootstrap \in Entry
  BY DEF Entry
<1>3. CASE t.part = "acme"
  <2>1. Serve(managed)["http"] \cup {Bootstrap} \in SUBSET Entry
    BY <1>1, <1>2
  <2> QED BY <1>3, <2>1 DEF Written, Managed, Part
<1>4. CASE t.part = "http"
  <2>1. t.preview["http"] \cup (Serve(managed)["http"] \cap {Bootstrap}) \in SUBSET Entry
    BY <1>1 DEF Config, Part
  <2> QED BY <1>4, <2>1 DEF Written, Managed, Part
<1>5. CASE t.part = "stream"
  BY <1>1, <1>5 DEF Written, Managed, Config, Part
<1> QED BY <1>3, <1>4, <1>5 DEF Part

LEMMA WriteStep ==
  ASSUME IInv, NEW h \in Handler, Write(h)
  PROVE  IInv'
<1>0. task[h].part \in Part \cup {"acme"} /\ task[h] \in Task
  BY DEF IInv, TypeOK, Good, Located, Write, At
<1>1. /\ task' \in [Handler -> Task] /\ \A k \in Handler : Good(task'[k])
      /\ outcome' \in [Handler -> {"none", "ok", "failed"}]
  <2>1. CASE Ends(h, "failed")
    BY <2>1, EndsGood
  <2>2. ASSUME NEW v \in {"write", "look", "test"}, NEW p \in Part \cup {"-"}, Goto(h, v, p),
               v = "write" => p \in Part, UNCHANGED outcome
        PROVE  /\ task' \in [Handler -> Task] /\ \A k \in Handler : Good(task'[k])
               /\ outcome' \in [Handler -> {"none", "ok", "failed"}]
    BY <2>2, GotoGood DEF Verb, IInv, TypeOK
  <2> QED BY <1>0, <2>1, <2>2 DEF Write, Part
<1>2. managed' \in Managed
  BY <1>0, WrittenType DEF Write, IInv, TypeOK
<1> QED BY <1>1, <1>2 DEF Write, IInv, TypeOK, BackupsGood

LEMMA LookStep ==
  ASSUME IInv, NEW h \in Handler, Look(h)
  PROVE  IInv'
<1>1. /\ task' \in [Handler -> Task] /\ \A k \in Handler : Good(task'[k])
      /\ outcome' \in [Handler -> {"none", "ok", "failed"}]
  <2>1. CASE (Goto(h, "test", "-") \/ Goto(h, "hide", "-")) /\ UNCHANGED outcome
    BY <2>1, GotoGood DEF Verb, IInv, TypeOK
  <2>2. CASE Ends(h, "failed")
    BY <2>2, EndsGood
  <2> QED BY <2>1, <2>2 DEF Look
<1> QED BY <1>1 DEF Look, IInv, TypeOK, BackupsGood, disk

LEMMA HideStep ==
  ASSUME IInv, NEW h \in Handler, Hide(h)
  PROVE  IInv'
<1>1. /\ task' \in [Handler -> Task] /\ \A k \in Handler : Good(task'[k])
      /\ outcome' \in [Handler -> {"none", "ok", "failed"}]
  <2>1. CASE Goto(h, "test", "-") /\ UNCHANGED outcome
    BY <2>1, GotoGood DEF Verb, IInv, TypeOK
  <2>2. CASE Ends(h, "failed")
    BY <2>2, EndsGood
  <2> QED BY <2>1, <2>2 DEF Hide
<1>2. Serve(managed)["http"] \ {Bootstrap} \in SUBSET Entry
  BY EnsuredType DEF IInv, TypeOK, Config, Part
<1>3. managed' \in Managed
  BY <1>2 DEF Hide, IInv, TypeOK, Managed, Part
<1> QED BY <1>1, <1>3 DEF Hide, IInv, TypeOK, BackupsGood

\* After a failure a handler restores, or it is done.
LEMMA FailsGood ==
  ASSUME IInv, NEW h \in Handler, NEW u \in {"undo", "undo_reload"}, Fails(h, u)
  PROVE  /\ task' \in [Handler -> Task] /\ \A k \in Handler : Good(task'[k])
         /\ outcome' \in [Handler -> {"none", "ok", "failed"}]
<1>1. CASE task[h].op = "apply"
  <2> DEFINE t == [task[h] EXCEPT !.verb = "rm", !.part = "http", !.op = u]
  <2>1. task[h] \in Task /\ Good(task[h])
    BY DEF IInv, TypeOK
  <2>2. t \in Task /\ Good(t)
    BY <2>1 DEF Task, Good, Located, Verb, Part, Op
  <2>3. task' = [task EXCEPT ![h] = t] /\ UNCHANGED outcome
    BY <1>1 DEF Fails
  <2> QED BY <2>2, <2>3, TaskSet DEF IInv, TypeOK
<1>2. CASE task[h].op # "apply"
  BY <1>2, EndsGood DEF Fails
<1> QED BY <1>1, <1>2

\* nginx runs what the directories hold, or what it ran.
LEMMA LoadType ==
  ASSUME IInv, Loads \/ LoadFails
  PROVE  running' \in Running
  BY ReadsType DEF Loads, LoadFails, IInv, TypeOK

LEMMA TestStep ==
  ASSUME IInv, NEW h \in Handler, Test(h)
  PROVE  IInv'
<1>1. /\ task' \in [Handler -> Task] /\ \A k \in Handler : Good(task'[k])
      /\ outcome' \in [Handler -> {"none", "ok", "failed"}]
  <2>1. CASE Goto(h, "reload", "-") /\ UNCHANGED outcome
    BY <2>1, GotoGood DEF Verb, IInv, TypeOK
  <2>2. CASE Fails(h, "undo")
    BY <2>2, FailsGood
  <2> QED BY <2>1, <2>2 DEF Test
<1> QED BY <1>1 DEF Test, IInv, TypeOK, BackupsGood, disk

LEMMA ReloadStep ==
  ASSUME IInv, NEW h \in Handler, Reload(h)
  PROVE  IInv'
<1>1. /\ task' \in [Handler -> Task] /\ \A k \in Handler : Good(task'[k])
      /\ outcome' \in [Handler -> {"none", "ok", "failed"}]
  <2>1. CASE LoadFails /\ Fails(h, "undo_reload")
    BY <2>1, FailsGood
  <2>2. CASE Goto(h, "finish", "-") /\ UNCHANGED outcome
    BY <2>2, GotoGood DEF Verb, IInv, TypeOK
  <2>3. CASE /\ task' = [task EXCEPT ![h].verb = "finish", ![h].doc = stateFile]
             /\ UNCHANGED outcome
    <3> DEFINE t == [task[h] EXCEPT !.verb = "finish", !.doc = stateFile]
    <3>1. task[h] \in Task /\ stateFile \in Docs /\ NoClash(stateFile)
      BY DEF IInv, TypeOK
    <3>2. t \in Task
      BY <3>1 DEF Task, Verb
    <3>3. t.verb = "finish" /\ t.doc = stateFile
      BY <3>1 DEF Task
    <3>4. Good(t)
      BY <3>1, <3>3 DEF Good, Located
    <3>5. task' = [task EXCEPT ![h] = t]
      BY <2>3
    <3> QED BY <2>3, <3>2, <3>4, <3>5, TaskSet DEF IInv, TypeOK
  <2>4. CASE Ends(h, "ok")
    BY <2>4, EndsGood
  <2> QED BY <2>1, <2>2, <2>3, <2>4 DEF Reload
<1>2. running' \in Running
  BY LoadType DEF Reload
<1>3. managed' \in Managed
  BY EnsuredType DEF Reload, IInv, TypeOK
<1> QED BY <1>1, <1>2, <1>3 DEF Reload, IInv, TypeOK, BackupsGood

LEMMA FinishStep ==
  ASSUME IInv, NEW h \in Handler, Finish(h)
  PROVE  IInv'
<1>1. /\ task' \in [Handler -> Task] /\ \A k \in Handler : Good(task'[k])
      /\ outcome' \in [Handler -> {"none", "ok", "failed"}]
  BY EndsGood DEF Finish
<1>2. task[h].doc \in Docs /\ NoClash(task[h].doc)
  BY DEF IInv, TypeOK, Task, Good
<1>3. stateFile' \in Docs /\ NoClash(stateFile')
  BY <1>2 DEF Finish, IInv, TypeOK
<1>4. managed' \in Managed
  BY EnsuredType DEF Finish, IInv, TypeOK
<1> QED BY <1>1, <1>3, <1>4 DEF Finish, IInv, TypeOK, BackupsGood

LEMMA RemoveStep ==
  ASSUME IInv, NEW h \in Handler, Remove(h)
  PROVE  IInv'
<1>1. task[h].part \in Part /\ task[h].op \in {"undo", "undo_reload", "rollback"}
  BY DEF Remove, At, IInv, TypeOK, Good, Located
<1>2. task' \in [Handler -> Task] /\ \A k \in Handler : Good(task'[k])
  BY <1>1, GotoGood DEF Remove, Part, Verb
<1>3. managed' \in Managed
  BY <1>1 DEF Remove, IInv, TypeOK, Managed
<1> QED BY <1>2, <1>3 DEF Remove, IInv, TypeOK, BackupsGood

LEMMA CopyBackStep ==
  ASSUME IInv, NEW h \in Handler, CopyBack(h)
  PROVE  IInv'
<1> DEFINE p == task[h].part
           last == p = "stream" /\ task[h].op = "undo"
<1>1. /\ p \in Part /\ task[h].op \in {"undo", "undo_reload", "rollback"}
      /\ task[h].bid \in Second
  BY DEF CopyBack, At, IInv, TypeOK, Good, Located, Task
<1>2. /\ task' \in [Handler -> Task] /\ \A k \in Handler : Good(task'[k])
      /\ outcome' \in [Handler -> {"none", "ok", "failed"}]
  <2>1. CASE last
    BY <2>1, EndsGood DEF CopyBack
  <2>2. CASE p = "http"
    <3>1. Goto(h, "cp", "stream") /\ UNCHANGED outcome
      BY <2>2 DEF CopyBack
    <3> QED BY <1>1, <3>1, GotoGood DEF Part, Verb, IInv, TypeOK
  <2>3. CASE p = "stream" /\ task[h].op = "rollback"
    <3>1. Goto(h, "cp_doc", "-") /\ UNCHANGED outcome
      BY <2>3 DEF CopyBack
    <3> QED BY <3>1, GotoGood DEF Verb, IInv, TypeOK
  <2>4. CASE p = "stream" /\ task[h].op = "undo_reload"
    <3>1. Goto(h, "reload_again", "-") /\ UNCHANGED outcome
      BY <2>4 DEF CopyBack
    <3> QED BY <3>1, GotoGood DEF Verb, IInv, TypeOK
  <2> QED BY <1>1, <2>1, <2>2, <2>3, <2>4 DEF Part
<1>3. PICK copy \in Copies(backups[task[h].bid].parts[p], managed[p]) :
         LET m == [managed EXCEPT ![p] = copy]
         IN  managed' = IF last THEN Ensured(m) ELSE m
  BY DEF CopyBack
<1>4. [managed EXCEPT ![p] = copy] \in Managed
  BY <1>1, CopiesType DEF IInv, TypeOK
<1>5. managed' \in Managed
  BY <1>3, <1>4, EnsuredType
<1> QED BY <1>2, <1>5 DEF CopyBack, IInv, TypeOK, BackupsGood

LEMMA CopyDocStep ==
  ASSUME IInv, NEW h \in Handler, CopyDoc(h)
  PROVE  IInv'
<1>1. task' \in [Handler -> Task] /\ \A k \in Handler : Good(task'[k])
  BY GotoGood DEF CopyDoc, Verb
<1>2. task[h].bid \in Second
  BY DEF IInv, TypeOK, Task
<1>3. stateFile' \in Docs /\ NoClash(stateFile')
  BY <1>2 DEF CopyDoc, IInv, TypeOK, BackupsGood
<1> QED BY <1>1, <1>3 DEF CopyDoc, IInv, TypeOK, BackupsGood

LEMMA ReloadAgainStep ==
  ASSUME IInv, NEW h \in Handler, ReloadAgain(h)
  PROVE  IInv'
<1>1. /\ task' \in [Handler -> Task] /\ \A k \in Handler : Good(task'[k])
      /\ outcome' \in [Handler -> {"none", "ok", "failed"}]
  BY EndsGood DEF ReloadAgain
<1>2. running' \in Running /\ managed' \in Managed
  BY LoadType, EnsuredType DEF ReloadAgain, IInv, TypeOK
<1> QED BY <1>1, <1>2 DEF ReloadAgain, IInv, TypeOK, BackupsGood

LEMMA RemoveCertStep ==
  ASSUME IInv, NEW h \in Handler, RemoveCert(h)
  PROVE  IInv'
<1>1. /\ task' \in [Handler -> Task] /\ \A k \in Handler : Good(task'[k])
      /\ outcome' \in [Handler -> {"none", "ok", "failed"}]
  BY EndsGood DEF RemoveCert
<1>2. managed' \in Managed
  BY EnsuredType DEF RemoveCert, IInv, TypeOK
<1> QED BY <1>1, <1>2 DEF RemoveCert, IInv, TypeOK, BackupsGood

LEMMA CreateBackupStep ==
  ASSUME IInv, NEW h \in Handler, CreateBackup(h)
  PROVE  IInv'
  BY EdgeAssumption, EnsuredType DEF CreateBackup, IInv, TypeOK, BackupsGood

LEMMA EnvironmentStep ==
  ASSUME IInv, Crash \/ Tick \/ Others
  PROVE  IInv'
<1>1. CASE Crash
  <2>1. running' \in Running
    BY <1>1, ReadsType DEF Crash, Booted, Running, IInv, TypeOK
  <2>2. /\ task' \in [Handler -> Task] /\ \A k \in Handler : Good(task'[k])
        /\ outcome' \in [Handler -> {"none", "ok", "failed"}]
    BY <1>1, NoTaskGood DEF Crash
  <2> QED BY <1>1, <2>1, <2>2 DEF Crash, IInv, TypeOK, BackupsGood, disk
<1>2. CASE Tick
  BY <1>2, EdgeAssumption DEF Tick, IInv, TypeOK, BackupsGood, disk, Second
<1>3. CASE Others
  BY <1>3 DEF Others, IInv, TypeOK, BackupsGood, disk
<1> QED BY <1>1, <1>2, <1>3

-----------------------------------------------------------------------------
LEMMA InitInductive == Init => IInv
<1> SUFFICES ASSUME Init PROVE IInv
  OBVIOUS
<1>1. Missing \in Managed /\ Empty \in Config /\ 1 \in Second
  BY EdgeAssumption DEF Missing, Managed, Empty, Config, Second
<1>2. running \in Running
  BY <1>1, ReadsType DEF Init, Booted, Running
<1>3. TypeOK
  BY <1>1, <1>2, NoTaskGood DEF Init, TypeOK, NoBackup, Docs
<1>4. BackupsGood
  BY DEF Init, BackupsGood, NoBackup
<1> QED BY <1>3, <1>4, NoTaskGood, EmptyNoClash DEF Init, IInv

LEMMA NextInductive == IInv /\ [Next]_vars => IInv'
<1> SUFFICES ASSUME IInv, [Next]_vars PROVE IInv'
  OBVIOUS
<1>1. ASSUME NEW h \in Handler, Request(h) PROVE IInv'
  BY <1>1, UpsertStep, DeleteRouteStep, RollbackStep, PlainRequestStep, ServiceStep,
     CreateBackupStep
  DEF Request
<1>2. ASSUME NEW h \in Handler, Step(h) PROVE IInv'
  BY <1>2, SaveStep, PreviewStep, DirsStep, BackupStep, BackupDocStep, WriteStep,
     LookStep, HideStep, TestStep, ReloadStep, FinishStep, RemoveStep, CopyBackStep, CopyDocStep,
     ReloadAgainStep, RemoveCertStep
  DEF Step
<1>3. CASE Crash \/ Tick \/ Others
  BY <1>3, EnvironmentStep
<1>4. CASE UNCHANGED vars
  BY <1>4 DEF vars, disk, IInv, TypeOK, BackupsGood
<1> QED BY <1>1, <1>2, <1>3, <1>4 DEF Next

\* Every reachable state of the edge module is well typed: every command of every
\* handler leaves documents, directories and backups of the shape the next one
\* expects.
THEOREM EdgeTypeCorrect == Spec => []TypeOK
<1>1. IInv => TypeOK
  BY DEF IInv
<1> QED BY <1>1, InitInductive, NextInductive, PTL DEF Spec

\* For any number of concurrent requests, failures, crashes and rollbacks, the
\* saved document never holds two enabled routes that refuse each other.
THEOREM EdgeRoutesDoNotClash == Spec => []SavedRoutesDoNotClash
<1>1. IInv => SavedRoutesDoNotClash
  BY DEF IInv, NoClash, SavedRoutesDoNotClash
<1> QED BY <1>1, InitInductive, NextInductive, PTL DEF Spec
-----------------------------------------------------------------------------
(***************************************************************************)
(* One request at a time.                                                  *)
(***************************************************************************)
OneHandler == \A h, k \in Handler : h = k

LEMMA GotoIs ==
  ASSUME IInv, NEW h \in Handler, NEW v, NEW p, Goto(h, v, p)
  PROVE  /\ task'[h].verb = v /\ task'[h].part = p
         /\ task'[h].op = task[h].op /\ task'[h].doc = task[h].doc
         /\ task'[h].preview = task[h].preview /\ task'[h].bid = task[h].bid
         /\ task'[h].was = task[h].was
<1>1. task[h] \in Task /\ task \in [Handler -> Task]
  BY DEF IInv, TypeOK
<1>2. task'[h] = [task[h] EXCEPT !.verb = v, !.part = p]
  BY <1>1 DEF Goto
<1> QED BY <1>1, <1>2 DEF Task

LEMMA EndsIs ==
  ASSUME IInv, NEW h \in Handler, NEW r, Ends(h, r)
  PROVE  task'[h].op = "none" /\ task'[h].verb = "idle" /\ outcome'[h] = r
BY DEF Ends, NoTask, IInv, TypeOK

LEMMA BeginsIs ==
  ASSUME IInv, NEW h \in Handler, NEW t, Begins(h, t)
  PROVE  task'[h] = t /\ task[h].verb = "idle"
BY DEF Begins, Idle, IInv, TypeOK

\* The directories as nginx reads them.
LEMMA ServeIs ==
  ASSUME NEW m \in Managed, NEW p \in Part
  PROVE  /\ Serve(m)[p] # Absent /\ Serve(m)[p] \in SUBSET Entry
         /\ m[p] # Absent => Serve(m)[p] = m[p]
         /\ m[p] = Absent => Serve(m)[p] = {}
BY RouteAssumption DEF Serve, Managed

LEMMA ConfigEqual ==
  ASSUME NEW c \in Config, NEW d \in Config, \A p \in Part : c[p] = d[p]
  PROVE  c = d
BY DEF Config

\* A configuration on disk is what nginx reads.
LEMMA ServeConfig ==
  ASSUME NEW m \in Managed, NEW c \in Config, \A p \in Part : m[p] = c[p]
  PROVE  Serve(m) = c
<1>1. \A p \in Part : Serve(m)[p] = c[p]
  BY RouteAssumption DEF Config, Serve
<1> QED BY <1>1, EnsuredType, ConfigEqual

LEMMA ServeTwice ==
  ASSUME NEW m \in Managed
  PROVE  Serve(Serve(m)) = Serve(m)
<1>1. Serve(m) \in Managed /\ Serve(m) \in Config
  BY EnsuredType DEF Ensured
<1> QED BY <1>1, ServeConfig

-----------------------------------------------------------------------------
(***************************************************************************)
(* A successful apply: the preview is the rendering of the document all     *)
(* along, because nothing else saves one; it comes to the disk part by part *)
(* and from there to nginx. Where another process holds a public port, what  *)
(* else listens on port 80 is gone before nginx is tested, so that only the  *)
(* ports of the routes can keep nginx from following.                       *)
(***************************************************************************)
Rendered == {"dirs", "backup", "backup_doc", "write", "look", "hide", "test", "reload", "finish"}
Loaded == {"write", "look", "hide", "test", "reload", "finish"}

HttpOnDisk(t) == Serve(managed)["http"] \ {Bootstrap} = t.preview["http"]
OnDisk(t) == HttpOnDisk(t) /\ Serve(managed)["stream"] = t.preview["stream"]
Cleared == held \cap Public # {} => ~distro /\ Bootstrap \notin Serve(managed)["http"]
Served(t) ==
    TcpPorts(t.preview) \cap held = {} => running # Down /\ Routes(running) = t.preview

Applying(t) ==
    t.op = "apply" =>
        /\ t.verb \in {"save", "preview"} \cup Rendered
        /\ t.verb \in Rendered => t.preview = Render(stateFile)
        /\ t.verb \in Loaded => t.doc = stateFile
        /\ t.verb = "write" /\ t.part = "stream" => HttpOnDisk(t)
        /\ t.verb \in {"look", "hide", "test", "reload"} => OnDisk(t)
        /\ t.verb = "hide" => ~distro
        /\ t.verb \in {"test", "reload"} => Cleared
        /\ t.verb = "finish" => Served(t)

ApplyInv == \A h \in Handler : Applying(task[h])

\* The listeners of port 80 are no routes.
LEMMA OwnListeners ==
  /\ Bootstrap \notin RouteBody /\ Distro \notin RouteBody /\ Bootstrap # Distro
  /\ Bootstrap.port = 80 /\ Distro.port = 80
<1>1. Bootstrap.id = "00-acme" /\ Distro.id = "default" /\ Bootstrap.port = 80 /\ Distro.port = 80
  BY DEF Bootstrap, Distro
<1> QED BY <1>1, RouteAssumption

\* If no port of the routes is held, nginx can listen and serves the routes.
LEMMA DiskServes ==
  ASSUME managed \in Managed, stateFile \in Docs, NEW t, t.preview = Render(stateFile),
         OnDisk(t), Cleared, TcpPorts(t.preview) \cap held = {}
  PROVE  Binds /\ Routes(Reads) = t.preview
<1>1. /\ t.preview = [p \in Part |-> t.preview[p]]
      /\ t.preview["http"] \subseteq RouteBody /\ t.preview["stream"] \subseteq RouteBody
  BY DEF Render, Docs, Part
<1>2. /\ Reads["http"] = Serve(managed)["http"] \cup (IF distro THEN {Distro} ELSE {})
      /\ Reads["stream"] = Serve(managed)["stream"]
  BY DEF Reads, Part
<1>3. Routes(Reads)["http"] = t.preview["http"] /\ Routes(Reads)["stream"] = t.preview["stream"]
  BY <1>1, <1>2, OwnListeners DEF Routes, OnDisk, HttpOnDisk, Part
<1>4. Routes(Reads) = t.preview
  BY <1>1, <1>3 DEF Routes, Part
<1>5. ASSUME NEW r \in Reads["http"] \cup Reads["stream"], r.type # "udp", r.port \in held
      PROVE  FALSE
  <2>1. r \notin t.preview["http"] \cup t.preview["stream"]
    BY <1>5 DEF TcpPorts
  <2>2. \/ r = Bootstrap /\ Bootstrap \in Serve(managed)["http"]
        \/ r = Distro /\ distro
    BY <1>2, <1>5, <2>1 DEF OnDisk, HttpOnDisk
  <2>3. 80 \in held
    BY <1>5, <2>2, OwnListeners
  <2> QED BY <2>2, <2>3 DEF Cleared, Public
<1>6. Binds
  BY <1>5 DEF Binds, TcpPorts
<1> QED BY <1>4, <1>6

LEMMA NotApplying ==
  ASSUME OneHandler, NEW h \in Handler, task'[h].op # "apply"
  PROVE  ApplyInv'
BY DEF OneHandler, ApplyInv, Applying

LEMMA IdleIsNotApplying ==
  ASSUME ApplyInv, NEW h \in Handler, Idle(h)
  PROVE  task[h].op # "apply"
BY DEF ApplyInv, Applying, Idle, Rendered

LEMMA RequestApplies ==
  ASSUME IInv, ApplyInv, OneHandler, NEW h \in Handler, Request(h)
  PROVE  ApplyInv'
<1>1. ASSUME NEW t \in Task, Begins(h, t), t.op # "apply" \/ t.verb = "save"
      PROVE  ApplyInv'
  BY <1>1, BeginsIs DEF OneHandler, ApplyInv, Applying, Rendered, Loaded
<1>2. ASSUME UNCHANGED task, Idle(h) PROVE ApplyInv'
  BY <1>2, IdleIsNotApplying, NotApplying
<1>3. ASSUME NEW o \in {"save", "apply"}, NEW r \in RouteBody, Upsert(h, r, o)
      PROVE  ApplyInv'
  <2>1. With(stateFile, r) \in Docs
    BY DEF IInv, TypeOK, Docs, With
  <2>2. [NoTask EXCEPT !.verb = "save", !.op = o, !.doc = With(stateFile, r)] \in Task
    BY <2>1, NoTaskGood DEF Task, Verb, Op
  <2> QED BY <1>1, <1>3, <2>2, NoTaskGood DEF Upsert, NoTask
<1>4. ASSUME NEW o \in {"save", "apply"}, NEW i, DeleteRoute(h, i, o)
      PROVE  ApplyInv'
  <2>1. {r \in stateFile : r.id # i} \in Docs
    BY DEF IInv, TypeOK, Docs
  <2>2. [NoTask EXCEPT !.verb = "save", !.op = o, !.doc = {r \in stateFile : r.id # i}] \in Task
    BY <2>1, NoTaskGood DEF Task, Verb, Op
  <2> QED BY <1>1, <1>4, <2>2, NoTaskGood DEF DeleteRoute, NoTask
<1>5. ASSUME NEW b \in Listed, Rollback(h, b) PROVE task'[h].op # "apply"
  <2>1. PICK t : t = [NoTask EXCEPT !.verb = "rm", !.part = "http", !.op = "rollback",
                                    !.bid = b.at]
    OBVIOUS
  <2>2. t.op = "rollback"
    BY <2>1 DEF NoTask
  <2> QED BY <1>5, <2>1, <2>2, BeginsIs DEF Rollback
<1>6. ASSUME AcmeStart(h) \/ RenewStart(h) \/ ReloadStart(h) PROVE task'[h].op # "apply"
  <2>1. PICK t, u, v : /\ t = [NoTask EXCEPT !.verb = "dirs", !.op = "acme"]
                       /\ u = [NoTask EXCEPT !.verb = "test", !.op = "renew"]
                       /\ v = [NoTask EXCEPT !.verb = "reload", !.op = "reload"]
    OBVIOUS
  <2>2. t.op = "acme" /\ u.op = "renew" /\ v.op = "reload"
    BY <2>1 DEF NoTask
  <2>3. Begins(h, t) \/ Begins(h, u) \/ Begins(h, v)
    BY <1>6, <2>1 DEF AcmeStart, RenewStart, ReloadStart
  <2> QED BY <2>2, <2>3, BeginsIs
<1>7. ASSUME NEW c \in Cert, DeleteCert(h, c) PROVE task'[h].op # "apply"
  <2>1. PICK t : t = [NoTask EXCEPT !.verb = "rm_cert", !.op = "delete_cert", !.cert = c]
    OBVIOUS
  <2>2. t.op = "delete_cert"
    BY <2>1 DEF NoTask
  <2> QED BY <1>7, <2>1, <2>2, BeginsIs DEF DeleteCert
<1>8. ASSUME ServiceRestart(h) \/ ServiceStop(h) \/ CreateBackup(h) PROVE ApplyInv'
  BY <1>2, <1>8 DEF ServiceRestart, ServiceStop, CreateBackup
<1> QED BY <1>3, <1>4, <1>5, <1>6, <1>7, <1>8, NotApplying DEF Request

LEMMA StepApplies ==
  ASSUME IInv, ApplyInv, OneHandler, "look" \notin Faults, NEW h \in Handler, Step(h)
  PROVE  ApplyInv'
<1> DEFINE t == task[h]
<1>1. t \in Task /\ task \in [Handler -> Task] /\ managed \in Managed /\ stateFile \in Docs
  BY DEF IInv, TypeOK
<1>2. SUFFICES ASSUME task'[h].op = "apply" PROVE Applying(task[h])'
  BY NotApplying DEF OneHandler, ApplyInv
<1>3. Applying(t) /\ Located(t)
  BY DEF ApplyInv, IInv, Good
<1>4. CASE Save(h)
  <2>1. Goto(h, "preview", "-")
    BY <1>2, <1>4, EndsIs DEF Save
  <2> QED BY <2>1, GotoIs DEF Applying, Rendered, Loaded
<1>5. CASE Preview(h)
  <2>1. /\ task'[h] = [NoTask EXCEPT !.verb = "dirs", !.op = "apply",
                                     !.preview = Render(stateFile), !.was = managed]
        /\ stateFile' = stateFile
    BY <1>1, <1>2, <1>5, EndsIs DEF Preview, disk
  <2>2. /\ task'[h].verb = "dirs" /\ task'[h].preview = Render(stateFile)
    BY <2>1 DEF NoTask
  <2> QED BY <2>1, <2>2 DEF Applying, Rendered, Loaded, Render
<1>6. CASE Dirs(h)
  <2>1. task'[h] = IF t.op = "apply"
                   THEN [t EXCEPT !.verb = "backup", !.part = "http", !.bid = now]
                   ELSE [t EXCEPT !.verb = "write", !.part = "acme"]
    BY <1>1, <1>6 DEF Dirs
  <2>2. t.op = "apply"
    BY <1>1, <1>2, <2>1 DEF Task
  <2>3. task'[h].verb = "backup" /\ task'[h].preview = t.preview
    BY <1>1, <2>1, <2>2 DEF Task
  <2>4. t.preview = Render(stateFile) /\ stateFile' = stateFile
    BY <1>3, <1>6, <2>2 DEF Applying, Dirs, At, Rendered
  <2> QED BY <2>3, <2>4 DEF Applying, Rendered, Loaded, Render
<1>7. CASE Backup(h)
  <2>1. /\ Goto(h, "backup", "stream") \/ Goto(h, "backup_doc", "-")
        /\ stateFile' = stateFile /\ t.verb = "backup"
    BY <1>7 DEF Backup, At
  <2>2. /\ task'[h].verb \in {"backup", "backup_doc"} /\ task'[h].preview = t.preview
        /\ t.op = "apply"
    BY <1>2, <2>1, GotoIs
  <2> QED BY <1>3, <2>1, <2>2 DEF Applying, Rendered, Loaded, Render
<1>8. CASE BackupDoc(h)
  <2>1. task'[h] = [t EXCEPT !.verb = "write", !.part = "acme", !.doc = stateFile]
    BY <1>1, <1>8 DEF BackupDoc
  <2>2. /\ task'[h].verb = "write" /\ task'[h].part = "acme" /\ task'[h].doc = stateFile
        /\ task'[h].preview = t.preview /\ t.op = "apply"
    BY <1>1, <1>2, <2>1 DEF Task
  <2>3. stateFile' = stateFile /\ t.verb = "backup_doc"
    BY <1>8 DEF BackupDoc, At
  <2> QED BY <1>3, <2>2, <2>3 DEF Applying, Rendered, Loaded, Render
<1>9. CASE Write(h)
  <2>1. /\ managed' = Written(t) /\ stateFile' = stateFile /\ t.verb = "write"
        /\ t.part \in Part \cup {"acme"}
    BY <1>2, <1>3, <1>9, EndsIs DEF Write, At, Located
  <2>2. PICK v, p : /\ Goto(h, v, p)
                    /\ t.op # "acme" => \/ t.part = "acme" /\ v = "write" /\ p = "http"
                                        \/ t.part = "http" /\ v = "write" /\ p = "stream"
                                        \/ t.part = "stream" /\ v = "look" /\ p = "-"
    BY <1>2, <1>9, <2>1, EndsIs DEF Write, Part
  <2>3. /\ task'[h].verb = v /\ task'[h].part = p /\ task'[h].op = t.op
        /\ task'[h].preview = t.preview /\ task'[h].doc = t.doc
    BY <2>2, GotoIs
  <2>4. /\ t.op = "apply" /\ t.preview = Render(stateFile) /\ t.doc = stateFile
        /\ t.part = "stream" => HttpOnDisk(t)
    BY <1>2, <1>3, <2>1, <2>3 DEF Applying, Rendered, Loaded
  <2>5. Render(stateFile)' = Render(stateFile)
    BY <2>1 DEF Render
  <2>6. /\ t.preview["http"] \subseteq RouteBody /\ t.preview["stream"] \subseteq RouteBody
        /\ managed' \in Managed
    BY <1>1, <2>1, <2>4, WrittenType DEF Render, Docs, Part
  <2>7. CASE t.part = "acme"
    BY <2>1, <2>2, <2>3, <2>4, <2>5, <2>7 DEF Applying, Rendered, Loaded
  <2>8. CASE t.part = "http"
    <3>1. managed'["http"] = t.preview["http"] \cup (Serve(managed)["http"] \cap {Bootstrap})
      BY <1>1, <2>1, <2>8 DEF Written, Managed, Part
    <3>2. managed'["http"] # Absent
      BY <2>6, <3>1, RouteAssumption DEF Entry
    <3>3. Serve(managed')["http"] = managed'["http"]
      BY <3>2 DEF Serve, Part
    <3>4. Serve(managed')["http"] \ {Bootstrap} = t.preview["http"]
      BY <2>6, <3>1, <3>3, OwnListeners
    <3>5. HttpOnDisk(task[h])'
      BY <2>3, <3>4 DEF HttpOnDisk, Serve
    <3> QED BY <2>1, <2>2, <2>3, <2>4, <2>5, <2>8, <3>5 DEF Applying, Rendered, Loaded
  <2>9. CASE t.part = "stream"
    <3>1. managed'["stream"] = t.preview["stream"] /\ managed'["http"] = managed["http"]
      BY <1>1, <2>1, <2>9 DEF Written, Managed, Part
    <3>2. managed'["stream"] # Absent
      BY <2>6, <3>1, RouteAssumption DEF Entry
    <3>3. Serve(managed')["stream"] = t.preview["stream"] /\ Serve(managed')["http"] = Serve(managed)["http"]
      BY <3>1, <3>2 DEF Serve, Part
    <3>4. OnDisk(task[h])'
      BY <2>3, <2>4, <2>9, <3>3 DEF OnDisk, HttpOnDisk, Serve
    <3> QED BY <2>1, <2>2, <2>3, <2>4, <2>5, <2>9, <3>4 DEF Applying, Rendered, Loaded
  <2> QED BY <2>1, <2>7, <2>8, <2>9 DEF Part
<1>14. CASE Look(h)
  <2>1. /\ t.verb = "look" /\ UNCHANGED <<stateFile, managed, held>>
        /\ \/ held \cap Public = {} /\ Goto(h, "test", "-") /\ UNCHANGED distro
           \/ Goto(h, "hide", "-") /\ distro' = FALSE
    BY <1>2, <1>14, EndsIs DEF Look, At, disk
  <2>2. /\ task'[h].verb \in {"test", "hide"} /\ task'[h].op = t.op
        /\ task'[h].preview = t.preview /\ task'[h].doc = t.doc
        /\ task'[h].verb = "test" => held \cap Public = {}
        /\ task'[h].verb = "hide" => distro' = FALSE
    BY <2>1, GotoIs
  <2>3. t.preview = Render(stateFile) /\ t.doc = stateFile /\ OnDisk(t)
    BY <1>2, <1>3, <2>1, <2>2 DEF Applying, Rendered, Loaded
  <2>4. Render(stateFile)' = Render(stateFile) /\ OnDisk(task[h])'
    BY <2>1, <2>2, <2>3 DEF Render, OnDisk, HttpOnDisk, Serve
  <2>5. task'[h].verb = "test" => Cleared'
    BY <2>1, <2>2 DEF Cleared
  <2> QED BY <2>1, <2>2, <2>3, <2>4, <2>5 DEF Applying, Rendered, Loaded
<1>15. CASE Hide(h)
  <2>1. /\ t.verb = "hide" /\ UNCHANGED <<stateFile, held, distro>> /\ Goto(h, "test", "-")
        /\ managed' = [managed EXCEPT !["http"] = Serve(managed)["http"] \ {Bootstrap}]
    BY <1>2, <1>15, EndsIs DEF Hide, At
  <2>2. /\ task'[h].verb = "test" /\ task'[h].op = t.op
        /\ task'[h].preview = t.preview /\ task'[h].doc = t.doc
    BY <2>1, GotoIs
  <2>3. t.preview = Render(stateFile) /\ t.doc = stateFile /\ OnDisk(t) /\ ~distro
    BY <1>2, <1>3, <2>1, <2>2 DEF Applying, Rendered, Loaded
  <2>4. /\ managed'["http"] = Serve(managed)["http"] \ {Bootstrap}
        /\ managed'["stream"] = managed["stream"] /\ managed'["http"] # Absent
    <3>1. Serve(managed)["http"] \ {Bootstrap} \in SUBSET Entry
      BY <1>1, EnsuredType DEF Config, Part
    <3> QED BY <1>1, <2>1, <3>1, RouteAssumption DEF Managed, Part
  <2>5. /\ Serve(managed')["http"] = Serve(managed)["http"] \ {Bootstrap}
        /\ Serve(managed')["stream"] = Serve(managed)["stream"]
    BY <2>4 DEF Serve, Part
  <2>6. OnDisk(task[h])' /\ Cleared'
    BY <2>1, <2>2, <2>3, <2>5 DEF OnDisk, HttpOnDisk, Cleared, Serve
  <2>7. Render(stateFile)' = Render(stateFile)
    BY <2>1 DEF Render
  <2> QED BY <2>1, <2>2, <2>3, <2>6, <2>7 DEF Applying, Rendered, Loaded
<1>10. CASE Test(h)
  <2>1. Goto(h, "reload", "-")
    <3>1. CASE Fails(h, "undo")
      <4>1. CASE t.op = "apply"
        <5>1. task'[h] = [t EXCEPT !.verb = "rm", !.part = "http", !.op = "undo"]
          BY <1>1, <3>1, <4>1 DEF Fails
        <5> QED BY <1>1, <1>2, <5>1 DEF Task
      <4>2. CASE t.op # "apply"
        BY <1>2, <3>1, <4>2, EndsIs DEF Fails
      <4> QED BY <4>1, <4>2
    <3> QED BY <1>10, <3>1 DEF Test
  <2>2. /\ task'[h].verb = "reload" /\ task'[h].op = t.op /\ task'[h].preview = t.preview
        /\ task'[h].doc = t.doc
    BY <2>1, GotoIs
  <2>3. t.verb = "test" /\ UNCHANGED <<stateFile, managed, held, distro>>
    BY <1>10 DEF Test, At, disk
  <2>4. t.preview = Render(stateFile) /\ t.doc = stateFile /\ OnDisk(t) /\ Cleared
    BY <1>2, <1>3, <2>2, <2>3 DEF Applying, Rendered, Loaded
  <2>5. Render(stateFile)' = Render(stateFile) /\ OnDisk(task[h])' /\ Cleared'
    BY <2>2, <2>3, <2>4 DEF Render, OnDisk, HttpOnDisk, Cleared, Serve
  <2> QED BY <2>2, <2>3, <2>4, <2>5 DEF Applying, Rendered, Loaded
<1>11. CASE Reload(h)
  <2>1. t.op = "apply" /\ Loads /\ Goto(h, "finish", "-")
    <3>1. CASE Fails(h, "undo_reload")
      <4>1. CASE t.op = "apply"
        <5>1. task'[h] = [t EXCEPT !.verb = "rm", !.part = "http", !.op = "undo_reload"]
          BY <1>1, <3>1, <4>1 DEF Fails
        <5> QED BY <1>1, <1>2, <5>1 DEF Task
      <4>2. CASE t.op # "apply"
        BY <1>2, <3>1, <4>2, EndsIs DEF Fails
      <4> QED BY <4>1, <4>2
    <3>2. CASE task' = [task EXCEPT ![h].verb = "finish", ![h].doc = stateFile] /\ t.op = "reload"
      <4>1. task'[h] = [t EXCEPT !.verb = "finish", !.doc = stateFile]
        BY <1>1, <3>2
      <4> QED BY <1>1, <1>2, <3>2, <4>1 DEF Task
    <3>3. CASE Ends(h, "ok")
      BY <1>2, <3>3, EndsIs
    <3> QED BY <1>11, <3>1, <3>2, <3>3 DEF Reload
  <2>2. /\ task'[h].verb = "finish" /\ task'[h].preview = t.preview /\ task'[h].doc = t.doc
    BY <2>1, GotoIs
  <2>3. t.verb = "reload" /\ UNCHANGED <<stateFile, managed, held>>
    BY <1>11, <2>1 DEF Reload, At
  <2>4. t.preview = Render(stateFile) /\ t.doc = stateFile /\ OnDisk(t) /\ Cleared
    BY <1>3, <2>1, <2>3 DEF Applying, Rendered, Loaded
  <2>5. Served(task[h])'
    <3>1. ASSUME TcpPorts(t.preview) \cap held = {}
          PROVE  running' # Down /\ Routes(running') = t.preview
      <4>1. Binds /\ Routes(Reads) = t.preview
        BY <1>1, <2>4, <3>1, DiskServes
      <4>2. running' = Reads
        BY <2>1, <4>1 DEF Loads
      <4> QED BY <1>1, <4>1, <4>2, ReadsType
    <3> QED BY <2>2, <2>3, <3>1 DEF Served, TcpPorts, Routes
  <2>6. Render(stateFile)' = Render(stateFile)
    BY <2>3 DEF Render
  <2> QED BY <2>2, <2>3, <2>4, <2>5, <2>6 DEF Applying, Rendered, Loaded
<1>12. CASE Finish(h) \/ ReloadAgain(h) \/ RemoveCert(h)
  BY <1>2, <1>12, EndsIs DEF Finish, ReloadAgain, RemoveCert
<1>13. CASE Remove(h) \/ CopyBack(h) \/ CopyDoc(h)
  <2>1. t.verb \in {"rm", "cp", "cp_doc"}
    BY <1>13 DEF Remove, CopyBack, CopyDoc, At
  <2>2. t.op # "apply"
    BY <1>3, <2>1 DEF Applying, Rendered, Loaded
  <2>3. \/ Ends(h, "failed")
        \/ \E v, p : Goto(h, v, p)
    <3>1. t.verb = "cp" => t.part \in Part /\ t.op \in {"undo", "undo_reload", "rollback"}
      BY <1>3 DEF Located
    <3>2. CASE Remove(h) \/ CopyDoc(h)
      BY <3>2 DEF Remove, CopyDoc
    <3>3. CASE CopyBack(h)
      BY <3>1, <3>3 DEF CopyBack, At, Part
    <3> QED BY <1>13, <3>2, <3>3
  <2>4. task'[h].op # "apply"
    BY <2>2, <2>3, EndsIs, GotoIs
  <2> QED BY <1>2, <2>4
<1> QED BY <1>4, <1>5, <1>6, <1>7, <1>8, <1>9, <1>10, <1>11, <1>12, <1>13, <1>14, <1>15 DEF Step

LEMMA ApplyInductive ==
  ASSUME OneHandler, "look" \notin Faults
  PROVE  IInv /\ ApplyInv /\ [Next]_vars => ApplyInv'
<1> SUFFICES ASSUME IInv, ApplyInv, [Next]_vars PROVE ApplyInv'
  OBVIOUS
<1>1. CASE Crash
  BY <1>1 DEF Crash, NoTask, ApplyInv, Applying
<1>2. CASE Tick \/ UNCHANGED vars
  <2>1. UNCHANGED <<task, stateFile, managed, running, held, distro>>
    BY <1>2 DEF Tick, vars, disk
  <2>2. SUFFICES ASSUME NEW h \in Handler PROVE Applying(task[h])'
    BY DEF ApplyInv
  <2>3. Applying(task[h])
    BY DEF ApplyInv
  <2>4. /\ OnDisk(task[h])' <=> OnDisk(task[h])
        /\ HttpOnDisk(task[h])' <=> HttpOnDisk(task[h])
        /\ Cleared' <=> Cleared
    BY <2>1 DEF OnDisk, HttpOnDisk, Cleared, Serve
  <2>5. Served(task[h])' <=> Served(task[h])
    BY <2>1 DEF Served, TcpPorts, Routes
  <2>6. Render(stateFile)' = Render(stateFile)
    BY <2>1 DEF Render
  <2> QED BY <2>1, <2>3, <2>4, <2>5, <2>6 DEF Applying
<1>3. CASE Others
  <2>1. ASSUME NEW h \in Handler PROVE task'[h].op # "apply"
    BY <1>3, IdleIsNotApplying DEF Others
  <2> QED BY <2>1 DEF ApplyInv, Applying
<1> QED BY <1>1, <1>2, <1>3, RequestApplies, StepApplies DEF Next

\* With one request at a time, and a panel that is shown who holds the public
\* ports, an apply that reports success made nginx serve what the panel shows,
\* unless another process holds a port of those very routes, whatever earlier
\* failures and crashes left behind.
THEOREM EdgeAppliedMeansServing ==
  ASSUME OneHandler, "look" \notin Faults
  PROVE  Spec => AppliedMeansServing
<1>1. Init => ApplyInv
  BY DEF Init, NoTask, ApplyInv, Applying
<1>2. IInv /\ ApplyInv /\ [Next]_vars =>
        [\A h \in Handler :
          task[h].op = "apply" /\ Reports(h, "ok") /\ TcpPorts(Render(stateFile')) \cap held = {}
          => running # Down /\ Routes(running) = Render(stateFile')]_vars
  <2> SUFFICES ASSUME IInv, ApplyInv, Next, NEW h \in Handler, task[h].op = "apply",
                      Reports(h, "ok"), TcpPorts(Render(stateFile')) \cap held = {}
               PROVE  running # Down /\ Routes(running) = Render(stateFile')
    OBVIOUS
  <2>1. /\ task'[h].op = "none" /\ outcome'[h] = "ok" /\ Applying(task[h]) /\ Located(task[h])
        /\ task[h] \in Task /\ task \in [Handler -> Task] /\ ~Idle(h)
    BY IdleIsNotApplying DEF Reports, ApplyInv, IInv, Good, TypeOK
  <2>2. Step(h)
    <3>1. ~Crash /\ ~Tick /\ ~Others
      BY <2>1 DEF Crash, Tick, Others
    <3>2. \A k \in Handler : k = h
      BY DEF OneHandler
    <3>3. ~Request(h)
      BY <2>1 DEF Request, Upsert, DeleteRoute, Rollback, AcmeStart, RenewStart, ReloadStart,
         DeleteCert, ServiceRestart, ServiceStop, CreateBackup, Begins
    <3> QED BY <3>1, <3>2, <3>3 DEF Next
  <2>3. Finish(h)
    <3>1. task[h].verb \in {"save", "preview"} \cup Rendered
      BY <2>1 DEF Applying
    <3>2. ASSUME NEW v, NEW p, Goto(h, v, p) PROVE FALSE
      BY <2>1, <3>2, GotoIs
    <3>3. ASSUME NEW r, r # "ok", Ends(h, r) PROVE FALSE
      BY <2>1, <3>3, EndsIs
    <3>4. ASSUME NEW u \in {"undo", "undo_reload"}, Fails(h, u) PROVE FALSE
      <4>1. task'[h] = [task[h] EXCEPT !.verb = "rm", !.part = "http", !.op = u]
        BY <2>1, <3>4 DEF Fails
      <4> QED BY <2>1, <4>1 DEF Task
    <3>5. ~Save(h) /\ ~Look(h) /\ ~Hide(h) /\ ~Test(h) /\ ~Reload(h) /\ ~Backup(h)
      BY <3>2, <3>3, <3>4 DEF Save, Look, Hide, Test, Reload, Backup
    <3>9. ~Write(h)
      <4>1. task[h].verb = "write" => task[h].part \in {"acme", "http", "stream"}
        BY <2>1 DEF Located, Part
      <4> QED BY <3>2, <3>3, <4>1 DEF Write, At
    <3>6. ~Preview(h)
      <4>1. ASSUME Preview(h) PROVE FALSE
        <5>1. task'[h] = [NoTask EXCEPT !.verb = "dirs", !.op = "apply",
                                        !.preview = Render(stateFile), !.was = managed]
          BY <2>1, <3>3, <4>1 DEF Preview
        <5> QED BY <2>1, <5>1 DEF NoTask
      <4> QED BY <4>1
    <3>7. ~Dirs(h) /\ ~BackupDoc(h)
      <4>1. ASSUME Dirs(h) PROVE FALSE
        <5>1. task'[h] = [task[h] EXCEPT !.verb = "backup", !.part = "http", !.bid = now]
          BY <2>1, <4>1 DEF Dirs
        <5> QED BY <2>1, <5>1 DEF Task
      <4>2. ASSUME BackupDoc(h) PROVE FALSE
        <5>1. task'[h] = [task[h] EXCEPT !.verb = "write", !.part = "acme", !.doc = stateFile]
          BY <2>1, <4>2 DEF BackupDoc
        <5> QED BY <2>1, <5>1 DEF Task
      <4> QED BY <4>1, <4>2
    <3>8. ~Remove(h) /\ ~CopyBack(h) /\ ~CopyDoc(h) /\ ~ReloadAgain(h) /\ ~RemoveCert(h)
      BY <3>1 DEF Remove, CopyBack, CopyDoc, ReloadAgain, RemoveCert, At, Rendered
    <3> QED BY <2>2, <3>5, <3>6, <3>7, <3>8, <3>9 DEF Step
  <2>4. /\ stateFile' = stateFile /\ task[h].preview = Render(stateFile)
        /\ Served(task[h])
    BY <2>1, <2>3 DEF Finish, At, Applying, Rendered, Loaded
  <2> QED BY <2>4 DEF Served
<1> QED BY <1>1, <1>2, InitInductive, NextInductive, ApplyInductive, PTL
    DEF Spec, AppliedMeansServing

-----------------------------------------------------------------------------
(***************************************************************************)
(* A failed apply: the backup is taken into a directory of its own, from    *)
(* the files the apply found, and comes back part by part.                  *)
(***************************************************************************)
Undisturbed == OneHandler /\ DistinctSeconds /\ "copy" \notin Faults

Undoes(t) == t.op \in {"undo", "undo_reload"}
BackedUp(t) ==
    Undoes(t) \/ (t.op = "apply" /\ t.verb \in {"backup_doc"} \cup Loaded)
Copy(t, p) == backups[t.bid].parts[p]

Restoring(t) ==
    /\ t.op = "apply" => t.verb \in {"save", "preview"} \cup Rendered
    /\ t.verb = "backup" => t.op = "apply"
    /\ t.op = "apply" /\ t.verb = "dirs" =>
          Serve(managed) = Serve(t.was) /\ ~backups[now].taken
    /\ t.op = "apply" /\ t.verb = "backup" =>
          /\ t.bid <= now /\ \A p \in Part : managed[p] = Serve(t.was)[p]
          /\ t.part = "http" => Copy(t, "http") = Absent
          /\ t.part = "stream" => Copy(t, "http") = Serve(t.was)["http"]
          /\ Copy(t, "stream") = Absent
    /\ BackedUp(t) => \A p \in Part : Copy(t, p) = Serve(t.was)[p]
    /\ Undoes(t) =>
          /\ t.verb \in {"rm", "cp", "reload_again"}
          /\ t.verb = "rm" /\ t.part = "stream" => managed["http"] = Absent
          /\ t.verb = "cp" => managed["stream"] = Absent
          /\ t.verb = "cp" /\ t.part = "http" => managed["http"] = Absent
          /\ t.verb = "cp" /\ t.part = "stream" => managed["http"] = Copy(t, "http")
          /\ t.verb = "reload_again" => \A p \in Part : managed[p] = Copy(t, p)

\* The directory of a backup not taken is missing, and none is taken in advance.
Fresh ==
    \A s \in Second :
        (~backups[s].taken => backups[s].parts = Missing) /\ (s > now => ~backups[s].taken)

AllRestoring == \A h \in Handler : Restoring(task[h])

RestoreInv == Fresh /\ AllRestoring

LEMMA CopiesIs ==
  ASSUME "copy" \notin Faults, NEW src, NEW dst
  PROVE  Copies(src, dst) = {IF dst = Absent THEN src ELSE dst}
BY DEF Copies, Copied

LEMMA NotRestoring ==
  ASSUME OneHandler, NEW h \in Handler, task'[h].verb # "backup",
         task'[h].op \notin {"apply", "undo", "undo_reload"}
  PROVE  AllRestoring'
BY DEF OneHandler, AllRestoring, Restoring, BackedUp, Rendered, Loaded, Undoes

LEMMA FreshStays ==
  ASSUME IInv, Fresh, now' = now \/ now' = now + 1, now' \in Second,
         \A s \in Second : /\ backups'[s].taken = backups[s].taken
                           /\ backups'[s].parts = backups[s].parts
  PROVE  Fresh'
<1>1. now \in Nat /\ now <= now' /\ now' \in Nat /\ \A s \in Second : s \in Nat
  BY DEF IInv, TypeOK, Second
<1>2. SUFFICES ASSUME NEW s \in Second
      PROVE  /\ ~backups'[s].taken => backups'[s].parts = Missing
             /\ s > now' => ~backups'[s].taken
  BY DEF Fresh, Missing
<1>3. s > now' => s > now
  BY <1>1
<1> QED BY <1>3 DEF Fresh

LEMMA RequestRestores ==
  ASSUME IInv, RestoreInv, OneHandler, NEW h \in Handler, Request(h)
  PROVE  RestoreInv'
<1>1. Fresh'
  <2>1. now' = now /\ backups' = backups /\ now \in Second
    BY DEF Request, Upsert, DeleteRoute, Rollback, AcmeStart, RenewStart, ReloadStart,
       ServiceRestart, ServiceStop, CreateBackup, DeleteCert, disk, IInv, TypeOK
  <2> QED BY <2>1, FreshStays DEF RestoreInv
<1>2. ASSUME NEW t, Begins(h, t), t.verb # "backup", ~Undoes(t),
             t.op # "apply" \/ t.verb = "save"
      PROVE  AllRestoring'
  BY <1>2, BeginsIs DEF OneHandler, AllRestoring, Restoring, BackedUp, Rendered, Loaded, Undoes
<1>3. ASSUME NEW o \in {"save", "apply"}, NEW d,
             Begins(h, [NoTask EXCEPT !.verb = "save", !.op = o, !.doc = d])
      PROVE  AllRestoring'
  <2>1. PICK t : t = [NoTask EXCEPT !.verb = "save", !.op = o, !.doc = d]
    OBVIOUS
  <2>2. t.op = o /\ t.verb = "save"
    BY <2>1 DEF NoTask
  <2> QED BY <1>2, <1>3, <2>1, <2>2 DEF Undoes
<1>4. ASSUME NEW b, Rollback(h, b) PROVE AllRestoring'
  <2>1. PICK t : t = [NoTask EXCEPT !.verb = "rm", !.part = "http", !.op = "rollback",
                                    !.bid = b.at]
    OBVIOUS
  <2>2. t.op = "rollback" /\ t.verb = "rm"
    BY <2>1 DEF NoTask
  <2> QED BY <1>2, <1>4, <2>1, <2>2 DEF Rollback, Undoes
<1>5. ASSUME AcmeStart(h) \/ RenewStart(h) \/ ReloadStart(h)
      PROVE  AllRestoring'
  <2>1. PICK t, u, v : /\ t = [NoTask EXCEPT !.verb = "dirs", !.op = "acme"]
                       /\ u = [NoTask EXCEPT !.verb = "test", !.op = "renew"]
                       /\ v = [NoTask EXCEPT !.verb = "reload", !.op = "reload"]
    OBVIOUS
  <2>2. /\ t.op = "acme" /\ u.op = "renew" /\ v.op = "reload"
        /\ t.verb = "dirs" /\ u.verb = "test" /\ v.verb = "reload"
    BY <2>1 DEF NoTask
  <2>3. Begins(h, t) \/ Begins(h, u) \/ Begins(h, v)
    BY <1>5, <2>1 DEF AcmeStart, RenewStart, ReloadStart
  <2> QED BY <1>2, <2>2, <2>3 DEF Undoes
<1>6. ASSUME NEW c, DeleteCert(h, c) PROVE AllRestoring'
  <2>1. PICK t : t = [NoTask EXCEPT !.verb = "rm_cert", !.op = "delete_cert", !.cert = c]
    OBVIOUS
  <2>2. t.op = "delete_cert" /\ t.verb = "rm_cert"
    BY <2>1 DEF NoTask
  <2> QED BY <1>2, <1>6, <2>1, <2>2 DEF DeleteCert, Undoes
<1>7. ASSUME ServiceRestart(h) \/ ServiceStop(h) \/ CreateBackup(h)
      PROVE  AllRestoring'
  <2>1. Idle(h) /\ task' = task
    BY <1>7 DEF ServiceRestart, ServiceStop, CreateBackup
  <2>2. task[h].op # "apply" /\ ~Undoes(task[h]) /\ task[h].verb = "idle"
    BY <2>1 DEF RestoreInv, AllRestoring, Restoring, Undoes, Rendered, Idle
  <2> QED BY <2>1, <2>2, NotRestoring DEF Undoes
<1>8. AllRestoring'
  BY <1>3, <1>4, <1>5, <1>6, <1>7 DEF Request, Upsert, DeleteRoute
<1> QED BY <1>1, <1>8 DEF RestoreInv

\* A step of a handler that applies, up to the backup of the document.
LEMMA BackingUp ==
  ASSUME IInv, RestoreInv, Undisturbed, NEW h \in Handler,
         Preview(h) \/ Dirs(h) \/ Backup(h) \/ BackupDoc(h)
  PROVE  RestoreInv'
<1> DEFINE t == task[h]
<1>1. /\ t \in Task /\ task \in [Handler -> Task] /\ managed \in Managed /\ now \in Second
      /\ t.bid \in Second /\ Restoring(t) /\ Located(t) /\ Fresh
      /\ backups \in [Second -> [taken : BOOLEAN, parts : Managed, doc : {Absent} \cup Docs]]
  BY DEF IInv, TypeOK, Task, RestoreInv, AllRestoring, Good
<1>2. ASSUME Restoring(task[h])' PROVE AllRestoring'
  BY <1>2 DEF Undisturbed, OneHandler, AllRestoring
<1>3. CASE Preview(h)
  <2>1. Fresh'
    BY <1>1, <1>3, FreshStays DEF Preview, disk
  <2>2. ASSUME Ends(h, "none") PROVE AllRestoring'
    BY <2>2, EndsIs, NotRestoring DEF Undisturbed
  <2>3. ASSUME task' = [task EXCEPT ![h] =
                 [NoTask EXCEPT !.verb = "dirs", !.op = "apply",
                                !.preview = Render(stateFile), !.was = managed]]
        PROVE  AllRestoring'
    <3>1. PICK u : u = [NoTask EXCEPT !.verb = "dirs", !.op = "apply",
                                      !.preview = Render(stateFile), !.was = managed]
      OBVIOUS
    <3>2. u.verb = "dirs" /\ u.op = "apply" /\ u.was = managed
      BY <3>1 DEF NoTask
    <3>3. task'[h] = u
      BY <1>1, <2>3, <3>1
    <3>4. UNCHANGED <<managed, backups, now>> /\ ~backups[now].taken
      BY <1>3 DEF Preview, disk, Undisturbed
    <3>5. Restoring(task[h])'
      BY <3>2, <3>3, <3>4 DEF Restoring, BackedUp, Rendered, Loaded, Undoes, Serve
    <3> QED BY <1>2, <3>5
  <2>4. AllRestoring'
    BY <1>3, <2>2, <2>3 DEF Preview
  <2> QED BY <2>1, <2>4 DEF RestoreInv
<1>4. CASE Dirs(h)
  <2>1. Fresh'
    BY <1>1, <1>4, FreshStays DEF Dirs
  <2>2. t.verb = "dirs" /\ managed' = Serve(managed) /\ UNCHANGED <<backups, now>>
    BY <1>4 DEF Dirs, At, Ensured
  <2>3. CASE t.op = "apply"
    <3>1. task'[h] = [t EXCEPT !.verb = "backup", !.part = "http", !.bid = now]
      BY <1>1, <1>4, <2>3 DEF Dirs
    <3>2. /\ task'[h].verb = "backup" /\ task'[h].part = "http" /\ task'[h].bid = now
          /\ task'[h].was = t.was /\ task'[h].op = "apply"
      BY <1>1, <2>3, <3>1 DEF Task
    <3>3. Serve(managed) = Serve(t.was) /\ backups[now].parts = Missing
      BY <1>1, <2>2, <2>3 DEF Restoring, Fresh
    <3>4. \A p \in Part : backups[now].parts[p] = Absent
      BY <3>3 DEF Missing
    <3>5. now <= now /\ now \in Nat
      BY <1>1 DEF Second
    <3>6. backups'[now].parts["http"] = Absent /\ backups'[now].parts["stream"] = Absent
      BY <2>2, <3>4 DEF Part
    <3>7. \A p \in Part : managed'[p] = Serve(t.was)[p]
      BY <2>2, <3>3
    <3>8. Restoring(task[h])'
      BY <2>2, <3>2, <3>5, <3>6, <3>7 DEF Restoring, BackedUp, Rendered, Loaded, Undoes, Copy, Serve
    <3> QED BY <1>2, <2>1, <3>8 DEF RestoreInv
  <2>4. CASE t.op # "apply"
    <3>1. task'[h] = [t EXCEPT !.verb = "write", !.part = "acme"]
      BY <1>1, <1>4, <2>4 DEF Dirs
    <3>2. task'[h].verb = "write" /\ task'[h].op = t.op
      BY <1>1, <3>1 DEF Task
    <3>3. t.op \notin {"undo", "undo_reload"}
      BY <1>1, <2>2 DEF Restoring, Rendered, Loaded, Undoes
    <3> QED BY <2>1, <2>4, <3>2, <3>3, NotRestoring DEF RestoreInv, Undisturbed
  <2> QED BY <2>3, <2>4
<1>5. CASE Backup(h)
  <2> DEFINE b == t.bid
             q == t.part
  <2>1. t.verb = "backup" /\ t.op = "apply" /\ q \in Part
    BY <1>1, <1>5 DEF Backup, At, Restoring, Located
  <2>2. backups[b].parts[q] = Absent /\ managed[q] = Serve(t.was)[q]
    BY <1>1, <2>1 DEF Restoring, Copy, Part
  <2>3. backups' = [backups EXCEPT ![b].taken = TRUE, ![b].parts[q] = managed[q]]
    <3>1. PICK copy \in Copies(managed[q], backups[b].parts[q]) :
             backups' = [backups EXCEPT ![b].taken = TRUE, ![b].parts[q] = copy]
      BY <1>5 DEF Backup
    <3>2. copy = managed[q]
      BY <2>2, <3>1, CopiesIs DEF Undisturbed
    <3> QED BY <3>1, <3>2
  <2>4. /\ backups'[b].taken /\ backups'[b].parts = [backups[b].parts EXCEPT ![q] = managed[q]]
        /\ \A s \in Second : s # b => backups'[s] = backups[s]
    BY <1>1, <2>3
  <2>5. backups'[b].parts[q] = managed[q] /\ \A p \in Part : p # q => backups'[b].parts[p] = backups[b].parts[p]
    BY <1>1, <2>1, <2>4 DEF Managed
  <2>6. Fresh'
    <3>1. now' = now /\ b <= now
      BY <1>1, <1>5, <2>1 DEF Backup, Restoring
    <3>2. SUFFICES ASSUME NEW s \in Second
          PROVE  /\ ~backups'[s].taken => backups'[s].parts = Missing
                 /\ s > now' => ~backups'[s].taken
      BY DEF Fresh, Missing
    <3>3. s > now => s # b
      BY <1>1, <3>1 DEF Second
    <3> QED BY <1>1, <2>4, <3>1, <3>3 DEF Fresh
  <2>7. managed' = managed /\ now' = now
    BY <1>5 DEF Backup
  <2>8. /\ task'[h].verb = (IF q = "http" THEN "backup" ELSE "backup_doc")
        /\ q = "http" => task'[h].part = "stream"
        /\ task'[h].op = "apply" /\ task'[h].bid = b /\ task'[h].was = t.was
    <3>1. IF q = "http" THEN Goto(h, "backup", "stream") ELSE Goto(h, "backup_doc", "-")
      BY <1>5 DEF Backup
    <3>2. CASE q = "http"
      <4>1. Goto(h, "backup", "stream")
        BY <3>1, <3>2
      <4> QED BY <2>1, <3>2, <4>1, GotoIs
    <3>3. CASE q # "http"
      <4>1. Goto(h, "backup_doc", "-")
        BY <3>1, <3>3
      <4> QED BY <2>1, <3>3, <4>1, GotoIs
    <3> QED BY <3>2, <3>3
  <2>9. Restoring(t)
    BY <1>1
  <2>10. CASE q = "http"
    <3>1. backups'[b].parts["http"] = Serve(t.was)["http"] /\ backups'[b].parts["stream"] = Absent
      BY <2>1, <2>2, <2>5, <2>9, <2>10 DEF Restoring, Copy, Part
    <3>2. b <= now /\ \A p \in Part : managed[p] = Serve(t.was)[p]
      BY <2>1, <2>9 DEF Restoring
    <3>3. Restoring(task[h])'
      BY <2>7, <2>8, <2>10, <3>1, <3>2 DEF Restoring, BackedUp, Rendered, Loaded, Undoes, Copy, Serve
    <3> QED BY <1>2, <2>6, <3>3 DEF RestoreInv
  <2>11. CASE q = "stream"
    <3>1. \A p \in Part : backups'[b].parts[p] = Serve(t.was)[p]
      BY <2>1, <2>2, <2>5, <2>9, <2>11 DEF Restoring, Copy, Part
    <3>2. Restoring(task[h])'
      BY <2>8, <2>11, <3>1 DEF Restoring, BackedUp, Rendered, Loaded, Undoes, Copy, Serve
    <3> QED BY <1>2, <2>6, <3>2 DEF RestoreInv
  <2> QED BY <2>1, <2>10, <2>11 DEF Part
<1>6. CASE BackupDoc(h)
  <2>1. \A s \in Second : /\ backups'[s].taken = backups[s].taken
                          /\ backups'[s].parts = backups[s].parts
    BY <1>1, <1>6 DEF BackupDoc
  <2>2. Fresh'
    BY <1>1, <1>6, <2>1, FreshStays DEF BackupDoc
  <2>3. task'[h] = [t EXCEPT !.verb = "write", !.part = "acme", !.doc = stateFile]
    BY <1>1, <1>6 DEF BackupDoc
  <2>4. /\ task'[h].verb = "write" /\ task'[h].op = t.op /\ task'[h].bid = t.bid
        /\ task'[h].was = t.was
    BY <1>1, <2>3 DEF Task
  <2>5. t.verb = "backup_doc"
    BY <1>6 DEF BackupDoc, At
  <2>6. t.op = "apply" => \A p \in Part : backups'[t.bid].parts[p] = Serve(t.was)[p]
    BY <1>1, <2>1, <2>5 DEF Restoring, BackedUp, Loaded, Copy
  <2>7. t.op \notin {"undo", "undo_reload"}
    BY <1>1, <2>5 DEF Restoring, Rendered, Loaded, Undoes
  <2>8. Restoring(task[h])'
    BY <2>4, <2>6, <2>7 DEF Restoring, BackedUp, Rendered, Loaded, Undoes, Copy, Serve
  <2> QED BY <1>2, <2>2, <2>8 DEF RestoreInv
<1> QED BY <1>3, <1>4, <1>5, <1>6

\* The rest of an apply keeps the backup, and a failure begins to restore it.
LEMMA Going ==
  ASSUME IInv, RestoreInv, Undisturbed, NEW h \in Handler,
         Save(h) \/ Write(h) \/ Look(h) \/ Hide(h) \/ Test(h) \/ Reload(h) \/ Finish(h) \/ RemoveCert(h)
  PROVE  RestoreInv'
<1> DEFINE t == task[h]
<1>1. /\ t \in Task /\ task \in [Handler -> Task] /\ now \in Second
      /\ Restoring(t) /\ Located(t) /\ Fresh
      /\ t.verb \in {"save", "write", "look", "hide", "test", "reload", "finish", "rm_cert"}
      /\ UNCHANGED <<backups, now>>
  BY DEF IInv, TypeOK, RestoreInv, AllRestoring, Good, Save, Write, Look, Hide, Test, Reload, Finish, RemoveCert,
     At, disk
<1>2. SUFFICES AllRestoring'
  BY <1>1, FreshStays DEF RestoreInv
<1>3. ~Undoes(t)
  BY <1>1 DEF Restoring
<1>4. ASSUME NEW r, Ends(h, r) PROVE AllRestoring'
  BY <1>4, EndsIs, NotRestoring DEF Undisturbed
<1>5. ASSUME NEW u \in {"undo", "undo_reload"}, Fails(h, u), t.verb \in {"test", "reload"}
      PROVE  AllRestoring'
  <2>1. CASE t.op # "apply"
    BY <1>4, <1>5, <2>1 DEF Fails
  <2>2. CASE t.op = "apply"
    <3>1. task'[h] = [t EXCEPT !.verb = "rm", !.part = "http", !.op = u]
      BY <1>1, <1>5, <2>2 DEF Fails
    <3>2. /\ task'[h].verb = "rm" /\ task'[h].part = "http" /\ task'[h].op = u
          /\ task'[h].bid = t.bid /\ task'[h].was = t.was
      BY <1>1, <3>1 DEF Task
    <3>3. \A p \in Part : backups[t.bid].parts[p] = Serve(t.was)[p]
      BY <1>1, <1>5, <2>2 DEF Restoring, BackedUp, Loaded, Copy
    <3>4. Restoring(task[h])'
      BY <1>1, <3>2, <3>3 DEF Restoring, BackedUp, Rendered, Loaded, Undoes, Copy, Serve
    <3> QED BY <3>4 DEF Undisturbed, OneHandler, AllRestoring
  <2> QED BY <2>1, <2>2
<1>6. ASSUME task'[h].op = t.op, task'[h].bid = t.bid, task'[h].was = t.was,
             task'[h].verb \in {"preview"} \cup Loaded,
             t.op = "apply" => t.verb \in Loaded \/ task'[h].verb = "preview"
      PROVE  AllRestoring'
  <2>1. BackedUp(task[h])' => BackedUp(t)
    BY <1>3, <1>6 DEF BackedUp, Loaded, Undoes
  <2>2. BackedUp(t) => \A p \in Part : backups[t.bid].parts[p] = Serve(t.was)[p]
    BY <1>1 DEF Restoring, Copy
  <2>3. Restoring(task[h])'
    BY <1>1, <1>3, <1>6, <2>1, <2>2 DEF Restoring, Rendered, Loaded, Undoes, Copy, Serve
  <2> QED BY <2>3 DEF Undisturbed, OneHandler, AllRestoring
<1>7. CASE Save(h)
  BY <1>4, <1>6, <1>7, GotoIs DEF Save
<1>8. CASE Write(h)
  <2>1. t.verb = "write" /\ t.part \in {"acme", "http", "stream"}
    BY <1>1, <1>8 DEF Write, At, Located, Part
  <2>2. \/ Ends(h, "failed")
        \/ \E v \in {"write", "look", "test"} : \E p : Goto(h, v, p)
    BY <1>8, <2>1 DEF Write
  <2> QED BY <1>4, <1>6, <2>1, <2>2, GotoIs DEF Loaded
<1>12. CASE Look(h) \/ Hide(h)
  BY <1>4, <1>6, <1>12, GotoIs DEF Look, Hide, At, Loaded
<1>9. CASE Test(h)
  BY <1>4, <1>5, <1>6, <1>9, GotoIs DEF Test, At, Loaded
<1>10. CASE Reload(h)
  <2>1. ASSUME task' = [task EXCEPT ![h].verb = "finish", ![h].doc = stateFile], t.op = "reload"
        PROVE  AllRestoring'
    <3>1. task'[h] = [t EXCEPT !.verb = "finish", !.doc = stateFile]
      BY <1>1, <2>1
    <3>2. task'[h].verb = "finish" /\ task'[h].op = "reload"
      BY <1>1, <2>1, <3>1 DEF Task
    <3> QED BY <3>2, NotRestoring DEF Undisturbed
  <2>2. ASSUME Goto(h, "finish", "-") PROVE AllRestoring'
    BY <1>6, <1>10, <2>2, GotoIs DEF Reload, At, Loaded
  <2> QED BY <1>4, <1>5, <1>10, <2>1, <2>2 DEF Reload, At
<1>11. CASE Finish(h) \/ RemoveCert(h)
  BY <1>4, <1>11 DEF Finish, RemoveCert
<1> QED BY <1>7, <1>8, <1>9, <1>10, <1>11, <1>12

\* Restoring: both parts are removed, then copied back.
LEMMA ComingBack ==
  ASSUME IInv, RestoreInv, Undisturbed, NEW h \in Handler,
         Remove(h) \/ CopyBack(h) \/ CopyDoc(h) \/ ReloadAgain(h)
  PROVE  RestoreInv'
<1> DEFINE t == task[h]
           b == t.bid
<1>1. /\ t \in Task /\ task \in [Handler -> Task] /\ now \in Second /\ managed \in Managed
      /\ Restoring(t) /\ Located(t) /\ Fresh
      /\ t.verb \in {"rm", "cp", "cp_doc", "reload_again"}
      /\ UNCHANGED <<backups, now>>
  BY DEF IInv, TypeOK, RestoreInv, AllRestoring, Good, Remove, CopyBack, CopyDoc, ReloadAgain, At
<1>2. SUFFICES AllRestoring'
  BY <1>1, FreshStays DEF RestoreInv
<1>3. t.op # "apply"
  BY <1>1 DEF Restoring, Rendered
<1>4. ASSUME NEW r, Ends(h, r) PROVE AllRestoring'
  BY <1>4, EndsIs, NotRestoring DEF Undisturbed
<1>5. ASSUME NEW v, NEW p, Goto(h, v, p), v # "backup", ~Undoes(t)
      PROVE  AllRestoring'
  BY <1>3, <1>5, GotoIs, NotRestoring DEF Undoes, Undisturbed
<1>6. Undoes(t) => \A p \in Part : backups[b].parts[p] = Serve(t.was)[p]
  BY <1>1 DEF Restoring, BackedUp, Loaded, Copy
<1>7. CASE Remove(h)
  <2>1. /\ t.verb = "rm" /\ t.part \in Part /\ managed' = [managed EXCEPT ![t.part] = Absent]
        /\ IF t.part = "http" THEN Goto(h, "rm", "stream") ELSE Goto(h, "cp", "http")
    BY <1>1, <1>7 DEF Remove, At, Located
  <2>2. CASE ~Undoes(t)
    BY <1>5, <2>1, <2>2
  <2>3. CASE Undoes(t)
    <3>1. /\ task'[h].verb = (IF t.part = "http" THEN "rm" ELSE "cp")
          /\ task'[h].part = (IF t.part = "http" THEN "stream" ELSE "http")
          /\ task'[h].op = t.op /\ task'[h].bid = b /\ task'[h].was = t.was
      BY <2>1, GotoIs
    <3>2. managed'["http"] = Absent /\ (t.part = "stream" => managed'["stream"] = Absent)
      BY <1>1, <2>1, <2>3 DEF Part, Managed, Restoring
    <3>3. t.part = "http" \/ t.part = "stream"
      BY <2>1 DEF Part
    <3>4. Restoring(task[h])'
      BY <1>1, <1>3, <1>6, <2>3, <3>1, <3>2, <3>3 DEF Restoring, BackedUp, Rendered, Loaded, Undoes, Copy, Serve
    <3> QED BY <3>4 DEF Undisturbed, OneHandler, AllRestoring
  <2> QED BY <2>2, <2>3
<1>8. CASE CopyBack(h)
  <2>1. t.verb = "cp" /\ t.part \in Part /\ t.op \in {"undo", "undo_reload", "rollback"}
    BY <1>1, <1>8 DEF CopyBack, At, Located
  <2>2. CASE t.op = "rollback"
    <3>1. Goto(h, "cp", "stream") \/ Goto(h, "cp_doc", "-")
      BY <1>8, <2>1, <2>2 DEF CopyBack, Part
    <3> QED BY <1>5, <2>2, <3>1 DEF Undoes
  <2>3. CASE t.part = "stream" /\ t.op = "undo"
    <3>1. Ends(h, "failed")
      BY <1>8, <2>3 DEF CopyBack
    <3> QED BY <1>4, <3>1
  <2>4. CASE Undoes(t) /\ ~(t.part = "stream" /\ t.op = "undo")
    <3>1. managed[t.part] = Absent
      BY <1>1, <2>1, <2>4 DEF Restoring, Part
    <3>2. managed' = [managed EXCEPT ![t.part] = backups[b].parts[t.part]]
      <4>1. PICK copy \in Copies(backups[b].parts[t.part], managed[t.part]) :
               managed' = [managed EXCEPT ![t.part] = copy]
        BY <1>8, <2>4 DEF CopyBack
      <4>2. copy = backups[b].parts[t.part]
        BY <3>1, <4>1, CopiesIs DEF Undisturbed
      <4> QED BY <4>1, <4>2
    <3>3. CASE t.part = "http"
      <4>1. Goto(h, "cp", "stream")
        BY <1>8, <3>3 DEF CopyBack
      <4>2. /\ task'[h].verb = "cp" /\ task'[h].part = "stream"
            /\ task'[h].op = t.op /\ task'[h].bid = b /\ task'[h].was = t.was
        BY <4>1, GotoIs
      <4>3. managed'["stream"] = Absent /\ managed'["http"] = backups[b].parts["http"]
        BY <1>1, <2>1, <2>4, <3>2, <3>3 DEF Restoring, Managed, Part
      <4>4. Restoring(task[h])'
        BY <1>1, <1>3, <1>6, <2>4, <4>2, <4>3 DEF Restoring, BackedUp, Rendered, Loaded, Undoes, Copy, Serve
      <4> QED BY <4>4 DEF Undisturbed, OneHandler, AllRestoring
    <3>4. CASE t.part = "stream" /\ t.op = "undo_reload"
      <4>1. Goto(h, "reload_again", "-")
        BY <1>8, <3>4 DEF CopyBack
      <4>2. /\ task'[h].verb = "reload_again"
            /\ task'[h].op = t.op /\ task'[h].bid = b /\ task'[h].was = t.was
        BY <4>1, GotoIs
      <4>3. managed'["stream"] = backups[b].parts["stream"]
        BY <1>1, <3>2, <3>4 DEF Managed, Part
      <4>4. managed'["http"] = backups[b].parts["http"]
        <5>1. managed'["http"] = managed["http"]
          BY <1>1, <3>2, <3>4 DEF Managed, Part
        <5> QED BY <1>1, <2>1, <2>4, <3>4, <5>1 DEF Restoring, Copy
      <4>5. \A p \in Part : managed'[p] = backups[b].parts[p]
        BY <4>3, <4>4 DEF Part
      <4>6. Restoring(task[h])'
        BY <1>1, <1>3, <1>6, <2>4, <4>2, <4>5 DEF Restoring, BackedUp, Rendered, Loaded, Undoes, Copy, Serve
      <4> QED BY <4>6 DEF Undisturbed, OneHandler, AllRestoring
    <3> QED BY <2>1, <2>4, <3>3, <3>4 DEF Part, Undoes
  <2> QED BY <2>1, <2>2, <2>3, <2>4 DEF Undoes
<1>9. CASE CopyDoc(h)
  <2>1. Goto(h, "test", "-") /\ t.verb = "cp_doc"
    BY <1>9 DEF CopyDoc, At
  <2>2. ~Undoes(t)
    BY <1>1, <2>1 DEF Restoring
  <2> QED BY <1>5, <2>1, <2>2
<1>10. CASE ReloadAgain(h)
  BY <1>4, <1>10 DEF ReloadAgain
<1> QED BY <1>7, <1>8, <1>9, <1>10

LEMMA RestoreInductive ==
  ASSUME Undisturbed
  PROVE  IInv /\ RestoreInv /\ [Next]_vars => RestoreInv'
<1> SUFFICES ASSUME IInv, RestoreInv, [Next]_vars PROVE RestoreInv'
  OBVIOUS
<1>1. CASE Crash
  <2>1. Fresh'
    BY <1>1, FreshStays DEF Crash, disk, RestoreInv, IInv, TypeOK
  <2> QED BY <1>1, <2>1 DEF Crash, NoTask, RestoreInv, AllRestoring, Restoring, BackedUp, Rendered, Loaded, Undoes
<1>2. CASE Tick
  <2>1. now' \in Second /\ now \in Nat /\ now' = now + 1 /\ UNCHANGED <<backups, managed, task>>
    BY <1>2, EdgeAssumption DEF Tick, disk, IInv, TypeOK, Second
  <2>2. Fresh'
    BY <2>1, FreshStays DEF RestoreInv
  <2>3. ~backups'[now'].taken
    BY <2>1 DEF RestoreInv, Fresh
  <2>4. \A k \in Handler : task[k].bid <= now => task[k].bid <= now'
    BY <2>1 DEF IInv, TypeOK, Task, Second
  <2>5. AllRestoring'
    BY <2>1, <2>3, <2>4 DEF RestoreInv, AllRestoring, Restoring, BackedUp, Rendered, Loaded, Undoes, Copy, Serve
  <2> QED BY <2>2, <2>5 DEF RestoreInv
<1>3. CASE UNCHANGED vars
  <2>1. UNCHANGED <<backups, managed, task, now>>
    BY <1>3 DEF vars, disk
  <2> QED BY <2>1 DEF RestoreInv, AllRestoring, Fresh, Restoring, BackedUp, Rendered, Loaded, Undoes, Copy, Serve, Missing
<1>4. ASSUME NEW h \in Handler, Request(h) PROVE RestoreInv'
  BY <1>4, RequestRestores DEF Undisturbed
<1>6. CASE Others
  <2>1. Fresh'
    BY <1>6, FreshStays DEF Others, disk, RestoreInv, IInv, TypeOK
  <2>2. \A k \in Handler : /\ task'[k] = task[k] /\ task[k].verb = "idle"
                           /\ task[k].op # "apply" /\ ~Undoes(task[k])
    BY <1>6 DEF Others, Idle, RestoreInv, AllRestoring, Restoring, Rendered, Undoes
  <2> QED BY <2>1, <2>2 DEF RestoreInv, AllRestoring, Restoring, BackedUp, Rendered, Loaded, Undoes
<1>5. ASSUME NEW h \in Handler, Step(h) PROVE RestoreInv'
  BY <1>5, BackingUp, Going, ComingBack DEF Step
<1> QED BY <1>1, <1>2, <1>3, <1>4, <1>5, <1>6 DEF Next

\* With one request at a time, one apply in a second and copies that succeed, a
\* failed test or reload leaves the managed files as the apply found them.
THEOREM EdgeUndoRestores ==
  ASSUME Undisturbed
  PROVE  Spec => UndoRestores
<1>2. Init => RestoreInv
  BY DEF Init, NoTask, NoBackup, RestoreInv, AllRestoring, Fresh, Restoring, BackedUp, Rendered, Loaded, Undoes
<1>3. IInv /\ RestoreInv /\ [Next]_vars =>
        [\A h \in Handler :
          task[h].op \in {"undo", "undo_reload"} /\ Reports(h, "failed")
          => Serve(managed') = Serve(task[h].was)]_vars
  <2> SUFFICES ASSUME IInv, RestoreInv, Next, NEW h \in Handler,
                      task[h].op \in {"undo", "undo_reload"}, Reports(h, "failed")
               PROVE  Serve(managed') = Serve(task[h].was)
    OBVIOUS
  <2> DEFINE t == task[h]
  <2>1. /\ task'[h].op = "none" /\ outcome'[h] = "failed" /\ Restoring(t) /\ Located(t)
        /\ t \in Task /\ task \in [Handler -> Task] /\ managed \in Managed /\ Undoes(t)
        /\ t.bid \in Second /\ backups[t.bid].parts \in Managed /\ t.was \in Managed
    BY DEF Reports, RestoreInv, AllRestoring, IInv, Good, TypeOK, Undoes, Task
  <2>2. t.verb \in {"rm", "cp", "reload_again"}
    BY <2>1 DEF Restoring
  <2>3. Step(h)
    <3>1. ~Crash /\ ~Tick /\ ~Others
      BY <2>1, <2>2 DEF Crash, Tick, Others, Idle, Undoes
    <3>2. \A k \in Handler : k = h
      BY DEF Undisturbed, OneHandler, AllRestoring
    <3>3. ~Request(h)
      BY <2>2 DEF Request, Upsert, DeleteRoute, Rollback, AcmeStart, RenewStart, ReloadStart,
         DeleteCert, ServiceRestart, ServiceStop, CreateBackup, Begins, Idle
    <3> QED BY <3>1, <3>2, <3>3 DEF Next
  <2>4. ASSUME NEW v, NEW p, Goto(h, v, p) PROVE FALSE
    BY <2>1, <2>4, GotoIs DEF Undoes
  <2>5. ReloadAgain(h) \/ CopyBack(h)
    BY <2>2, <2>3, <2>4 DEF Step, Save, Preview, Dirs, Backup, BackupDoc, Write, Look, Hide, Test, Reload,
       Finish, Remove, CopyDoc, RemoveCert, At, Idle
  <2>6. Serve(t.was) \in Config /\ \A p \in Part : backups[t.bid].parts[p] = Serve(t.was)[p]
    BY <2>1, EnsuredType DEF Restoring, BackedUp, Loaded, Copy
  <2>7. CASE ReloadAgain(h)
    <3>1. \A p \in Part : managed[p] = Serve(t.was)[p]
      BY <2>1, <2>6, <2>7 DEF ReloadAgain, At, Restoring, Copy
    <3>2. Serve(managed) = Serve(t.was)
      BY <2>1, <2>6, <3>1, ServeConfig
    <3>3. managed' = Serve(managed)
      BY <2>7 DEF ReloadAgain, Ensured
    <3> QED BY <2>1, <3>2, <3>3, ServeTwice
  <2>8. CASE CopyBack(h)
    <3>1. t.verb = "cp" /\ t.part = "stream" /\ t.op = "undo"
      BY <2>1, <2>4, <2>8 DEF CopyBack, At, Located, Part, Undoes
    <3>2. managed["stream"] = Absent /\ managed["http"] = backups[t.bid].parts["http"]
      BY <2>1, <3>1 DEF Restoring, Copy
    <3>3. PICK m : m = [managed EXCEPT !["stream"] = backups[t.bid].parts["stream"]]
      OBVIOUS
    <3>4. managed' = Ensured(m)
      <4>1. PICK copy \in Copies(backups[t.bid].parts["stream"], managed["stream"]) :
               managed' = Ensured([managed EXCEPT !["stream"] = copy])
        BY <2>8, <3>1 DEF CopyBack
      <4>2. copy = backups[t.bid].parts["stream"]
        BY <3>2, <4>1, CopiesIs DEF Undisturbed
      <4> QED BY <3>3, <4>1, <4>2
    <3>5. m \in Managed
      BY <2>1, <3>3 DEF Managed, Part
    <3>6. m["stream"] = backups[t.bid].parts["stream"] /\ m["http"] = managed["http"]
      BY <2>1, <3>3 DEF Managed, Part
    <3>7. \A p \in Part : m[p] = Serve(t.was)[p]
      BY <2>6, <3>2, <3>6 DEF Part
    <3>8. Serve(m) = Serve(t.was)
      BY <2>6, <3>5, <3>7, ServeConfig
    <3>9. managed' = Serve(m)
      BY <3>4 DEF Ensured
    <3> QED BY <3>5, <3>8, <3>9, ServeTwice
  <2> QED BY <2>5, <2>7, <2>8
<1> QED BY <1>2, <1>3, InitInductive, NextInductive, RestoreInductive, PTL
    DEF Spec, UndoRestores, Undisturbed
=============================================================================
