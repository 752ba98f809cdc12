---------------------------- MODULE PanelProofs -----------------------------
(***************************************************************************)
(* Theorems about the panel's own parts, for every set of clients,         *)
(* connections, databases, settings and requests: what the metrics hub     *)
(* gives its clients, what the journal tells of the connections, what      *)
(* .env, the database and the boots make of the administrator, and what a  *)
(* save of the settings shows.                                             *)
(***************************************************************************)
EXTENDS MCPanel, FiniteSetTheorems, TLAPS

panelVars == <<part, vars, lifeVars, settingsVars, hubVars, journalVars, filesVars, usersVars,
               jailVars>>

\* The panel moves one part at a time.
LEMMA PanelMovesHub == [PanelNext]_panelVars => Hub!Next \/ UNCHANGED hubVars
BY DEF PanelNext, panelVars

LEMMA PanelMovesJournal == [PanelNext]_panelVars => Journal!Next \/ UNCHANGED journalVars
BY DEF PanelNext, panelVars

-----------------------------------------------------------------------------
\* The broadcast has work only while it sends, and only for clients of the hub.
HubInv ==
    /\ latest \in Nat /\ clients \subseteq Viewer /\ got \in [Viewer -> Nat]
    /\ todo \subseteq clients
    /\ round # "sending" => todo = {}
    /\ ClientsUpToDate

LEMMA InitHub == Hub!Init => HubInv
BY DEF Hub!Init, HubInv, ClientsUpToDate, Hub!ClientsUpToDate

LEMMA NextHub == HubInv /\ (Hub!Next \/ UNCHANGED hubVars) => HubInv'
<1> SUFFICES ASSUME HubInv, Hub!Next \/ UNCHANGED hubVars PROVE HubInv'
  OBVIOUS
<1> USE DEF HubInv, ClientsUpToDate, Hub!ClientsUpToDate
<1>1. ASSUME NEW c \in Viewer, Hub!connect(c) PROVE HubInv'
  BY <1>1 DEF Hub!connect
<1>2. ASSUME NEW c \in Viewer, Hub!disconnect(c) PROVE HubInv'
  BY <1>2 DEF Hub!disconnect
<1>3. ASSUME NEW c \in Viewer, Hub!send_text(c) PROVE HubInv'
  BY <1>3 DEF Hub!send_text
<1>4. CASE Hub!broadcast
  BY <1>4 DEF Hub!broadcast
<1>5. CASE Hub!Drain
  BY <1>5 DEF Hub!Drain
<1>6. CASE Hub!RoundEnds
  BY <1>6 DEF Hub!RoundEnds
<1>7. CASE Hub!start
  BY <1>7 DEF Hub!start
<1>8. CASE Hub!stop
  BY <1>8 DEF Hub!stop
<1>9. CASE UNCHANGED hubVars
  BY <1>9 DEF hubVars
<1> QED BY <1>1, <1>2, <1>3, <1>4, <1>5, <1>6, <1>7, <1>8, <1>9 DEF Hub!Next

\* ws_hub.py: whoever connects, leaves or stalls while a broadcast runs, a client
\* that the broadcast has passed, or that came after it began, was given the
\* latest payload.
THEOREM PanelClientsUpToDate == PanelSpec => []ClientsUpToDate
<1>1. PanelInit => HubInv
  BY InitHub DEF PanelInit
<1>2. HubInv /\ [PanelNext]_panelVars => HubInv'
  BY NextHub, PanelMovesHub
<1>3. HubInv => ClientsUpToDate
  BY DEF HubInv
<1> QED BY <1>1, <1>2, <1>3, PTL DEF PanelSpec, panelVars

-----------------------------------------------------------------------------
JournalRow == [key : Journal!Conn, status : {"active", "closed"}, start : Int, end : Int]

LEMMA SameCardinality == \A S : Journal!Cardinality(S) = Cardinality(S)
BY DEF Journal!Cardinality, Cardinality

\* Of two visits of one connection one ended before the other began.
RowsApart ==
    \A r, q \in rows : r.key = q.key /\ r.status = "closed" /\ r # q
        => q.start >= r.end \/ (q.status = "closed" /\ r.start >= q.end)

\* The rows that are open are those the last sample saw, but for the pruned.
OpenMatches ==
    \A k \in Journal!Conn :
        /\ k \in seen \ pruned => \E r \in rows : Journal!OpenOf(k) = {r}
        /\ k \notin seen \ pruned => Journal!OpenOf(k) = {}

\* No connection is older than the end of its last visit.
JournalInv ==
    /\ time \in Nat /\ since \in [Journal!Conn -> Int] /\ rows \subseteq JournalRow
    /\ \A r \in rows : r.status = "closed" =>
          /\ r.end <= time
          /\ since[r.key] # Journal!Offline => since[r.key] >= r.end
    /\ RowsApart
    /\ OpenMatches

LEMMA InitJournal == Journal!Init => JournalInv
BY DEF Journal!Init, JournalInv, RowsApart, OpenMatches, Journal!OpenOf, Journal!Offline

\* What a sample makes of the rows.
LEMMA SampleRows ==
    ASSUME JournalInv, NEW kind \in Journal!Kinds, Journal!persist_history(kind)
    PROVE  /\ \A r \in rows' :
                \/ r \in rows /\ ~(r.status = "active" /\ r.key \in Journal!Of(kind) \ Journal!Live(kind))
                \/ \E o \in rows :
                      /\ o.status = "active" /\ o.key \in Journal!Of(kind) \ Journal!Live(kind)
                      /\ r = [o EXCEPT !.status = "closed", !.end = time]
                \/ \E k \in Journal!Live(kind) : Journal!OpenOf(k) = {} /\ r = Journal!Opened(k)
           /\ \A r \in rows :
                ~(r.status = "active" /\ r.key \in Journal!Of(kind) \ Journal!Live(kind))
                    => r \in rows'
           /\ \A k \in Journal!Live(kind) : Journal!OpenOf(k) = {} => Journal!Opened(k) \in rows'
           /\ UNCHANGED <<time, since>>
<1> DEFINE gone == UNION {Journal!OpenOf(k) : k \in Journal!Of(kind) \ Journal!Live(kind)}
<1>1. \A o : o \in gone <=>
        o \in rows /\ o.status = "active" /\ o.key \in Journal!Of(kind) \ Journal!Live(kind)
  BY DEF Journal!OpenOf
<1>2. rows' = (rows \ gone) \cup {[r EXCEPT !.status = "closed", !.end = time] : r \in gone}
          \cup {Journal!Opened(k) : k \in {c \in Journal!Live(kind) : Journal!OpenOf(c) = {}}}
  BY DEF Journal!persist_history, Journal!Sampled
<1>3. UNCHANGED <<time, since>>
  BY DEF Journal!persist_history
<1> HIDE DEF gone
<1> QED BY <1>1, <1>2, <1>3

LEMMA SampleJournal ==
    ASSUME JournalInv, NEW kind \in Journal!Kinds, Journal!persist_history(kind)
    PROVE  JournalInv'
<1> DEFINE Gone(r) == r.status = "active" /\ r.key \in Journal!Of(kind) \ Journal!Live(kind)
           Closed(r) == [r EXCEPT !.status = "closed", !.end = time]
<1>0. /\ time \in Nat /\ since \in [Journal!Conn -> Int] /\ rows \subseteq JournalRow
      /\ UNCHANGED <<time, since>>
      /\ Journal!Live(kind) \subseteq Journal!Of(kind)
      /\ Journal!Of(kind) \subseteq Journal!Conn
      /\ \A k \in Journal!Of(kind) : k \in Journal!Live(kind) <=> since[k] # Journal!Offline
  BY DEF JournalInv, Journal!persist_history, Journal!Live, Journal!Of, Journal!Conn
<1>1. \A r \in rows' :
        \/ r \in rows /\ ~Gone(r)
        \/ \E o \in rows : Gone(o) /\ r = Closed(o)
        \/ \E k \in Journal!Live(kind) : Journal!OpenOf(k) = {} /\ r = Journal!Opened(k)
  BY SampleRows
<1>2. \A r \in rows : ~Gone(r) => r \in rows'
  BY SampleRows
<1>3. \A k \in Journal!Live(kind) : Journal!OpenOf(k) = {} => Journal!Opened(k) \in rows'
  BY SampleRows
\* A row that is closed and one that is opened.
<1>4. ASSUME NEW o \in rows, Gone(o)
      PROVE  /\ Closed(o) \in JournalRow /\ Closed(o).key = o.key /\ Closed(o).status = "closed"
             /\ Closed(o).start = o.start /\ Closed(o).end = time
             /\ since[o.key] = Journal!Offline /\ o.key \in Journal!Conn
  <2>1. o \in JournalRow /\ time \in Int
    BY <1>0
  <2>2. /\ Closed(o) \in JournalRow /\ Closed(o).key = o.key /\ Closed(o).status = "closed"
        /\ Closed(o).start = o.start /\ Closed(o).end = time
    BY <2>1 DEF JournalRow
  <2> QED BY <1>0, <1>4, <2>2
<1>5. ASSUME NEW k \in Journal!Live(kind)
      PROVE  /\ Journal!Opened(k) \in JournalRow /\ Journal!Opened(k).key = k
             /\ Journal!Opened(k).status = "active" /\ Journal!Opened(k).start = since[k]
  BY <1>0 DEF JournalRow, Journal!Opened
<1> HIDE DEF Gone, Closed
<1>6. rows' \subseteq JournalRow
  BY <1>0, <1>1, <1>4, <1>5
<1>7. \A r \in rows' : r.status = "closed" =>
          /\ r.end <= time
          /\ since[r.key] # Journal!Offline => since[r.key] >= r.end
  BY <1>0, <1>1, <1>4, <1>5 DEF JournalInv
\* The rows of one connection that were open were one.
<1>8. \A r, q \in rows : r.status = "active" /\ q.status = "active" /\ r.key = q.key => r = q
  BY <1>0 DEF JournalInv, OpenMatches, Journal!OpenOf, JournalRow
<1>9. RowsApart'
  <2> SUFFICES ASSUME NEW r \in rows', NEW q \in rows', r.key = q.key, r.status = "closed", r # q
               PROVE  q.start >= r.end \/ (q.status = "closed" /\ r.start >= q.end)
    BY DEF RowsApart
  <2>1. CASE r \in rows /\ q \in rows
    BY <2>1 DEF JournalInv, RowsApart
  <2>2. CASE r \in rows /\ \E o \in rows : Gone(o) /\ q = Closed(o)
    BY <2>2, <1>0, <1>4, <1>8 DEF JournalInv, RowsApart, Gone, JournalRow
  <2>3. CASE \E k \in Journal!Live(kind) : q = Journal!Opened(k)
    BY <2>3, <1>0, <1>5, <1>7
  <2>4. CASE q \in rows /\ ~Gone(q) /\ \E o \in rows : Gone(o) /\ r = Closed(o)
    BY <2>4, <1>0, <1>4, <1>8 DEF JournalInv, RowsApart, Gone, JournalRow
  <2>5. CASE /\ \E o \in rows : Gone(o) /\ r = Closed(o)
             /\ \E o \in rows : Gone(o) /\ q = Closed(o)
    BY <2>5, <1>4, <1>8 DEF Gone
  <2>6. ~ \E k \in Journal!Live(kind) : r = Journal!Opened(k)
    BY <1>5
  <2> QED BY <1>1, <2>1, <2>2, <2>3, <2>4, <2>5, <2>6
<1>10. OpenMatches'
  <2> SUFFICES ASSUME NEW k \in Journal!Conn
               PROVE  /\ k \in seen' \ pruned' => \E r \in rows' : Journal!OpenOf(k)' = {r}
                      /\ k \notin seen' \ pruned' => Journal!OpenOf(k)' = {}
    BY DEF OpenMatches
  <2>0. \A r : r \in Journal!OpenOf(k)' <=> r \in rows' /\ r.key = k /\ r.status = "active"
    BY DEF Journal!OpenOf
  <2>1. \A r : r \in Journal!OpenOf(k) <=> r \in rows /\ r.key = k /\ r.status = "active"
    BY DEF Journal!OpenOf
  <2>2. CASE k \notin Journal!Of(kind)
    <3>1. k \in seen' \ pruned' <=> k \in seen \ pruned
      BY <1>0, <2>2 DEF Journal!persist_history
    <3>2. Journal!OpenOf(k)' = Journal!OpenOf(k)
      <4>1. ASSUME NEW r \in Journal!OpenOf(k) PROVE r \in Journal!OpenOf(k)'
        <5>1. r \in rows /\ ~Gone(r)
          BY <4>1, <2>1, <2>2 DEF Gone
        <5>2. r \in rows'
          BY <5>1, <1>2
        <5> QED BY <4>1, <5>2, <2>0, <2>1
      <4>2. ASSUME NEW r \in Journal!OpenOf(k)' PROVE r \in Journal!OpenOf(k)
        <5>1. r \in rows' /\ r.key = k /\ r.status = "active"
          BY <4>2, <2>0
        <5>2. ~ \E o \in rows : Gone(o) /\ r = Closed(o)
          BY <5>1, <1>4
        <5>3. ~ \E c \in Journal!Live(kind) : r = Journal!Opened(c)
          BY <5>1, <2>2, <1>0, <1>5
        <5>4. r \in rows
          BY <5>1, <5>2, <5>3, <1>1
        <5> QED BY <5>1, <5>4, <2>1
      <4> QED BY <4>1, <4>2
    <3> QED BY <3>1, <3>2, <2>0 DEF JournalInv, OpenMatches
  <2>3. CASE k \in Journal!Of(kind) \ Journal!Live(kind)
    <3>1. k \notin seen'
      BY <1>0, <2>3 DEF Journal!persist_history
    <3>2. Journal!OpenOf(k)' = {}
      BY <1>0, <1>1, <1>4, <1>5, <2>0, <2>3 DEF Gone
    <3> QED BY <3>1, <3>2
  <2>4. CASE k \in Journal!Live(kind)
    <3>1. k \in seen' \ pruned'
      BY <1>0, <2>4 DEF Journal!persist_history
    <3>2. CASE Journal!OpenOf(k) = {}
      <4>1. Journal!OpenOf(k)' = {Journal!Opened(k)}
        BY <1>0, <1>1, <1>3, <1>4, <1>5, <2>0, <2>1, <2>4, <3>2
      <4> QED BY <3>1, <4>1, <2>0
    <3>3. CASE Journal!OpenOf(k) # {}
      <4>1. PICK r \in rows : Journal!OpenOf(k) = {r}
        BY <3>3 DEF JournalInv, OpenMatches
      <4>2. Journal!OpenOf(k)' = {r}
        BY SMTT(30), <1>0, <1>1, <1>2, <1>4, <1>5, <2>0, <2>1, <2>4, <3>3, <4>1 DEF Gone
      <4> QED BY <3>1, <4>2, <2>0
    <3> QED BY <3>2, <3>3
  <2> QED BY <1>0, <2>2, <2>3, <2>4
<1> QED BY <1>0, <1>6, <1>7, <1>9, <1>10 DEF JournalInv

LEMMA PruneJournal == ASSUME JournalInv, Journal!cleanup_old_metrics PROVE JournalInv'
<1> DEFINE Old(r) == r.start < time - Retention
<1>1. /\ \A r : r \in rows' <=> r \in rows /\ ~Old(r)
      /\ UNCHANGED <<time, since, seen>>
      /\ \A k : k \in pruned' <=>
            k \in pruned \/ \E r \in rows : Old(r) /\ r.status = "active" /\ r.key = k
  BY DEF Journal!cleanup_old_metrics
<1> HIDE DEF Old
<1>2. RowsApart' /\ rows' \subseteq rows
  BY <1>1 DEF JournalInv, RowsApart
<1>3. OpenMatches'
  <2> SUFFICES ASSUME NEW k \in Journal!Conn
               PROVE  /\ k \in seen' \ pruned' => \E r \in rows' : Journal!OpenOf(k)' = {r}
                      /\ k \notin seen' \ pruned' => Journal!OpenOf(k)' = {}
    BY DEF OpenMatches
  <2>1. \A r : r \in Journal!OpenOf(k)' <=> r \in Journal!OpenOf(k) /\ ~Old(r)
    BY <1>1 DEF Journal!OpenOf
  <2>2. k \in pruned' <=> k \in pruned \/ \E r \in Journal!OpenOf(k) : Old(r)
    BY <1>1 DEF Journal!OpenOf
  <2>3. CASE k \notin seen \ pruned
    BY <1>1, <2>1, <2>2, <2>3 DEF JournalInv, OpenMatches
  <2>4. CASE k \in seen \ pruned
    <3>1. PICK r \in rows : Journal!OpenOf(k) = {r}
      BY <2>4 DEF JournalInv, OpenMatches
    <3>2. Old(r) => k \in pruned' /\ Journal!OpenOf(k)' = {}
      BY <2>1, <2>2, <3>1
    <3>3. ~Old(r) => k \notin pruned' /\ Journal!OpenOf(k)' = {r} /\ r \in rows'
      BY <1>1, <2>1, <2>2, <2>4, <3>1
    <3> QED BY <1>1, <2>4, <3>2, <3>3
  <2> QED BY <2>3, <2>4
<1> QED BY <1>1, <1>2, <1>3 DEF JournalInv

LEMMA NextJournal == JournalInv /\ (Journal!Next \/ UNCHANGED journalVars) => JournalInv'
<1> SUFFICES ASSUME JournalInv, Journal!Next \/ UNCHANGED journalVars PROVE JournalInv'
  OBVIOUS
<1>1. CASE \E kind \in Journal!Kinds : Journal!persist_history(kind)
  BY <1>1, SampleJournal
<1>2. CASE Journal!cleanup_old_metrics
  BY <1>2, PruneJournal
<1>3. ASSUME NEW k \in Journal!Conn, Journal!Contact(k) \/ Journal!Leave(k)
      PROVE  JournalInv'
  <2>1. /\ UNCHANGED <<time, rows, seen, pruned>>
        /\ \/ since' = [since EXCEPT ![k] = time]
           \/ since' = [since EXCEPT ![k] = Journal!Offline]
    BY <1>3 DEF Journal!Contact, Journal!Leave
  <2>2. RowsApart' /\ OpenMatches'
    BY <2>1 DEF JournalInv, RowsApart, OpenMatches, Journal!OpenOf
  <2>3. since' \in [Journal!Conn -> Int]
    BY <2>1 DEF JournalInv, Journal!Offline
  <2>4. \A r \in rows : r.key \in Journal!Conn
    BY DEF JournalInv, JournalRow
  <2> QED BY <2>1, <2>2, <2>3, <2>4 DEF JournalInv
<1>4. CASE Journal!Tick \/ UNCHANGED journalVars
  <2>1. UNCHANGED <<since, rows, seen, pruned>> /\ time' \in Nat /\ time' >= time
    BY <1>4 DEF JournalInv, Journal!Tick, journalVars
  <2>2. RowsApart' /\ OpenMatches'
    BY <2>1 DEF JournalInv, RowsApart, OpenMatches, Journal!OpenOf
  <2>3. \A r \in rows : r.end \in Int
    BY DEF JournalInv, JournalRow
  <2> QED BY <2>1, <2>2, <2>3 DEF JournalInv
<1> QED BY <1>1, <1>2, <1>3, <1>4 DEF Journal!Next

\* persistence.py: a connection has one open row exactly if the last sample of its
\* kind saw it, but for rows the cleanup took; and no two visits of one connection
\* overlap, whenever the samples, the cleanup and the handshakes come.
THEOREM PanelJournalMatchesSample == PanelSpec => []JournalMatchesSample
<1>1. PanelInit => JournalInv
  BY InitJournal DEF PanelInit
<1>2. JournalInv /\ [PanelNext]_panelVars => JournalInv'
  BY NextJournal, PanelMovesJournal
<1>3. JournalInv => JournalMatchesSample
  <2> SUFFICES ASSUME JournalInv PROVE JournalMatchesSample
    OBVIOUS
  <2>1. ASSUME NEW k \in Journal!Conn
        PROVE  Cardinality(Journal!OpenOf(k)) = IF k \in seen \ pruned THEN 1 ELSE 0
    <3>1. CASE k \in seen \ pruned
      <4>1. PICK r \in rows : Journal!OpenOf(k) = {r}
        BY <3>1 DEF JournalInv, OpenMatches
      <4> QED BY <3>1, <4>1, FS_Singleton
    <3>2. CASE k \notin seen \ pruned
      <4>1. Journal!OpenOf(k) = {}
        BY <3>2 DEF JournalInv, OpenMatches
      <4> QED BY <3>2, <4>1, FS_EmptySet
    <3> QED BY <3>1, <3>2
  <2>2. RowsApart
    BY DEF JournalInv
  <2> QED BY <2>1, <2>2, SameCardinality
          DEF RowsApart, JournalMatchesSample, Journal!JournalMatchesSample
<1> QED BY <1>1, <1>2, <1>3, PTL DEF PanelSpec, panelVars

-----------------------------------------------------------------------------
(***************************************************************************)
(* The panel between .env and database.                                    *)
(***************************************************************************)
LEMMA PanelMovesLife == [PanelNext]_panelVars => Life!Next \/ UNCHANGED lifeVars
BY DEF PanelNext, panelVars

Saved == {"init", "upsert", "seed"}
Named(e) == None \notin {e.db, e.admin, e.pwd}
Pending ==
    [pc : {"idle", "test"} \cup Saved, req : SetupRequest \cup {None}, cfg : Life!Env \cup {None},
     eng : Database \cup {None}, lone : BOOLEAN]

\* What a request in flight knows of .env (e) and of the process (b).
RequestInv(p, e, b) ==
    /\ p \in Pending
    /\ p.pc # "idle" => b = "up" /\ p.req \in SetupRequest /\ p.cfg \in Life!Env
    /\ p.pc # "idle" /\ p.req.kind = "update" => Life!is_setup_complete(e) /\ Named(p.cfg)
    /\ p.pc \in Saved /\ p.req.kind = "wizard" => e.flag = "true"
    /\ p.pc = "init" => p.eng # None
    /\ p.pc = "upsert" => p.req.pwd # None
    /\ p.pc = "seed" => p.req.kind = "wizard" /\ p.req.pwd # None

\* The administrator that request p is about.
Who(p) == Life!Merged(p.req, p.cfg).admin

\* A request that has the panel to itself, and what it has done.
LoneInv(c) ==
    LET p == pending[c]
    IN  p.lone /\ p.pc # "idle" =>
          /\ \A k \in Client \ {c} : pending[k].pc = "idle"
          /\ p.pc \in Saved => engine = env.db /\ p.eng = env.db
          /\ p.pc = "upsert" => env.db \in schemas
          /\ p.pc = "seed" => env.db \in schemas /\ logins[env.db][Who(p)] = p.req.pwd

\* A panel that is set up names its administrator; a boot has that .env.
BootInv ==
    /\ Life!is_setup_complete(env) => Named(env)
    /\ boot \in {"init", "admin"} => Life!is_setup_complete(env) /\ engine = env.db
    /\ boot = "admin" => engine \in schemas

LifeInv ==
    /\ Life!TypeOK
    /\ pending \in [Client -> Pending]
    /\ BootInv
    /\ \A c \in Client : RequestInv(pending[c], env, boot) /\ LoneInv(c)

LEMMA InitLife == Life!Init => LifeInv
<1> SUFFICES ASSUME Life!Init PROVE LifeInv
  OBVIOUS
<1>1. Life!NoTask \in Pending /\ Life!NoTask.pc = "idle"
  BY DEF Life!NoTask, Pending
<1>2. \A c \in Client : pending[c] = Life!NoTask
  BY DEF Life!Init
<1>3. Life!TypeOK
  BY <1>1, <1>2, LifeAssumption DEF Life!Init, Life!TypeOK
<1>4. BootInv
  BY LifeAssumption DEF Life!Init, BootInv, Named
<1>5. \A c \in Client : RequestInv(pending[c], env, boot) /\ LoneInv(c)
  BY <1>1, <1>2 DEF RequestInv, LoneInv, Saved
<1>6. pending \in [Client -> Pending]
  BY <1>1 DEF Life!Init
<1> QED BY <1>3, <1>4, <1>5, <1>6 DEF LifeInv

\* What a request keeps while .env goes on.
LEMMA RequestKeeps ==
    ASSUME NEW p, NEW e, NEW f, NEW b, RequestInv(p, e, b),
           Life!is_setup_complete(e) => Life!is_setup_complete(f),
           e.flag = "true" => f.flag = "true"
    PROVE  RequestInv(p, f, b)
BY DEF RequestInv

\* A body is merged into .env: the panel is then set up, and names all.
LEMMA BootstrapNames ==
    ASSUME LifeInv, NEW r \in SetupRequest, r.kind = "update" => Life!is_setup_complete(env),
           Life!Bootstrap(r)
    PROVE  /\ env' \in Life!Env /\ Named(env') /\ engine' = env'.db /\ env'.db \in Database
           /\ Life!is_setup_complete(env')
           /\ env.flag = "true" => env'.flag = "true"
           /\ r.kind = "wizard" => env'.flag = "true"
<1>1. env \in Life!Env /\ r \in Life!Body
  BY LifeAssumption DEF LifeInv, Life!TypeOK
<1>2. r.kind = "wizard" => Named(r)
  BY LifeAssumption DEF Named
<1>3. r.kind = "update" => Named(env)
  BY DEF LifeInv, BootInv
<1>4. r.kind \in {"wizard", "update"}
  BY <1>1 DEF Life!Body
<1>5. /\ env'.flag = IF r.kind = "wizard" THEN "true" ELSE env.flag
      /\ env'.db = IF r.db = None THEN env.db ELSE r.db
      /\ env'.admin = IF r.admin = None THEN env.admin ELSE r.admin
      /\ env'.pwd = IF r.pwd = None THEN env.pwd ELSE r.pwd
      /\ env' = [flag |-> env'.flag, db |-> env'.db, admin |-> env'.admin, pwd |-> env'.pwd]
      /\ engine' = env'.db
  BY DEF Life!Bootstrap, Life!apply_bootstrap, Life!Merged
<1>6. /\ env'.flag \in {"absent", "true", "false"} /\ env'.db \in Database \cup {None}
      /\ env'.admin \in AdminName \cup {None} /\ env'.pwd \in Password \cup {None}
  BY <1>1, <1>5 DEF Life!Env, Life!Body
<1>7. env' \in Life!Env
  BY <1>5, <1>6 DEF Life!Env
<1>8. Named(env')
  BY <1>2, <1>3, <1>4, <1>5 DEF Named
<1>9. Life!is_setup_complete(env')
  BY <1>4, <1>5, <1>8 DEF Life!is_setup_complete, Named
<1> QED BY <1>5, <1>6, <1>7, <1>8, <1>9 DEF Named

\* A step of the request c that goes on as n, or ends.
LEMMA RequestStep ==
    ASSUME LifeInv, NEW c \in Client, pending[c].pc # "idle",
           NEW n \in Pending, pending' = [pending EXCEPT ![c] = n], UNCHANGED boot,
           env' \in Life!Env,
           Life!is_setup_complete(env) => Life!is_setup_complete(env'),
           Life!is_setup_complete(env') => Named(env'),
           env.flag = "true" => env'.flag = "true",
           RequestInv(n, env', boot), LoneInv(c)',
           engine' \in Database \cup {None}, schemas' \subseteq Database, worker' \in BOOLEAN,
           logins' \in [Database -> [AdminName -> Password \cup {None}]]
    PROVE  LifeInv'
<1>0. pending \in [Client -> Pending] /\ boot = "up"
  BY DEF LifeInv, RequestInv
<1>1. pending'[c] = n /\ pending' \in [Client -> Pending]
  BY <1>0
<1>2. \A k \in Client \ {c} : pending'[k] = pending[k]
  BY <1>0
<1>3. \A k \in Client : RequestInv(pending'[k], env', boot')
  <2> SUFFICES ASSUME NEW k \in Client PROVE RequestInv(pending'[k], env', boot')
    OBVIOUS
  <2>1. CASE k = c
    BY <1>1, <2>1
  <2>2. CASE k # c
    BY <1>2, <2>2, RequestKeeps DEF LifeInv
  <2> QED BY <2>1, <2>2
<1>4. \A k \in Client : LoneInv(k)'
  <2> SUFFICES ASSUME NEW k \in Client, k # c PROVE LoneInv(k)'
    OBVIOUS
  <2>1. ~(pending[k].lone /\ pending[k].pc # "idle")
    BY DEF LifeInv, LoneInv
  <2> QED BY <1>2, <2>1 DEF LoneInv
<1>5. Life!TypeOK'
  BY <1>3, <1>1 DEF LifeInv, Life!TypeOK, RequestInv, Pending, Saved
<1>6. BootInv'
  BY <1>0 DEF BootInv
<1> QED BY <1>1, <1>3, <1>4, <1>5, <1>6 DEF LifeInv

LEMMA IdleRequest ==
    /\ Life!NoTask \in Pending /\ Life!NoTask.pc = "idle"
    /\ \A e, b : RequestInv(Life!NoTask, e, b)
BY DEF Life!NoTask, Pending, RequestInv, Saved

\* The end of a request that leaves .env alone.
LEMMA RequestEnd ==
    ASSUME LifeInv, NEW c \in Client, pending[c].pc # "idle",
           pending' = Life!Ended(c), UNCHANGED <<boot, env, engine, worker>>,
           schemas' \subseteq Database,
           logins' \in [Database -> [AdminName -> Password \cup {None}]]
    PROVE  LifeInv'
<1>1. pending' = [pending EXCEPT ![c] = Life!NoTask]
  BY DEF Life!Ended
<1>2. pending'[c] = Life!NoTask
  BY <1>1 DEF LifeInv
<1>3. LoneInv(c)'
  BY <1>2, IdleRequest DEF LoneInv
<1> QED BY <1>1, <1>3, IdleRequest, RequestStep DEF LifeInv, BootInv, Life!TypeOK

LEMMA BeginLife ==
    ASSUME LifeInv, NEW c \in Client, NEW r \in SetupRequest, Life!Begin(c, r)
    PROVE  LifeInv'
<1> DEFINE first == IF r.db # None THEN "test" ELSE "init"
           eng == IF r.db # None THEN None ELSE engine'
           n == [pc |-> first, req |-> r, cfg |-> env, eng |-> eng, lone |-> Life!Running = {}]
<1>0. /\ pending \in [Client -> Pending] /\ boot = "up" /\ UNCHANGED <<boot, schemas, logins, worker>>
      /\ pending[c].pc = "idle" /\ Life!TypeOK /\ BootInv /\ r \in Life!Body
      /\ r.kind = "update" <=> Life!is_setup_complete(env)
  BY LifeAssumption DEF LifeInv, Life!Begin, Life!At
<1>1. pending' = [k \in Client |-> IF k = c THEN n
                                   ELSE [pending[k] EXCEPT !.lone = Life!At(k, "idle")]]
  BY DEF Life!Begin, Life!Started
<1>2. /\ env' \in Life!Env /\ engine' \in Database \cup {None}
      /\ Life!is_setup_complete(env) => Life!is_setup_complete(env')
      /\ Life!is_setup_complete(env') => Named(env')
      /\ env.flag = "true" => env'.flag = "true"
      /\ r.db = None => engine' = env'.db /\ env'.db \in Database /\ Life!is_setup_complete(env')
      /\ r.db = None /\ r.kind = "wizard" => env'.flag = "true"
  <2>1. CASE r.db # None
    BY <1>0, <2>1 DEF Life!Begin, Life!TypeOK, BootInv
  <2>2. CASE r.db = None
    <3>1. Life!Bootstrap(r)
      BY <2>2 DEF Life!Begin
    <3> QED BY <1>0, <2>2, <3>1, BootstrapNames
  <2> QED BY <2>1, <2>2
<1>3. n \in Pending /\ RequestInv(n, env', boot') /\ n.lone = (Life!Running = {})
  <2>1. n \in Pending
    BY <1>0, <1>2 DEF Pending, Saved, Life!TypeOK
  <2>2. r.kind = "update" => Life!is_setup_complete(env') /\ Named(env)
    BY <1>0, <1>2 DEF BootInv
  <2>3. first = "init" => eng # None /\ (r.kind = "wizard" => env'.flag = "true")
    BY <1>2 DEF Named
  <2> QED BY <1>0, <1>2, <2>1, <2>2, <2>3 DEF RequestInv, Saved, Life!TypeOK
<1>4. n.pc = first /\ n.req = r /\ n.cfg = env /\ n.eng = eng
  OBVIOUS
<1> HIDE DEF n
<1>5. pending'[c] = n /\ \A k \in Client \ {c} :
          pending'[k] = [pending[k] EXCEPT !.lone = (pending[k].pc = "idle")]
  BY <1>1 DEF Life!At
<1>6. \A k \in Client \ {c} : RequestInv(pending'[k], env', boot')
  <2> SUFFICES ASSUME NEW k \in Client \ {c} PROVE RequestInv(pending'[k], env', boot')
    OBVIOUS
  <2>1. RequestInv(pending[k], env', boot')
    BY <1>0, <1>2, RequestKeeps DEF LifeInv
  <2>2. pending[k] \in Pending
    BY <1>0
  <2>3. /\ pending'[k] \in Pending /\ pending'[k].pc = pending[k].pc
        /\ pending'[k].req = pending[k].req /\ pending'[k].cfg = pending[k].cfg
        /\ pending'[k].eng = pending[k].eng
    BY <1>5, <2>2 DEF Pending
  <2> QED BY <2>1, <2>3 DEF RequestInv
<1>7. \A k \in Client : LoneInv(k)'
  <2>1. \A k \in Client \ {c} : pending'[k].lone => pending'[k].pc = "idle"
    BY <1>0, <1>5 DEF Pending
  <2>2. n.lone => \A k \in Client \ {c} : pending'[k].pc = "idle"
    <3>1. n.lone => \A k \in Client : pending[k].pc = "idle"
      BY <1>3 DEF Life!Running, Life!At
    <3>2. \A k \in Client \ {c} : pending'[k].pc = pending[k].pc
      BY <1>0, <1>5 DEF Pending
    <3> QED BY <3>1, <3>2
  <2>3. LoneInv(c)'
    BY <1>2, <1>4, <1>5, <2>2 DEF LoneInv, Saved
  <2> QED BY <2>1, <2>3 DEF LoneInv
<1>8. pending' \in [Client -> Pending]
  <2>1. \A k \in Client : pending'[k] \in Pending
    BY <1>3, <1>5, <1>6 DEF RequestInv
  <2> QED BY <1>1, <2>1
<1>9. \A k \in Client : RequestInv(pending'[k], env', boot')
  BY <1>3, <1>5, <1>6
<1>10. Life!TypeOK'
  BY <1>0, <1>2, <1>9 DEF Life!TypeOK, RequestInv, Pending, Saved
<1>11. BootInv'
  BY <1>0, <1>2 DEF BootInv
<1> QED BY <1>7, <1>8, <1>9, <1>10, <1>11 DEF LifeInv

\* The connection was tested: .env is written and the engine bound to it.
LEMMA SaveLife == ASSUME LifeInv, NEW c \in Client, Life!Save(c) PROVE LifeInv'
<1> DEFINE p == pending[c]
           n == [p EXCEPT !.pc = "init", !.eng = engine']
<1>1. p.pc = "test" /\ p \in Pending /\ RequestInv(p, env, boot) /\ LoneInv(c)
      /\ UNCHANGED <<boot, schemas, logins, worker>>
      /\ schemas \subseteq Database /\ worker \in BOOLEAN
      /\ logins \in [Database -> [AdminName -> Password \cup {None}]]
  BY DEF Life!Save, Life!At, LifeInv, Life!TypeOK
<1>2. /\ env' \in Life!Env /\ Named(env') /\ engine' = env'.db /\ env'.db \in Database
      /\ Life!is_setup_complete(env')
      /\ env.flag = "true" => env'.flag = "true"
      /\ p.req.kind = "wizard" => env'.flag = "true"
  <2>1. p.req \in SetupRequest /\ (p.req.kind = "update" => Life!is_setup_complete(env))
    BY <1>1 DEF RequestInv
  <2>2. Life!Bootstrap(p.req)
    BY DEF Life!Save
  <2> QED BY <2>1, <2>2, BootstrapNames
<1>3. pending' = [pending EXCEPT ![c] = n]
  BY DEF Life!Save, Life!Goes, LifeInv
<1>4. /\ n \in Pending /\ n.pc = "init" /\ n.eng = env'.db /\ n.req = p.req /\ n.cfg = p.cfg
      /\ n.lone = p.lone
  BY <1>1, <1>2 DEF Pending, Saved
<1> HIDE DEF n
<1>5. RequestInv(n, env', boot)
  BY <1>1, <1>2, <1>4 DEF RequestInv, Named
<1>6. LoneInv(c)'
  <2>1. pending'[c] = n /\ \A k \in Client \ {c} : pending'[k] = pending[k]
    BY <1>3 DEF LifeInv
  <2> QED BY <1>1, <1>2, <1>4, <2>1 DEF LoneInv
<1> QED BY <1>1, <1>2, <1>3, <1>4, <1>5, <1>6, RequestStep

\* The schema exists; the session is taken from the engine of now.
LEMMA InitDbLife == ASSUME LifeInv, NEW c \in Client, Life!InitDb(c) PROVE LifeInv'
<1> DEFINE p == pending[c]
           n == [p EXCEPT !.pc = "upsert", !.eng = engine]
<1>1. /\ p.pc = "init" /\ p \in Pending /\ RequestInv(p, env, boot) /\ LoneInv(c)
      /\ UNCHANGED <<env, boot, engine, logins, worker>> /\ schemas' = schemas \cup {p.eng}
      /\ Life!TypeOK /\ BootInv
  BY DEF Life!InitDb, Life!At, LifeInv
<1>2. schemas' \subseteq Database
  BY <1>1 DEF RequestInv, Pending, Life!TypeOK
<1>3. CASE p.req.pwd = None
  <2>1. pending' = Life!Ended(c)
    BY <1>3 DEF Life!InitDb
  <2> QED BY <1>1, <1>2, <2>1, RequestEnd DEF Life!TypeOK
<1>4. CASE p.req.pwd # None
  <2>1. pending' = [pending EXCEPT ![c] = n]
    BY <1>4 DEF Life!InitDb, Life!Goes, LifeInv
  <2>2. /\ n \in Pending /\ n.pc = "upsert" /\ n.eng = engine /\ n.req = p.req /\ n.cfg = p.cfg
        /\ n.lone = p.lone
    BY <1>1 DEF Pending, Saved, Life!TypeOK
  <2> HIDE DEF n
  <2>3. RequestInv(n, env', boot)
    BY <1>1, <1>4, <2>2 DEF RequestInv, Saved
  <2>4. LoneInv(c)'
    <3>1. pending'[c] = n /\ \A k \in Client \ {c} : pending'[k] = pending[k]
      BY <2>1 DEF LifeInv
    <3> QED BY <1>1, <2>2, <3>1 DEF LoneInv, Saved
  <2> QED BY <1>1, <1>2, <2>1, <2>2, <2>3, <2>4, RequestStep DEF BootInv, Life!TypeOK
<1> QED BY <1>3, <1>4

\* The row of the administrator.
LEMMA UpsertTypes ==
    ASSUME LifeInv, NEW c \in Client, Life!_upsert_admin(c)
    PROVE  /\ pending[c].eng \in Database /\ Who(pending[c]) \in AdminName
           /\ logins' = [logins EXCEPT ![pending[c].eng][Who(pending[c])] = pending[c].req.pwd]
           /\ logins' \in [Database -> [AdminName -> Password \cup {None}]]
           /\ pending[c].pc = "upsert"
           /\ pending[c].req \in Life!Body /\ pending[c].req.pwd # None
<1> DEFINE p == pending[c]
<1>1. /\ p.pc = "upsert" /\ p \in Pending /\ RequestInv(p, env, boot)
      /\ p.eng \in schemas /\ Life!TypeOK
      /\ logins' = [logins EXCEPT ![p.eng][Who(p)] = p.req.pwd]
  BY DEF Life!_upsert_admin, Life!At, LifeInv, Who
<1>2. p.req \in Life!Body /\ p.req \in SetupRequest /\ p.cfg \in Life!Env /\ p.req.pwd # None
  BY <1>1, LifeAssumption DEF RequestInv
<1>3. Who(p) \in AdminName
  <2>1. p.req.kind = "wizard" => p.req.admin # None
    BY <1>2, LifeAssumption
  <2>2. p.req.kind = "update" => p.cfg.admin # None
    BY <1>1 DEF RequestInv, Named
  <2> QED BY <1>2, <2>1, <2>2 DEF Who, Life!Merged, Life!Body, Life!Env
<1>4. p.req.pwd \in Password \cup {None}
  BY <1>2 DEF Life!Body
<1>5. p.eng \in Database
  BY <1>1 DEF Life!TypeOK
<1> QED BY <1>1, <1>2, <1>3, <1>4, <1>5 DEF Life!TypeOK

LEMMA UpsertLife == ASSUME LifeInv, NEW c \in Client, Life!_upsert_admin(c) PROVE LifeInv'
<1> DEFINE p == pending[c]
           n == [p EXCEPT !.pc = "seed", !.eng = engine]
<1>1. /\ p.pc = "upsert" /\ p \in Pending /\ RequestInv(p, env, boot) /\ LoneInv(c)
      /\ UNCHANGED <<env, boot, engine, schemas, worker>>
      /\ Life!TypeOK /\ BootInv
      /\ logins' \in [Database -> [AdminName -> Password \cup {None}]]
  BY UpsertTypes DEF Life!_upsert_admin, LifeInv
<1>2. CASE p.req.kind # "wizard"
  <2>1. pending' = Life!Ended(c)
    BY <1>2 DEF Life!_upsert_admin
  <2> QED BY <1>1, <2>1, RequestEnd DEF Life!TypeOK
<1>3. CASE p.req.kind = "wizard"
  <2>1. pending' = [pending EXCEPT ![c] = n]
    BY <1>3 DEF Life!_upsert_admin, Life!Goes, LifeInv
  <2>2. /\ n \in Pending /\ n.pc = "seed" /\ n.eng = engine /\ n.req = p.req /\ n.cfg = p.cfg
        /\ n.lone = p.lone
    BY <1>1 DEF Pending, Saved, Life!TypeOK
  <2>3. Who(n) = Who(p)
    BY <2>2 DEF Who
  <2> HIDE DEF n
  <2>4. RequestInv(n, env', boot)
    BY <1>1, <1>3, <2>2 DEF RequestInv, Saved
  <2>5. LoneInv(c)'
    <3>1. pending'[c] = n /\ \A k \in Client \ {c} : pending'[k] = pending[k]
      BY <2>1 DEF LifeInv
    <3>2. logins'[p.eng][Who(p)] = p.req.pwd
      <4>1. logins \in [Database -> [AdminName -> Password \cup {None}]]
        BY <1>1 DEF Life!TypeOK
      <4>2. /\ pending[c].eng \in Database /\ Who(pending[c]) \in AdminName
            /\ logins' = [logins EXCEPT ![pending[c].eng][Who(pending[c])] = pending[c].req.pwd]
        BY UpsertTypes
      <4> QED BY <4>1, <4>2
    <3> QED BY <1>1, <2>2, <2>3, <3>1, <3>2 DEF LoneInv, Saved
  <2> QED BY <1>1, <2>1, <2>2, <2>4, <2>5, RequestStep DEF BootInv, Life!TypeOK
<1> QED BY <1>2, <1>3

\* The wizard's last session, and what is refused or fails.
LEMMA SeedLife ==
    ASSUME LifeInv, NEW c \in Client, Life!Seed(c) \/ Life!Fail(c)
    PROVE  LifeInv'
<1>1. CASE Life!Fail(c)
  BY <1>1, RequestEnd DEF Life!Fail, Life!At, LifeInv, Life!TypeOK
<1>2. CASE Life!Seed(c)
  <2>1. /\ pending[c].pc = "seed" /\ env' = [env EXCEPT !.flag = "true"] /\ worker' = TRUE
        /\ UNCHANGED <<boot, engine, schemas, logins>>
        /\ pending' = [pending EXCEPT ![c] = Life!NoTask]
    BY <1>2 DEF Life!Seed, Life!At, Life!Ended
  <2>2. env \in Life!Env /\ env.flag = "true" /\ BootInv /\ Life!TypeOK
    BY <2>1 DEF LifeInv, Life!TypeOK, RequestInv, Saved
  <2>3. env' = env
    BY <2>1, <2>2 DEF Life!Env
  <2>4. LoneInv(c)'
    BY <2>1, IdleRequest DEF LifeInv, LoneInv
  <2> QED BY <2>1, <2>2, <2>3, <2>4, IdleRequest, RequestStep DEF BootInv, Life!TypeOK
<1> QED BY <1>1, <1>2

\* The process starts, goes on with its boot, ends; no request is in flight before
\* it is up.
LEMMA ProcessLife ==
    ASSUME LifeInv, Life!Start \/ Life!BootTables \/ Life!BootAdmin \/ Life!Down
    PROVE  LifeInv'
<1>1. CASE Life!Down
  <2>1. /\ boot' = "down" /\ engine' = None /\ worker' = FALSE /\ UNCHANGED <<env, schemas, logins>>
        /\ \A k \in Client : pending'[k] = Life!NoTask
        /\ pending' \in [Client -> Pending]
    BY <1>1, IdleRequest DEF Life!Down
  <2>2. \A k \in Client : RequestInv(pending'[k], env', boot') /\ LoneInv(k)'
    BY <2>1, IdleRequest DEF LoneInv
  <2>3. Life!TypeOK' /\ BootInv'
    BY <2>1, IdleRequest DEF LifeInv, Life!TypeOK, BootInv
  <2> QED BY <2>1, <2>2, <2>3 DEF LifeInv
<1>2. CASE Life!Start \/ Life!BootTables \/ Life!BootAdmin
  <2>1. \A k \in Client : pending[k].pc = "idle"
    BY <1>2 DEF LifeInv, RequestInv, Life!Start, Life!BootTables, Life!BootAdmin
  <2>2. UNCHANGED <<env, pending>> /\ env \in Life!Env /\ Life!TypeOK /\ BootInv
    BY <1>2 DEF Life!Start, Life!BootTables, Life!BootAdmin, LifeInv, Life!TypeOK
  <2>3. \A k \in Client : RequestInv(pending[k], env', boot') /\ LoneInv(k)'
    BY <2>1, <2>2 DEF LifeInv, RequestInv, LoneInv, Saved
  <2>4. CASE Life!Start
    <3>1. Life!TypeOK' /\ BootInv'
      BY <2>1, <2>2, <2>4 DEF Life!Start, Life!TypeOK, BootInv, Life!Env
    <3> QED BY <2>2, <2>3, <3>1 DEF LifeInv
  <2>5. CASE Life!BootTables
    <3>1. engine \in Database
      BY <2>2, <2>5 DEF Life!BootTables, BootInv, Named, Life!TypeOK
    <3>2. Life!TypeOK' /\ BootInv'
      BY <2>1, <2>2, <2>5, <3>1 DEF Life!BootTables, Life!TypeOK, BootInv
    <3> QED BY <2>2, <2>3, <3>2 DEF LifeInv
  <2>6. CASE Life!BootAdmin
    <3>1. logins' \in [Database -> [AdminName -> Password \cup {None}]]
      BY <2>2, <2>6 DEF Life!BootAdmin, Life!ensure_admin_user, Life!TypeOK, Life!Env
    <3>2. Life!TypeOK' /\ BootInv'
      BY <2>1, <2>2, <2>6, <3>1 DEF Life!BootAdmin, Life!TypeOK, BootInv
    <3> QED BY <2>2, <2>3, <3>2 DEF LifeInv
  <2> QED BY <1>2, <2>4, <2>5, <2>6
<1> QED BY <1>1, <1>2

LEMMA NextLife == LifeInv /\ (Life!Next \/ UNCHANGED lifeVars) => LifeInv'
<1> SUFFICES ASSUME LifeInv, Life!Next \/ UNCHANGED lifeVars PROVE LifeInv'
  OBVIOUS
<1>1. CASE UNCHANGED lifeVars
  BY <1>1 DEF lifeVars, LifeInv, Life!TypeOK, BootInv, LoneInv
<1>2. CASE Life!Next
  BY <1>2, ProcessLife, BeginLife, SaveLife, InitDbLife, UpsertLife, SeedLife DEF Life!Next
<1> QED BY <1>1, <1>2

LEMMA PanelLifeInv == PanelSpec => []LifeInv
<1>1. PanelInit => LifeInv
  BY InitLife DEF PanelInit
<1>2. LifeInv /\ [PanelNext]_panelVars => LifeInv'
  BY NextLife, PanelMovesLife
<1> QED BY <1>1, <1>2, PTL DEF PanelSpec, panelVars

PasswordStep ==
    \A d \in Database, a \in AdminName :
        logins'[d][a] # logins[d][a] /\ logins[d][a] # None
            => \E c \in Client : Life!At(c, "upsert") /\ logins'[d][a] = pending[c].req.pwd

LEMMA NextPassword == LifeInv /\ [PanelNext]_panelVars => [PasswordStep]_(Life!vars)
<1> SUFFICES ASSUME LifeInv, Life!Next \/ UNCHANGED lifeVars PROVE PasswordStep
  BY PanelMovesLife
<1>0. logins \in [Database -> [AdminName -> Password \cup {None}]]
  BY DEF LifeInv, Life!TypeOK
<1>1. CASE Life!BootAdmin
  <2>1. logins' = [logins EXCEPT ![engine] = Life!ensure_admin_user(@)]
    BY <1>1 DEF Life!BootAdmin
  <2>2. ASSUME NEW d \in Database, NEW a \in AdminName, logins[d][a] # None
        PROVE  logins'[d][a] = logins[d][a]
    <3>1. CASE d # engine
      BY <1>0, <2>1, <3>1
    <3>2. CASE d = engine
      <4>1. logins'[d] = Life!ensure_admin_user(logins[d])
        BY <1>0, <2>1, <3>2
      <4>2. logins[d] \in [AdminName -> Password \cup {None}]
        BY <1>0
      <4> QED BY <2>2, <4>1, <4>2 DEF Life!ensure_admin_user
    <3> QED BY <3>1, <3>2
  <2> QED BY <2>2 DEF PasswordStep
<1>2. ASSUME NEW c \in Client, Life!_upsert_admin(c) PROVE PasswordStep
  <2>1. /\ pending[c].eng \in Database /\ Who(pending[c]) \in AdminName
        /\ logins' = [logins EXCEPT ![pending[c].eng][Who(pending[c])] = pending[c].req.pwd]
        /\ Life!At(c, "upsert")
    BY <1>2, UpsertTypes DEF Life!At
  <2> QED BY <1>0, <2>1 DEF PasswordStep
<1>3. CASE UNCHANGED logins
  BY <1>3 DEF PasswordStep
<1>4. ASSUME NEW c \in Client,
             \/ \E r \in SetupRequest : Life!Begin(c, r)
             \/ Life!Save(c) \/ Life!InitDb(c) \/ Life!Seed(c) \/ Life!Fail(c)
      PROVE  UNCHANGED logins
  BY <1>4 DEF Life!Begin, Life!Save, Life!InitDb, Life!Seed, Life!Fail
<1>5. ASSUME Life!Start \/ Life!BootTables \/ Life!Down \/ UNCHANGED lifeVars
      PROVE  UNCHANGED logins
  BY <1>5 DEF Life!Start, Life!BootTables, Life!Down, lifeVars
<1> QED BY <1>1, <1>2, <1>3, <1>4, <1>5 DEF Life!Next

\* persistence.py: "Existing DB password hashes are never overwritten from `.env` on
\* restart": only a request that carries a password writes it over another.
THEOREM PanelPasswordsChangeOnRequest == PanelSpec => PasswordsChangeOnRequest
<1> QED BY NextPassword, PanelLifeInv, PTL
        DEF PanelSpec, panelVars, PasswordsChangeOnRequest, Life!PasswordsChangeOnRequest,
            PasswordStep

HealStep ==
    boot # "up" /\ boot' = "up" /\ Life!is_setup_complete(env)
        => env.db \in schemas' /\ logins'[env.db][env.admin] # None

LEMMA NextHeals == LifeInv /\ [PanelNext]_panelVars => [HealStep]_(Life!vars)
<1> SUFFICES ASSUME LifeInv, Life!Next \/ UNCHANGED lifeVars,
                    boot # "up", boot' = "up", Life!is_setup_complete(env)
             PROVE  env.db \in schemas' /\ logins'[env.db][env.admin] # None
  BY PanelMovesLife DEF HealStep
<1>1. \A c \in Client : pending[c].pc = "idle"
  BY DEF LifeInv, RequestInv
<1>2. Life!BootAdmin
  BY <1>1 DEF Life!Next, Life!Start, Life!BootTables, Life!Down, Life!Begin, Life!Save, Life!InitDb,
              Life!_upsert_admin, Life!Seed, Life!Fail, Life!At, lifeVars
<1>3. /\ logins \in [Database -> [AdminName -> Password \cup {None}]]
      /\ env.db \in Database /\ env.admin \in AdminName /\ env.pwd # None
      /\ engine = env.db /\ engine \in schemas
  BY <1>2 DEF LifeInv, Life!TypeOK, BootInv, Named, Life!BootAdmin, Life!Env
<1>4. logins'[env.db] = Life!ensure_admin_user(logins[env.db])
  BY <1>2, <1>3 DEF Life!BootAdmin
<1>5. logins[env.db] \in [AdminName -> Password \cup {None}]
  BY <1>3
<1>6. logins'[env.db][env.admin] # None
  BY <1>3, <1>4, <1>5 DEF Life!ensure_admin_user
<1> QED BY <1>2, <1>3, <1>6 DEF Life!BootAdmin

\* persistence.py: a panel that is set up serves only once the administrator of .env is
\* in its database, also after a wizard that failed or was stopped half way.
THEOREM PanelBootHeals == PanelSpec => BootHeals
<1> QED BY NextHeals, PanelLifeInv, PTL
        DEF PanelSpec, panelVars, BootHeals, Life!BootHeals, HealStep

SignInStep ==
    \A c \in Client :
        pending[c].pc \in {"upsert", "seed"} /\ pending[c].lone /\ Life!AnswersOk(c) /\ pending'[c].pc = "idle"
            => Life!SignsIn(c)

LEMMA NextSignIn == LifeInv /\ [PanelNext]_panelVars => [SignInStep]_(Life!vars)
<1> SUFFICES ASSUME LifeInv, NEW c \in Client,
                    pending[c].pc \in {"upsert", "seed"}, pending[c].lone, Life!AnswersOk(c),
                    pending'[c].pc = "idle"
             PROVE  Life!SignsIn(c)
  BY DEF SignInStep
<1>1. LoneInv(c) /\ RequestInv(pending[c], env, boot) /\ Life!TypeOK
  BY DEF LifeInv
<1>2. CASE Life!Seed(c)
  <2>1. pending[c].pc = "seed" /\ env' = [env EXCEPT !.flag = "true"]
        /\ UNCHANGED <<engine, schemas, logins>> /\ env \in Life!Env
    BY <1>1, <1>2 DEF Life!Seed, Life!At, Life!TypeOK
  <2>2. env'.db = env.db
    BY <2>1 DEF Life!Env
  <2>3. engine = env.db /\ env.db \in schemas /\ logins[env.db][Who(pending[c])] = pending[c].req.pwd
    BY <1>1, <2>1 DEF LoneInv, Saved
  <2> QED BY <2>1, <2>2, <2>3 DEF Life!SignsIn, Who
<1>3. CASE Life!_upsert_admin(c)
  <2>1. /\ pending[c].eng \in Database /\ Who(pending[c]) \in AdminName
        /\ logins' = [logins EXCEPT ![pending[c].eng][Who(pending[c])] = pending[c].req.pwd]
        /\ pending[c].pc = "upsert" /\ UNCHANGED <<env, engine, schemas>>
    BY <1>3, UpsertTypes DEF Life!_upsert_admin
  <2>2. engine = env.db /\ pending[c].eng = env.db /\ env.db \in schemas
    BY <1>1, <2>1 DEF LoneInv, Saved
  <2>3. logins \in [Database -> [AdminName -> Password \cup {None}]]
    BY <1>1 DEF Life!TypeOK
  <2>4. logins'[env.db][Who(pending[c])] = pending[c].req.pwd
    BY <2>1, <2>2, <2>3
  <2> QED BY <2>1, <2>2, <2>4 DEF Life!SignsIn, Who
<1>4. ~Life!InitDb(c)
  BY DEF Life!InitDb, Life!At
<1> QED BY <1>2, <1>3, <1>4 DEF Life!AnswersOk

\* setup.py: "Setup complete. You can sign in now.": a request that had the panel to
\* itself and is answered ok leaves an administrator who signs in with the
\* password it gave, on the database the panel uses from now on.
THEOREM PanelLoneOkMeansSignIn == PanelSpec => LoneOkMeansSignIn
<1> QED BY NextSignIn, PanelLifeInv, PTL
        DEF PanelSpec, panelVars, LoneOkMeansSignIn, Life!LoneOkMeansSignIn, SignInStep

-----------------------------------------------------------------------------
LEMMA PanelMovesSettings == [PanelNext]_panelVars => Settings!Next \/ UNCHANGED settingsVars
BY DEF PanelNext, panelVars

SettingRound == {"app", "modules", "sync", "monitor", "back"}
SettingContent == SettingValue \cup BOOLEAN \cup SettingSecret \cup {None}
SettingDoc ==
    [name : SettingValue \cup {None}, pg : BOOLEAN, rest : SettingValue \cup {None},
     on : BOOLEAN, pwd : SettingSecret \cup {None}]
SettingJob ==
    [body : SaveRequest \cup {None}, todo : SUBSET SettingRound,
     seen : {None} \cup UNION {[Settings!Keys[r] -> SettingContent] : r \in SettingRound},
     lone : BOOLEAN]

\* A document that a request holds is one the table has had.
ReadTyped(r, doc_) ==
    /\ doc_ \in [Settings!Keys[r] -> SettingContent]
    /\ r \in {"modules", "back"} => doc_.pg \in BOOLEAN /\ doc_.rest \in SettingValue \cup {None}
    /\ r \in {"sync", "monitor"} => doc_.on \in BOOLEAN /\ doc_.pwd \in SettingSecret \cup {None}

\* The rounds ahead are the last of those the body asks for.
AheadInOrder(s) ==
    /\ s.body \in SaveRequest
    /\ s.todo \subseteq Settings!Rounds(s.body)
    /\ \A r \in s.todo, q \in Settings!Rounds(s.body) :
          Settings!Rank[q] > Settings!Rank[r] => q \in s.todo

\* What the rounds of body b that are done have left in the documents.
Behind(b, done) ==
    /\ "app" \in done => doc.name = b.name
    /\ "modules" \in done => /\ b.rest # None => doc.rest = b.rest
                             /\ b.pg # None /\ b.on = None => doc.pg = b.pg
    /\ "sync" \in done /\ b.on = None => doc.on = b.pg
    /\ "monitor" \in done /\ b.on # None => doc.on = b.on

\* A save that nobody overlaps holds what the documents say and has left in them what
\* its rounds were for.
SaveInv ==
    /\ doc \in SettingDoc /\ saver \in [Client -> SettingJob]
    /\ \A c \in Settings!Busy :
          /\ AheadInOrder(saver[c])
          /\ saver[c].seen # None => ReadTyped(Settings!First(saver[c].todo), saver[c].seen)
          /\ saver[c].lone =>
                /\ Settings!Busy = {c}
                /\ saver[c].seen # None =>
                      \A k \in Settings!Keys[Settings!First(saver[c].todo)] :
                          saver[c].seen[k] = doc[k]
                /\ Behind(saver[c].body, Settings!Rounds(saver[c].body) \ saver[c].todo)

LEMMA InitSettings == Settings!Init => SaveInv
BY DEF Settings!Init, Settings!Idle, SaveInv, Settings!Busy, SettingDoc, SettingJob

\* The next round is the first of those ahead.
LEMMA FirstRound ==
    ASSUME NEW todo_ \in SUBSET SettingRound, todo_ # {}
    PROVE  /\ Settings!First(todo_) \in todo_
           /\ \A q \in todo_ : Settings!Rank[Settings!First(todo_)] <= Settings!Rank[q]
<1>1. \E r \in todo_ : \A q \in todo_ : Settings!Rank[r] <= Settings!Rank[q]
  <2>0. /\ Settings!Rank["app"] = 1 /\ Settings!Rank["modules"] = 2
        /\ Settings!Rank["sync"] = 3 /\ Settings!Rank["monitor"] = 4
        /\ Settings!Rank["back"] = 5
    BY DEF Settings!Rank
  <2>1. todo_ \subseteq {"app", "modules", "sync", "monitor", "back"}
    BY DEF SettingRound
  <2>2. CASE "app" \in todo_
    BY <2>0, <2>1, <2>2
  <2>3. CASE "app" \notin todo_ /\ "modules" \in todo_
    BY <2>0, <2>1, <2>3
  <2>4. CASE todo_ \cap {"app", "modules"} = {} /\ "sync" \in todo_
    BY <2>0, <2>1, <2>4
  <2>5. CASE todo_ \cap {"app", "modules", "sync"} = {} /\ "monitor" \in todo_
    BY <2>0, <2>1, <2>5
  <2>6. CASE todo_ = {"back"}
    BY <2>0, <2>6
  <2> QED BY <2>1, <2>2, <2>3, <2>4, <2>5, <2>6
<1> QED BY <1>1 DEF Settings!First

\* The rounds a body asks for, one by one.
LEMMA WantedRounds ==
    ASSUME NEW b
    PROVE  /\ Settings!Rounds(b) \subseteq SettingRound
           /\ "app" \in Settings!Rounds(b) <=> b.name # None
           /\ "modules" \in Settings!Rounds(b) <=> b.pg # None \/ b.rest # None
           /\ "sync" \in Settings!Rounds(b) <=> b.pg # None
           /\ "monitor" \in Settings!Rounds(b) <=> b.on # None \/ b.pwd # None
           /\ "back" \in Settings!Rounds(b) <=> b.on # None
<1>1. /\ Settings!Wanted(b)["app"] <=> b.name # None
      /\ Settings!Wanted(b)["sync"] <=> b.pg # None
      /\ Settings!Wanted(b)["back"] <=> b.on # None
  BY DEF Settings!Wanted
<1>2. Settings!Wanted(b)["modules"] <=> b.pg # None \/ b.rest # None
  BY DEF Settings!Wanted
<1>3. Settings!Wanted(b)["monitor"] <=> b.on # None \/ b.pwd # None
  BY DEF Settings!Wanted
<1> QED BY <1>1, <1>2, <1>3 DEF Settings!Rounds, SettingRound

\* What round r of body b leaves in the documents, from the one it read.
RoundWrites(r, b, read) ==
    /\ r = "app" =>
         /\ doc'.name = b.name
         /\ UNCHANGED <<doc.pg, doc.rest, doc.on, doc.pwd>>
    /\ r = "modules" =>
         /\ doc'.pg = Settings!deep_merge(read.pg, b.pg)
         /\ doc'.rest = Settings!deep_merge(read.rest, b.rest)
         /\ UNCHANGED <<doc.name, doc.on, doc.pwd>>
    /\ r = "sync" =>
         /\ doc'.on = b.pg /\ doc'.pwd = read.pwd
         /\ UNCHANGED <<doc.name, doc.pg, doc.rest>>
    /\ r = "monitor" =>
         /\ doc'.on = Settings!deep_merge(read.on, b.on)
         /\ doc'.pwd = Settings!_merge_password(b.pwd, read.pwd)
         /\ UNCHANGED <<doc.name, doc.pg, doc.rest>>
    /\ r = "back" =>
         /\ doc'.pg = b.on /\ doc'.rest = read.rest
         /\ UNCHANGED <<doc.name, doc.on, doc.pwd>>

LEMMA WriteRound ==
    ASSUME SaveInv, NEW c \in Client, Settings!set_setting(c),
           NEW s, s = saver[c], NEW b, b = s.body, NEW r, r = Settings!First(s.todo)
    PROVE  /\ c \in Settings!Busy /\ s \in SettingJob /\ b \in SaveRequest /\ s.seen # None
           /\ r \in s.todo /\ \A q \in s.todo : Settings!Rank[r] <= Settings!Rank[q]
           /\ doc' \in SettingDoc
           /\ RoundWrites(r, b, s.seen)
<1>1. c \in Settings!Busy /\ s \in SettingJob /\ s.seen # None
  BY DEF SaveInv, Settings!set_setting
<1>2. AheadInOrder(s) /\ ReadTyped(r, s.seen)
  BY <1>1 DEF SaveInv
<1>3. b \in SaveRequest /\ b \in Settings!SettingsUpdate /\ s.todo \subseteq Settings!Rounds(b)
  BY <1>2, SettingsAssumption DEF AheadInOrder, SettingsAssumption
<1>4. r \in s.todo /\ \A q \in s.todo : Settings!Rank[r] <= Settings!Rank[q]
  BY <1>1, FirstRound DEF Settings!Busy, SettingJob
<1>5. r \in SettingRound /\ r \in Settings!Rounds(b)
  BY <1>3, <1>4, WantedRounds
<1>6. PICK new : /\ new = Settings!Patched(r, b, s.seen) /\ doc \in SettingDoc
                 /\ doc' = [k \in DOMAIN doc |-> IF k \in DOMAIN new THEN new[k] ELSE doc[k]]
  BY DEF SaveInv, Settings!set_setting
<1>60. /\ DOMAIN doc' = {"name", "pg", "rest", "on", "pwd"}
       /\ \A k \in {"name", "pg", "rest", "on", "pwd"} :
             doc'[k] = IF k \in DOMAIN new THEN new[k] ELSE doc[k]
       /\ doc' = [k \in {"name", "pg", "rest", "on", "pwd"} |-> doc'[k]]
  BY <1>6 DEF SettingDoc
<1>7. CASE r = "app"
  <2>1. new = [name |-> b.name]
    BY <1>6, <1>7 DEF Settings!Patched
  <2>2. doc'.name = b.name /\ UNCHANGED <<doc.pg, doc.rest, doc.on, doc.pwd>>
    BY <2>1, <1>60
  <2> QED BY <2>2, <1>1, <1>3, <1>4, <1>6, <1>60, <1>7 DEF SettingDoc, Settings!SettingsUpdate, RoundWrites
<1>8. CASE r = "modules"
  <2>1. new =
            [pg |-> Settings!deep_merge(s.seen.pg, b.pg),
             rest |-> Settings!deep_merge(s.seen.rest, b.rest)]
    BY <1>6, <1>8 DEF Settings!Patched
  <2>2. /\ doc'.pg = Settings!deep_merge(s.seen.pg, b.pg)
        /\ doc'.rest = Settings!deep_merge(s.seen.rest, b.rest)
        /\ UNCHANGED <<doc.name, doc.on, doc.pwd>>
    BY <2>1, <1>60
  <2>3. /\ Settings!deep_merge(s.seen.pg, b.pg) \in BOOLEAN
        /\ Settings!deep_merge(s.seen.rest, b.rest) \in SettingValue \cup {None}
    BY <1>2, <1>3, <1>8 DEF ReadTyped, Settings!SettingsUpdate, Settings!Switch, Settings!deep_merge
  <2> QED BY <2>2, <2>3, <1>1, <1>3, <1>4, <1>6, <1>60, <1>8 DEF SettingDoc, RoundWrites
<1>9. CASE r = "sync"
  <2>1. /\ new = [s.seen EXCEPT !.on = b.pg]
        /\ DOMAIN s.seen = {"on", "pwd"}
    BY <1>2, <1>6, <1>9 DEF Settings!Patched, ReadTyped, Settings!Keys
  <2>2. doc'.on = b.pg /\ doc'.pwd = s.seen.pwd /\ UNCHANGED <<doc.name, doc.pg, doc.rest>>
    BY <2>1, <1>60
  <2>3. b.pg \in BOOLEAN /\ s.seen.pwd \in SettingSecret \cup {None}
    BY <1>2, <1>3, <1>5, <1>9, WantedRounds DEF ReadTyped, Settings!SettingsUpdate, Settings!Switch
  <2> QED BY <2>2, <2>3, <1>1, <1>3, <1>4, <1>6, <1>60, <1>9 DEF SettingDoc, RoundWrites
<1>10. CASE r = "monitor"
  <2>1. new =
            [on |-> Settings!deep_merge(s.seen.on, b.on),
             pwd |-> Settings!_merge_password(b.pwd, s.seen.pwd)]
    BY <1>6, <1>10 DEF Settings!Patched
  <2>2. /\ doc'.on = Settings!deep_merge(s.seen.on, b.on)
        /\ doc'.pwd = Settings!_merge_password(b.pwd, s.seen.pwd)
        /\ UNCHANGED <<doc.name, doc.pg, doc.rest>>
    BY <2>1, <1>60
  <2>3. /\ Settings!deep_merge(s.seen.on, b.on) \in BOOLEAN
        /\ Settings!_merge_password(b.pwd, s.seen.pwd) \in SettingSecret \cup {None}
    BY <1>2, <1>3, <1>10 DEF ReadTyped, Settings!SettingsUpdate, Settings!Switch,
                             Settings!deep_merge, Settings!_merge_password
  <2> QED BY <2>2, <2>3, <1>1, <1>3, <1>4, <1>6, <1>60, <1>10 DEF SettingDoc, RoundWrites
<1>11. CASE r = "back"
  <2>1. /\ new = [s.seen EXCEPT !.pg = b.on]
        /\ DOMAIN s.seen = {"pg", "rest"}
    BY <1>2, <1>6, <1>11 DEF Settings!Patched, ReadTyped, Settings!Keys
  <2>2. doc'.pg = b.on /\ doc'.rest = s.seen.rest /\ UNCHANGED <<doc.name, doc.on, doc.pwd>>
    BY <2>1, <1>60
  <2>3. b.on \in BOOLEAN /\ s.seen.rest \in SettingValue \cup {None}
    BY <1>2, <1>3, <1>5, <1>11, WantedRounds DEF ReadTyped, Settings!SettingsUpdate, Settings!Switch
  <2> QED BY <2>2, <2>3, <1>1, <1>3, <1>4, <1>6, <1>60, <1>11 DEF SettingDoc, RoundWrites
<1> QED BY <1>5, <1>7, <1>8, <1>9, <1>10, <1>11 DEF SettingRound

\* A request that another step leaves alone keeps what it has, but for being alone.
LEMMA OtherSaves ==
    ASSUME SaveInv, NEW c \in Client, NEW d \in Settings!Busy \ {c}, UNCHANGED doc,
           saver'[d] = [saver[d] EXCEPT !.lone = FALSE] \/ (saver'[d] = saver[d] /\ c \in Settings!Busy)
    PROVE  /\ AheadInOrder(saver'[d]) /\ ~saver'[d].lone
           /\ saver'[d].seen # None => ReadTyped(Settings!First(saver'[d].todo), saver'[d].seen)
<1>1. saver[d] \in SettingJob /\ (c \in Settings!Busy => ~saver[d].lone)
  BY DEF SaveInv, Settings!Busy
<1>2. /\ saver'[d].body = saver[d].body /\ saver'[d].todo = saver[d].todo
      /\ saver'[d].seen = saver[d].seen /\ ~saver'[d].lone
  BY <1>1 DEF SettingJob
<1>3. /\ AheadInOrder(saver[d])
      /\ saver[d].seen # None => ReadTyped(Settings!First(saver[d].todo), saver[d].seen)
  BY DEF SaveInv
<1> QED BY <1>2, <1>3 DEF AheadInOrder

LEMMA AcceptSaves ==
    ASSUME SaveInv, NEW c \in Client, NEW b \in SaveRequest, Settings!Accept(c, b)
    PROVE  SaveInv'
<1> DEFINE Fresh == [body |-> b, todo |-> Settings!Rounds(b), seen |-> None,
                     lone |-> Settings!Busy = {}]
<1>1. /\ c \notin Settings!Busy /\ UNCHANGED doc /\ Settings!Rounds(b) # {}
      /\ saver' = [k \in Client |-> IF k = c THEN Fresh
                                    ELSE [saver[k] EXCEPT !.lone = k \notin Settings!Busy]]
  BY DEF Settings!Accept
<1>2. Fresh \in SettingJob
  BY WantedRounds DEF SettingJob
<1>3. saver' \in [Client -> SettingJob]
  BY <1>1, <1>2 DEF SaveInv, SettingJob
<1>4. \A d \in Client \ {c} : saver'[d].todo = saver[d].todo
  BY <1>1 DEF SaveInv, SettingJob
<1>5. Settings!Busy' = Settings!Busy \cup {c}
  BY <1>1, <1>4 DEF Settings!Busy
<1>6. ASSUME NEW d \in Settings!Busy', d # c
      PROVE  /\ AheadInOrder(saver'[d]) /\ ~saver'[d].lone
             /\ saver'[d].seen # None =>
                    ReadTyped(Settings!First(saver'[d].todo), saver'[d].seen)
  <2>1. d \in Settings!Busy /\ saver'[d] = [saver[d] EXCEPT !.lone = FALSE]
    BY <1>1, <1>5, <1>6 DEF Settings!Busy
  <2> QED BY <2>1, <1>1, <1>6, OtherSaves
<1>7. /\ saver'[c].body = b /\ saver'[c].todo = Settings!Rounds(b) /\ saver'[c].seen = None
      /\ saver'[c].lone <=> Settings!Busy = {}
  BY <1>1
<1>8. AheadInOrder(saver'[c]) /\ Behind(b, {})'
  BY <1>7 DEF AheadInOrder, Behind
<1>9. Behind(saver[c].body, Settings!Rounds(saver[c].body) \ saver[c].todo)'
  BY <1>7, <1>8
<1> HIDE DEF Fresh
<1>10. ASSUME NEW d \in Settings!Busy'
       PROVE  /\ AheadInOrder(saver'[d])
              /\ saver'[d].seen # None =>
                    ReadTyped(Settings!First(saver'[d].todo), saver'[d].seen)
              /\ saver'[d].lone =>
                    /\ d = c /\ Settings!Busy' = {c} /\ saver'[d].seen = None
  BY <1>5, <1>6, <1>7, <1>8
<1> QED BY <1>1, <1>3, <1>9, <1>10 DEF SaveInv

LEMMA ReadSaves == ASSUME SaveInv, NEW c \in Client, Settings!get_setting(c) PROVE SaveInv'
<1> DEFINE r == Settings!First(saver[c].todo)
           Read == [k \in Settings!Keys[r] |-> doc[k]]
<1>1. /\ c \in Settings!Busy /\ UNCHANGED doc
      /\ saver' = [saver EXCEPT ![c].seen = Read]
  BY DEF Settings!get_setting
<1>2. saver \in [Client -> SettingJob] /\ doc \in SettingDoc /\ saver[c] \in SettingJob
  BY DEF SaveInv
<1>3. r \in SettingRound
  BY <1>1, <1>2, FirstRound DEF Settings!Busy, SettingJob
<1>4. ReadTyped(r, Read)
  BY <1>2, <1>3 DEF ReadTyped, SettingDoc, SettingContent, Settings!Keys, SettingRound
<1>5. saver' \in [Client -> SettingJob]
  BY <1>1, <1>2, <1>3, <1>4 DEF SettingJob, ReadTyped
<1>6. /\ saver'[c].body = saver[c].body /\ saver'[c].todo = saver[c].todo
      /\ saver'[c].lone = saver[c].lone /\ saver'[c].seen = Read
      /\ \A d \in Client \ {c} : saver'[d] = saver[d]
  BY <1>1, <1>2 DEF SettingJob
<1>7. Settings!Busy' = Settings!Busy
  BY <1>6 DEF Settings!Busy
<1>8. ASSUME NEW d \in Settings!Busy', d # c
      PROVE  /\ AheadInOrder(saver'[d]) /\ ~saver'[d].lone
             /\ saver'[d].seen # None =>
                    ReadTyped(Settings!First(saver'[d].todo), saver'[d].seen)
  BY <1>1, <1>6, <1>7, <1>8, OtherSaves DEF Settings!Busy
<1>9. /\ AheadInOrder(saver[c])
      /\ saver[c].lone =>
            /\ Settings!Busy = {c}
            /\ Behind(saver[c].body, Settings!Rounds(saver[c].body) \ saver[c].todo)
  BY <1>1 DEF SaveInv
<1>10. AheadInOrder(saver'[c]) /\ ReadTyped(Settings!First(saver'[c].todo), saver'[c].seen)
  BY <1>4, <1>6, <1>9 DEF AheadInOrder
<1>11. saver'[c].lone =>
          /\ Settings!Busy' = {c}
          /\ \A k \in Settings!Keys[Settings!First(saver'[c].todo)] : saver'[c].seen[k] = doc'[k]
          /\ Behind(saver[c].body, Settings!Rounds(saver[c].body) \ saver[c].todo)'
  BY <1>1, <1>6, <1>7, <1>9 DEF Behind
<1> HIDE DEF r, Read
<1> QED BY <1>1, <1>2, <1>5, <1>7, <1>8, <1>10, <1>11 DEF SaveInv

LEMMA AbortSaves == ASSUME SaveInv, NEW c \in Client, Settings!Abort(c) PROVE SaveInv'
<1>1. c \in Settings!Busy /\ UNCHANGED doc /\ saver' = [saver EXCEPT ![c] = Settings!Idle]
  BY DEF Settings!Abort
<1>2. saver \in [Client -> SettingJob] /\ doc \in SettingDoc
  BY DEF SaveInv
<1>3. saver' \in [Client -> SettingJob]
  BY <1>1, <1>2 DEF SettingJob, Settings!Idle
<1>4. /\ Settings!Busy' = Settings!Busy \ {c}
      /\ \A d \in Client \ {c} : saver'[d] = saver[d]
  BY <1>1, <1>2 DEF Settings!Busy, Settings!Idle
<1>5. ASSUME NEW d \in Settings!Busy'
      PROVE  /\ AheadInOrder(saver'[d]) /\ ~saver'[d].lone
             /\ saver'[d].seen # None =>
                    ReadTyped(Settings!First(saver'[d].todo), saver'[d].seen)
  BY <1>1, <1>4, <1>5, OtherSaves DEF Settings!Busy
<1> QED BY <1>1, <1>2, <1>3, <1>5 DEF SaveInv

\* A round leaves what it is for, and nothing that an earlier round was for is undone.
LEMMA RoundIsBehind ==
    ASSUME SaveInv, NEW c \in Client, Settings!set_setting(c), saver[c].lone,
           NEW s, s = saver[c], NEW b, b = s.body, NEW r, r = Settings!First(s.todo)
    PROVE  /\ Behind(b, (Settings!Rounds(b) \ s.todo) \cup {r})'
           /\ r = "back" => doc'.pg = b.on /\ doc'.on = b.on
           /\ r # "monitor" => doc'.pwd = doc.pwd
           /\ r = "monitor" => doc'.pwd = IF b.pwd \in SettingSecret THEN b.pwd ELSE doc.pwd
<1>1. /\ c \in Settings!Busy /\ s \in SettingJob /\ b \in SaveRequest /\ s.seen # None
      /\ r \in s.todo /\ \A q \in s.todo : Settings!Rank[r] <= Settings!Rank[q]
      /\ RoundWrites(r, b, s.seen)
  BY WriteRound
<1>2. /\ AheadInOrder(s) /\ Behind(b, Settings!Rounds(b) \ s.todo)
      /\ \A k \in Settings!Keys[r] : s.seen[k] = doc[k]
  BY <1>1 DEF SaveInv
<1>3. /\ r \in Settings!Rounds(b) /\ r \in SettingRound
      /\ b \in Settings!SettingsUpdate /\ {mask, None} \cap SettingSecret = {}
  BY <1>1, <1>2, WantedRounds, SettingsAssumption DEF AheadInOrder, SettingsAssumption
<1>4. \A q \in Settings!Rounds(b) : Settings!Rank[q] < Settings!Rank[r] => q \notin s.todo
  BY <1>1, <1>3, WantedRounds DEF Settings!Rank, SettingRound
<1>5. CASE r = "app"
  <2>1. doc'.name = b.name /\ UNCHANGED <<doc.pg, doc.rest, doc.on, doc.pwd>>
    BY <1>1, <1>5 DEF RoundWrites
  <2> QED BY <2>1, <1>2, <1>5 DEF Behind
<1>6. CASE r = "modules"
  <2>1. /\ doc'.pg = Settings!deep_merge(s.seen.pg, b.pg)
        /\ doc'.rest = Settings!deep_merge(s.seen.rest, b.rest)
        /\ UNCHANGED <<doc.name, doc.on, doc.pwd>>
    BY <1>1, <1>6 DEF RoundWrites
  <2>2. b.rest # None => doc'.rest = b.rest
    BY <2>1 DEF Settings!deep_merge
  <2>3. b.pg # None => doc'.pg = b.pg
    BY <2>1 DEF Settings!deep_merge
  <2> QED BY <2>1, <2>2, <2>3, <1>2, <1>6 DEF Behind
<1>7. CASE r = "sync"
  <2>1. /\ doc'.on = b.pg /\ doc'.pwd = s.seen.pwd
        /\ UNCHANGED <<doc.name, doc.pg, doc.rest>>
    BY <1>1, <1>7 DEF RoundWrites
  <2>2. s.seen.pwd = doc.pwd
    BY <1>2, <1>7 DEF Settings!Keys
  <2>3. "monitor" \in Settings!Rounds(b) => "monitor" \in s.todo
    BY <1>1, <1>2, <1>7 DEF AheadInOrder, Settings!Rank
  <2> QED BY <2>1, <2>2, <2>3, <1>2, <1>7 DEF Behind
<1>8. CASE r = "monitor"
  <2>1. /\ doc'.on = Settings!deep_merge(s.seen.on, b.on)
        /\ doc'.pwd = Settings!_merge_password(b.pwd, s.seen.pwd)
        /\ UNCHANGED <<doc.name, doc.pg, doc.rest>>
    BY <1>1, <1>8 DEF RoundWrites
  <2>2. s.seen.on = doc.on /\ s.seen.pwd = doc.pwd
    BY <1>2, <1>8 DEF Settings!Keys
  <2>3. /\ b.on # None => doc'.on = b.on
        /\ b.on = None => doc'.on = doc.on
    BY <2>1, <2>2 DEF Settings!deep_merge
  <2>4. doc'.pwd = IF b.pwd \in SettingSecret THEN b.pwd ELSE doc.pwd
    BY <2>1, <2>2, <1>3 DEF Settings!_merge_password, Settings!SettingsUpdate
  <2> QED BY <2>1, <2>3, <2>4, <1>2, <1>8 DEF Behind
<1>9. CASE r = "back"
  <2>1. /\ doc'.pg = b.on /\ doc'.rest = s.seen.rest
        /\ UNCHANGED <<doc.name, doc.on, doc.pwd>>
    BY <1>1, <1>9 DEF RoundWrites
  <2>2. s.seen.rest = doc.rest
    BY <1>2, <1>9 DEF Settings!Keys
  <2>3. b.on # None /\ "monitor" \in Settings!Rounds(b)
    BY <1>3, <1>9, WantedRounds
  <2>4. "monitor" \notin s.todo
    BY <2>3, <1>4, <1>9 DEF Settings!Rank
  <2>5. doc.on = b.on
    BY <2>3, <2>4, <1>2 DEF Behind
  <2> QED BY <2>1, <2>2, <2>3, <2>5, <1>2, <1>9 DEF Behind
<1> QED BY <1>3, <1>5, <1>6, <1>7, <1>8, <1>9 DEF SettingRound

LEMMA WriteSaves == ASSUME SaveInv, NEW c \in Client, Settings!set_setting(c) PROVE SaveInv'
<1>1. PICK s, b, r : s = saver[c] /\ b = s.body /\ r = Settings!First(s.todo)
  OBVIOUS
<1>2. /\ c \in Settings!Busy /\ s \in SettingJob /\ b \in SaveRequest
      /\ r \in s.todo /\ \A q \in s.todo : Settings!Rank[r] <= Settings!Rank[q]
      /\ doc' \in SettingDoc
  BY <1>1, WriteRound
<1>3. /\ saver \in [Client -> SettingJob] /\ AheadInOrder(s)
      /\ s.lone => Settings!Busy = {c}
  BY <1>1, <1>2 DEF SaveInv
<1>4. saver' = [saver EXCEPT ![c] =
        IF s.todo = {r} THEN Settings!Idle ELSE [s EXCEPT !.todo = @ \ {r}, !.seen = None]]
  BY <1>1 DEF Settings!set_setting
<1>5. saver' \in [Client -> SettingJob]
  BY <1>2, <1>3, <1>4 DEF SettingJob, Settings!Idle
<1>6. /\ \A d \in Client \ {c} : saver'[d] = saver[d]
      /\ Settings!Busy' \subseteq Settings!Busy
  BY <1>2, <1>3, <1>4 DEF Settings!Busy, Settings!Idle
<1>7. ASSUME NEW d \in Settings!Busy', d # c
      PROVE  /\ AheadInOrder(saver'[d]) /\ ~saver'[d].lone
             /\ saver'[d].seen # None =>
                    ReadTyped(Settings!First(saver'[d].todo), saver'[d].seen)
  <2>1. d \in Settings!Busy /\ saver'[d] = saver[d] /\ Settings!Busy # {c}
    BY <1>6, <1>7 DEF Settings!Busy
  <2>2. /\ AheadInOrder(saver[d]) /\ ~saver[d].lone
        /\ saver[d].seen # None => ReadTyped(Settings!First(saver[d].todo), saver[d].seen)
    BY <2>1, <1>2, <1>7 DEF SaveInv
  <2> QED BY <2>1, <2>2
<1>8. ASSUME c \in Settings!Busy'
      PROVE  /\ saver'[c].body = b /\ saver'[c].todo = s.todo \ {r} /\ saver'[c].seen = None
             /\ saver'[c].lone = s.lone
  <2>1. s.todo # {r}
    BY <1>3, <1>4, <1>8 DEF Settings!Busy, Settings!Idle
  <2> QED BY <2>1, <1>2, <1>3, <1>4, <1>1 DEF SettingJob
<1>9. c \in Settings!Busy' => AheadInOrder(saver'[c])
  <2>1. s.todo \subseteq Settings!Rounds(b) /\ Settings!Rounds(b) \subseteq SettingRound
    BY <1>1, <1>3, WantedRounds DEF AheadInOrder
  <2>2. \A p \in s.todo \ {r}, q \in Settings!Rounds(b) :
            Settings!Rank[q] > Settings!Rank[p] => q \in s.todo \ {r}
    <3> TAKE p \in s.todo \ {r}, q \in Settings!Rounds(b)
    <3>1. Settings!Rank[q] > Settings!Rank[p] => q \in s.todo
      BY <1>1, <1>3 DEF AheadInOrder
    <3>2. Settings!Rank[r] <= Settings!Rank[p]
      BY <1>2
    <3>3. \A x \in SettingRound : Settings!Rank[x] \in Nat
      BY DEF SettingRound, Settings!Rank
    <3> QED BY <3>1, <3>2, <3>3, <2>1, <1>2
  <2> QED BY <2>1, <2>2, <1>2, <1>8 DEF AheadInOrder
<1>10. c \in Settings!Busy' /\ saver'[c].lone =>
          /\ Settings!Busy' = {c}
          /\ Behind(saver[c].body, Settings!Rounds(saver[c].body) \ saver[c].todo)'
  <2> SUFFICES ASSUME c \in Settings!Busy', saver'[c].lone
               PROVE  /\ Settings!Busy' = {c}
                      /\ Behind(saver[c].body, Settings!Rounds(saver[c].body) \ saver[c].todo)'
    OBVIOUS
  <2>1. Settings!Busy' = {c}
    BY <1>3, <1>6, <1>8
  <2>2. Behind(b, (Settings!Rounds(b) \ s.todo) \cup {r})'
    BY <1>1, <1>8, RoundIsBehind
  <2>3. r \in Settings!Rounds(b)
    BY <1>1, <1>2, <1>3 DEF AheadInOrder
  <2>4. Settings!Rounds(b) \ (s.todo \ {r}) = (Settings!Rounds(b) \ s.todo) \cup {r}
    BY <2>3
  <2>5. Behind(b, Settings!Rounds(b) \ (s.todo \ {r}))'
    BY <2>2, <2>4
  <2>6. Behind(saver[c].body, Settings!Rounds(saver[c].body) \ saver[c].todo)'
    BY <2>5, <1>8
  <2> QED BY <2>1, <2>6
<1> QED BY <1>2, <1>5, <1>7, <1>8, <1>9, <1>10 DEF SaveInv

LEMMA NextSettings == SaveInv /\ (Settings!Next \/ UNCHANGED settingsVars) => SaveInv'
<1>1. ASSUME SaveInv, UNCHANGED settingsVars PROVE SaveInv'
  BY <1>1 DEF SaveInv, settingsVars, Settings!Busy, Behind
<1> QED BY <1>1, AcceptSaves, ReadSaves, WriteSaves, AbortSaves DEF Settings!Next

\* What LoneSaveShows says of a step.
ShowStep ==
    \A c \in Client :
        LET b == saver[c].body IN
        Settings!set_setting(c) /\ saver[c].lone =>
            /\ doc'.pwd = IF b.pwd \in SettingSecret /\ Settings!First(saver[c].todo) = "monitor"
                         THEN b.pwd ELSE doc.pwd
            /\ saver[c].todo = {Settings!First(saver[c].todo)} =>
                /\ b.name # None => doc'.name = b.name
                /\ b.rest # None => doc'.rest = b.rest
                /\ b.on # None => Settings!Shown' = b.on
                /\ b.on = None /\ b.pg # None => Settings!Shown' = b.pg

LEMMA NextShows == SaveInv /\ [PanelNext]_panelVars => [ShowStep]_(Settings!vars)
<1> SUFFICES ASSUME SaveInv, NEW c \in Client, Settings!set_setting(c), saver[c].lone,
                    NEW s, s = saver[c], NEW b, b = s.body, NEW r, r = Settings!First(s.todo)
             PROVE  /\ doc'.pwd = IF b.pwd \in SettingSecret /\ r = "monitor"
                                 THEN b.pwd ELSE doc.pwd
                    /\ s.todo = {r} =>
                        /\ b.name # None => doc'.name = b.name
                        /\ b.rest # None => doc'.rest = b.rest
                        /\ b.on # None => (doc'.pg /\ doc'.on) = b.on
                        /\ b.on = None /\ b.pg # None => (doc'.pg /\ doc'.on) = b.pg
  BY DEF ShowStep, Settings!Shown
<1>1. /\ doc' \in SettingDoc /\ s \in SettingJob /\ b \in SaveRequest /\ r \in s.todo
      /\ c \in Settings!Busy
  BY WriteRound
<1>2. /\ Behind(b, (Settings!Rounds(b) \ s.todo) \cup {r})'
      /\ r = "back" => doc'.pg = b.on /\ doc'.on = b.on
      /\ r # "monitor" => doc'.pwd = doc.pwd
      /\ r = "monitor" => doc'.pwd = IF b.pwd \in SettingSecret THEN b.pwd ELSE doc.pwd
  BY RoundIsBehind
<1>3. doc'.pwd = IF b.pwd \in SettingSecret /\ r = "monitor" THEN b.pwd ELSE doc.pwd
  BY <1>2
<1>4. ASSUME s.todo = {r}
      PROVE  /\ b.name # None => doc'.name = b.name
             /\ b.rest # None => doc'.rest = b.rest
             /\ b.on # None => (doc'.pg /\ doc'.on) = b.on
             /\ b.on = None /\ b.pg # None => (doc'.pg /\ doc'.on) = b.pg
  <2>1. AheadInOrder(s)
    BY <1>1 DEF SaveInv
  <2>2. r \in Settings!Rounds(b) /\ b \in Settings!SettingsUpdate
    BY <2>1, <1>1, SettingsAssumption DEF AheadInOrder, SettingsAssumption
  <2>3. Behind(b, Settings!Rounds(b))'
    <3>1. (Settings!Rounds(b) \ s.todo) \cup {r} = Settings!Rounds(b)
      BY <2>2, <1>4
    <3> QED BY <3>1, <1>2
  <2>4. /\ b.name # None => doc'.name = b.name
        /\ b.rest # None => doc'.rest = b.rest
    BY <2>3, WantedRounds DEF Behind
  <2>5. b.on # None => (doc'.pg /\ doc'.on) = b.on
    <3> SUFFICES ASSUME b.on # None PROVE (doc'.pg /\ doc'.on) = b.on
      OBVIOUS
    <3>1. "back" \in Settings!Rounds(b)
      BY WantedRounds
    <3>2. r = "back"
      <4>1. r # "back" => Settings!Rank["back"] > Settings!Rank[r]
        BY <2>2, WantedRounds DEF SettingRound, Settings!Rank
      <4> QED BY <4>1, <3>1, <2>1, <1>1, <1>4 DEF AheadInOrder
    <3>3. doc'.pg = b.on /\ doc'.on = b.on /\ b.on \in BOOLEAN
      BY <3>2, <1>2, <2>2 DEF Settings!SettingsUpdate, Settings!Switch
    <3> QED BY <3>3
  <2>6. b.on = None /\ b.pg # None => (doc'.pg /\ doc'.on) = b.pg
    <3> SUFFICES ASSUME b.on = None, b.pg # None PROVE (doc'.pg /\ doc'.on) = b.pg
      OBVIOUS
    <3>1. doc'.pg = b.pg /\ doc'.on = b.pg /\ b.pg \in BOOLEAN
      BY <2>2, <2>3, WantedRounds DEF Behind, Settings!SettingsUpdate, Settings!Switch
    <3> QED BY <3>1
  <2> QED BY <2>4, <2>5, <2>6
<1> QED BY <1>3, <1>4

\* settings.py: a save that nobody overlapped shows what it asked for and leaves the
\* monitor's password alone unless it carries one, whatever saves that stopped half
\* way, and saves that overlapped, have left in the two copies of the switch.
THEOREM PanelLoneSaveShows == PanelSpec => LoneSaveShows
<1>1. PanelInit => SaveInv
  BY InitSettings DEF PanelInit
<1>2. SaveInv /\ [PanelNext]_panelVars => SaveInv'
  BY NextSettings, PanelMovesSettings
<1>3. PanelSpec => []SaveInv
  BY <1>1, <1>2, PTL DEF PanelSpec, panelVars
<1>4. SaveInv /\ [PanelNext]_panelVars => [ShowStep]_(Settings!vars)
  BY NextShows
<1>5. PanelSpec => [][ShowStep]_(Settings!vars)
  BY <1>3, <1>4, PTL DEF PanelSpec, panelVars
<1> QED BY <1>5 DEF LoneSaveShows, Settings!LoneSaveShows, ShowStep
=============================================================================
