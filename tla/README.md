# Linux Admin: a TLA+ verification project

Linux Admin is a web panel for one Linux host: a FastAPI/asyncio backend
(`src/src/backend/app`, one process; threads only for the file manager) and a React
frontend (`src/src/frontend/src`). The backend keeps users and settings in
PostgreSQL, keeps its own documents in files, and drives the host through
commands (`collectors/_exec.py`). The repository has no tests. This directory
holds TLA+ models of the parts in which the order of things matters, the TLC
configurations that check them, and proofs of what holds for every instance.

Paths below are relative to `src/src/backend/app` unless they start with `src/`.

## 1. Inventory

### What makes this system hard

* **One event loop, many handlers.** Between two `await`s a handler is atomic;
  at every `await` (a command, a query, an HTTP request) any other handler
  runs. There are almost no locks, so whatever was read before an `await` may
  be stale after it.
* **Documents that are read, changed and written as a whole**: `state.json` of
  nginx, the VPN registries, the settings rows, `history.json`.
* **Configuration of services that must not break**: written to disk, tested by
  the service, restored from a backup when the test fails, with crashes possible
  between any two commands.
* **Processes and timers**: iperf3 processes outlive the coroutine that started
  them unless something stops them.

### Components

| Component | State it keeps | Operations | What makes it correct | Modules |
|---|---|---|---|---|
| Speedtest jobs (`collectors/speedtest.py`, `api/speedtest.py`, `src/src/frontend/src/speedtest/useJob.ts`) | the job table in memory, a task and perhaps a process per job, buffers of samples, `history.json` | start of a test, a client or a server; stop; delete history; sweep at shutdown; poll | one test at a time; a final status means no process; no process is lost; tests end; every interval is shown once and whole | SpeedtestJobs, IperfStream |
| Login limiter (`core/rate_limit.py`, `api/auth.py`) | failures and lockouts per client address | check, hit, clear around a login | the window is bounded; a lockout ends | LoginLimiter |
| Nginx edge (`collectors/nginx.py`, `api/nginx.py`) | `state.json`, the managed directories, certificates, backups, what nginx runs, the folder of the manual challenge | save and delete routes, apply, rollback, backups, service actions; upload, import, issue, renew, delete certificates; confirm a challenge | saved routes never conflict; a failed apply changes nothing; a successful one is served; a listed certificate has its key; a hook waits for its own confirmation | NginxEdge, CertStore, ManualDns |
| Access control (`api/access.py`, `core/principal.py`, `core/permissions.py`) | users, roles, API keys | create, change and delete each; authentication | somebody keeps full access; keys only narrow; a role in use stays | Access |
| Setup wizard, bootstrap file and boot (`api/setup.py`, `core/setup_state.py`, `core/envfile.py`, `core/db.py`, `main.py`) | `.env`, the database engine, schema and administrator | complete the setup, change the connection, boot | an answer ok lets its administrator in; a boot repairs what a failure left and rewrites no password | PanelLife |
| Settings (`api/settings.py`) | three documents in rows of their own | read, merge, write | a save shows what it asked for | SettingsStore |
| Metrics hub and worker (`services/ws_hub.py`, `services/worker.py`) | connected sockets, the last payload | connect, broadcast, disconnect | clients have the latest payload; a dead one does not stop the others | MetricsHub |
| History (`services/persistence.py`) | connection events in the database | sample, open and close events, clean up | an event is open exactly while its connection is seen | HistoryJournal |
| WireGuard (`collectors/wireguard.py`) | the server document, a file per peer, the interface | create, change, delete, apply, stop | no address twice; registry and interface agree | AddressPool, WireGuardPeers |
| OpenVPN (`collectors/openvpn.py`) | the server document, a file per client, the PKI, CCD files, the daemon | the same | keys and certificates belong together; what was answered "applied" is served | OpenVpn |
| SSH tunnel (`collectors/ssh_tunnel.py`) | accounts, a registry, `authorized_keys` | users, destinations, keys; the client configuration | the three places agree; a configuration can be opened | SshTunnel, TunnelPorts |
| File manager (`services/fileman.py`) | the files under mounted folders | write, make, upload, move, delete, pack, extract | nothing outside the folder, nothing but what was named | FileManager |
| OS users and groups (`collectors/users.py`) | passwd and group, which are the host's | create, delete, lock, shell, groups, passwords | protected accounts stay; an ok means all of it | OsUsers |
| Fail2ban (`collectors/fail2ban.py`) | a jail at run time, its drop-in | parameters, whitelist, reload, start and stop | the panel's changes survive a reload | Fail2ban |
| Firewall, services, Docker, disks, network, system and PostgreSQL metrics | none of their own | one command each | not modelled: a command and a parser | |
| Frontend pages, documentation texts, migrations | none | rendering | not modelled | |

### How they interact

* `main.lifespan` starts the worker if the setup is complete, and at the end
  stops it and sweeps the speedtest jobs.
* The worker reads the settings, samples through the collectors, writes events
  through `persistence` and hands each payload to the hub.
* The wizard and the settings page replace the database engine all others use;
  the wizard also makes the first user and starts the worker.
* Every request goes through `principal.require_module`, and so reads the tables
  the access requests write; logins go through the limiter first.
* Nginx is reached by nine kinds of request, which share the managed directories
  and the service without a lock. Certificates are used by routes and filled by
  certbot, which runs on its own timer too.
* The VPN modules, the host's accounts and fail2ban share no state with one another:
  each drives its own files and commands, so they are modelled apart and composed
  only to be checked in one run (MCPanel, MCGateway, MCProgress).

The full list of hazards, each at its line and with the property that covers it,
is `hazards` in `PROJECT.json`.

## 2. What is modelled

A step of a model is the code between two suspension points of a coroutine, so
TLC explores every interleaving the event loop can produce. Data is abstracted to
what the properties tell apart. Operators marked *Mutant* are not used by a
specification: each is a plausible bug in the operator that follows it, and makes
the property it is paired with in `PROJECT.json` fail.

### SpeedtestJobs (proofs: SpeedtestJobsProofs)

A job is in the table (`known`) or not, and has a status, a task suspended at
some await, a pending cancellation, a `stop_requested` flag and perhaps a process.
`InternetStep` holds the awaits of `run_internet_test`; `IperfStep` those of
`run_iperf_client` and `run_iperf_server`; `StopCall`, `StopReturns` and
`StopKills` are `JobManager.stop` up to its first await and after it;
`SweepVisit` is `stop_all`. A process may exit and a timer may fire at any moment.

Three facts the model makes visible. A stop that arrives between the fork and the
assignment of `job.proc` finds no handle: it sets the flag and the process runs
on (`missed`). A limit that fires in the turn in which the process was reaped
raises `ProcessLookupError`, which nothing catches: the task dies and the job
stays active (`LimitAfterExit`). And an internet test whose metadata request
failed can still be cancelled while its client closes: its "error" becomes
"stopped", the one exception in `OutcomeIsFinal`.

Not modelled: the browser test and its upload endpoints, which keep nothing, a crash
while `history.json` is rewritten. The sweep is that of
a panel that was configured when it booted: `lifespan` returns early (`main.py:73`)
for one that booted into the wizard, and then nothing sweeps its jobs.

### IperfStream (proofs: SpeedtestJobsProofs)

One iperf3 from its output to the page. `run.lines` is what the process prints:
the streams of an interval, their sum, a separator, and for a server the marks
between sessions. Each kind of line is an action of `IperfParser.feed`; `Quiet` is the
timeout of 0.1 s in `_read_process` that makes the parser emit an unfinished interval,
`EndOfOutput` the end of the pipe, `TimeLimit` the limit that cancels the reader.
`Prints` is the order of the lines that `feed` takes for granted; it is external, and the
run's outputs are of that order.
`emitted` is the set that keeps a late line from starting its interval again, and is
forgotten as a whole when it is too long (`MaxEmitted`). `Snapshot` is what `get_job`
answers; `Poll`, `Receive` and `Lost` are the browser's, whose cursor counts every
sample the job ever had while the job trims its buffer (`base`).

Not modelled: the numbers in a sample, the log, whose buffer and cursor are the same
code again.

### LoginLimiter (proofs: ProgressProofs)

The limiter's two dictionaries and the login handler around them: `check`, the
await on the database, then `hit` or `clear`. Time is relative: hits carry ages
and lockouts their remaining time, so time itself needs no bound. `_prune` drops the hits
that are older than the window (`InWindow`, applied by `Pruned`).

### NginxEdge (proofs: NginxEdgeProofs)

`stateFile` is `state.json`, `managed` the two directories of rendered files,
`running` what nginx loaded last, `held` the ports of other processes, `distro` the
distribution's own site, `backups` what each apply copied, `task` the
local variables of each request and the command it awaits. A route is a record of
what a conflict check or nginx can tell apart; `valid` says whether nginx accepts
it, which the panel cannot know. `apply_config` is `Preview`, `Dirs`, `Backup`
(twice), `BackupDoc`, `Write` (`00-acme.conf` and the two parts), `Look`, `Hide`, `Test`,
`Reload`, `Finish`, and on a failure
`Remove` and `CopyBack` (twice each) and `ReloadAgain`. Rollback, the ACME and renewal
requests and the service actions use the same commands and interleave with it.

`Copied` is what `cp -a` does: onto a missing directory it copies, into an existing
one it nests the copy, where nginx does not look. That is why the code removes the
directory first, why a crash in between leaves none, and why two backups in one
second do not replace each other.

A port that another process holds keeps nginx from starting and makes a reload keep the old
configuration, while `nginx -t` and the reload's exit code say nothing (`Binds`, `Loads`).
`Look` asks `ss` who has the public ports; if it is another process, the distribution's
site goes (`distro`) and `Hide` writes `00-acme.conf` without its public listener
(`Bootstrap`). Either may fail, and apply then returns with both parts written. The
answer after that is ok, with a hint about the public ports. So "ok" means "served" where nobody
else holds a port of the routes (`AppliedMeansServing`), and not at all where `ss` names no
processes, as to a panel that is not root (the fault "look").

Not modelled: what else `00-acme.conf` says (constants and validated names).

### CertStore and ManualDns (proofs: GatewayProofs, ProgressProofs)

`CertStore`: a folder with a chain and a key and a document per certificate, against
the lineage certbot keeps. An upload verifies the pair and writes chain, key and
document; an import of a PFX file does so after openssl took both out of one file
(`ImportPfx`, `ReadPfx`); an import from the host reads chain and key one after the other
(`ReadChain`, `ReadKey`), while
a renewal replaces the one and then the other (`RenewChain`, `RenewKey`); a deletion
removes folder and document. What stands between a pair that a renewal tore and the list of
certificates is the comparison of the two in `upload_certificate` (`Match`), through
which the import goes as well. A signing request makes a key whose certificate can
never be added: the code has no operation for it, so such a document is never served.

`ManualDns`: the hooks of certbot, the operator's confirmation and the panel's runner
share `pending.json`, `confirm.flag`, `status.json` and `result.json`. A run resets the
flags of whatever ran before; a confirmation reads the challenge in one step and leaves
the flag in a later one. `clean` is the run nothing has disturbed, of which
`ConfirmedFirst` speaks: the code separates neither two runs nor a second
confirmation from the next challenge. A runner that gives up after 1500 s leaves its
certbot running, and after that nothing updates the result (`lost`).

### Access (proofs: AccessProofs)

The three tables, and per request the query it is at. A request authenticates
(`Authenticate`: `resolve_bearer` and `require_module`), loads the row it is about,
counts or looks up, and commits; the commit writes the columns that changed and
fails when a row it refers to is gone. `Restart` is `ensure_admin_user`.

One fact worth knowing: deleting a user who has an API key, even a revoked one,
fails. The relationship has no cascade, so the ORM sets `api_keys.user_id` to
NULL first, and that column is NOT NULL (`CommitDelete`).

Not modelled: passwords, display names, expiry of keys.

### AddressPool and WireGuardPeers (proofs: WireGuardPeersProofs)

`AddressPool` is the promise: a client takes an address nobody has, or leaves, in one
step. `WireGuardPeers` implements it with `server.json`, one JSON file per peer
(`peers`), and no lock. `CreatePeer` is `create_peer` until it awaits the keys and
`SavePeer` the rest, with the name and the server's address read before; `UpdatePeer`
and `DeletePeer` never await before they write. Each may go on to `apply_server`, which
reads all peers in that same step (`BeginApply`), then awaits four commands:
`WriteConf`, the firewall, `Down`, `Up`. `conf` is the file in `/etc/wireguard`,
`running` what the interface was brought up with. A crash may leave the file that was
being saved unreadable (`CrashInSave`), which the code reads as absent.

Two facts the model makes visible. `create_or_update_server` looks at no peer, and a
creation compares with the server address it read before the keys, so a peer can end up
with the server's own address. And two overlapping applies can install an older
list of peers after a newer one, both reporting success: that success means
`running` equals the registry is true of one request at a time only.

Not modelled: keys, ports, DNS, routes, the client's configuration, a renamed interface
or another subnet; a command that ends after its timeout (`run_cmd` does not kill it).

### PanelLife and SettingsStore (proofs: PanelProofs)

`PanelLife`: `.env` (replaced atomically), the database the engine points at, the
databases with a schema and their administrators. The wizard (`Save`, `_upsert_admin`,
`Seed`), Settings -> Connection and the boot run await by await; each query uses the
engine it was begun with, whatever another request rebinds. A refused database, a failed
query and a crash are possible at each.

`SettingsStore`: the up to five rounds of one `PUT /api/settings`, each a query, a merge
and a commit, over documents of which two hold the PostgreSQL switch. Overlapping saves
do lose keys, the code does not try to exclude it, so `LoneSaveShows` is about a save
nobody overlaps, from every state the others left behind.

### MetricsHub and HistoryJournal (proofs: PanelProofs)

`MetricsHub`: the set, the latest payload, and a broadcast that goes through a
copy of the set and suspends at a client that does not drain. `HistoryJournal`: one
writer, which opens a row for a connection it begins to see and closes the row of one
that is gone, and the cleanup, which deletes rows by their start, open ones too.

### FileManager (proofs: PanelHostProofs)

The tree is a function from paths to nodes. A request checks in one step and acts in a
later one (each runs in a thread of its own). `resolve_rel` is the panel's own
resolution, link by link; `Place` is where the kernel ends up with the name that the
panel then passes it. `RequestsKeepToTheirs` compares the two in every tree that the
operations themselves, links and unfinished requests can make. Both are `Walk`: from a
folder to one of its entries (`Step`), as many times as there are names (`Trail`).

Nested folders are made level by level (`ensure_dirs`), each from what is there by then.

One fact the model makes visible. The archive that grows beside its destination has a name
that can be known beforehand (`TmpOf`), and is opened there for writing before anyone looks
what is there (`PackOpen`, `Opened`): if that is a link, the file it leads to is truncated,
inside the folder or outside. `RequestsKeepToTheirs` excepts this one file (`Through`).

Not modelled: previews, size limits, the names at `NAME_MAX`, the content of archives.

### OpenVpn (proofs: GatewayProofs)

`server.json`, a file per client, CA and pairs command by command (`EnsureCa`, `Sign`),
CCD files and the daemon's configuration. `sole` and `overlapped` are history variables.
Three facts the model makes visible: an apply reads the clients one file after the other and
writes the configuration it built before, so overlapping requests can leave an older
one in force; a deleted client's certificate is still taken (section 3); and no check
refuses a client the name "ca", whose key overwrites that of the CA (`EnsureKey`): nothing can
be signed from then on, while what was signed still serves.

### SshTunnel and TunnelPorts (proofs: GatewayProofs)

`SshTunnel` has the account, the registry and `authorized_keys`, which change one after the
other, with failures that are answered as errors and others that are only warnings.
`TunnelPorts` is the choice of local ports. A list in the request is taken entry by entry
(`TakeEntry`); the registry's destinations are normalised first (`Normalize`, one entry a
step, which drops what it has already) and then each is given a port (`GivePort`).

Three facts the model makes visible. The text of a removal may be the beginning of several keys,
and then all of them go (`RemovePublicKey` takes a set). A comment that names a key type makes
`_parse_pubkey_line` read another key out of the line, so the next rewrite loses the key
(`ReadBack`). And `userdel -r` that removes the account but not its home exits with 12, which is
answered as an error with the registry left behind (`UserDelHalf`).

### OsUsers and Fail2ban (proofs: PanelHostProofs)

`OsUsers`: a request decides on what it read, awaits a command, tries it again with sudo
whatever made it fail, and answers from the second result. A command that times out is
not killed: it becomes `stray` and may act after its request was answered. Three facts the
model makes visible: `usermod -U` leaves an account without a password locked and
exits with 0; of memberships the code guards the account only where its groups are set, never
the group, so a system group's members change whatever the settings say (`ProtectedStay` is
about accounts and the removal of groups); and a useradd that outlived its timeout makes its
own retry fail.

`Fail2ban`: what `fail2ban-client` changed in memory, what the panel wrote into its drop-in
and what a reload makes of both. A failed query for the whitelist makes the panel write
the drop-in without it, and overlapping requests lose each other's values: `PanelChangesSurvive`
excludes the first by `fetched`, the second by `sole`. And of the whitelist it fetches the panel
keeps addresses and networks (`Cidr`): host names that the distribution ships are gone
after the first change and a reload.

### The modules that compose

`MCSpeedtestMenu`, `MCPanel`, `MCGateway` and `MCProgress` put parts that share no state
into one specification: a behaviour chooses one part and the others stay as they began.
Parts whose interleavings would be too many have two of them: requests "alone" over
richer data and "together" over poorer data; the edge with every port free and with
ports held; the file manager with archives and with new folders. For the OS users, requests
alone may time out and leave a command running, requests together may not. Each of the two
leaves out some of the commands, and between them they have all.

## 3. What the runs show

| Run | Module | Checks | Bounds |
|---|---|---|---|
| `speedtest_jobs` | MCSpeedtestMenu | OneTestAtATime, TableBounded, FinishedHasNoProcess, LiveIsListed, ShutdownLeavesNoProcess, OutcomeIsFinal; SamplesAreWhole, PollerHasAll | 3 jobs, tests and clients or servers on 2 ports, 1 finished job kept; or one iperf3, 1 or 2 streams, 1 or 2 directions, 2 or 3 intervals, or two sessions of a server, the first with one or two streams, in both directions, or broken off |
| `speedtest_history_doc` | MCSpeedtestJobs | EveryFinishedTestIsStored: **violated** | 2 jobs |
| `progress` | MCProgress | WindowBounded, LockoutEnds; TestsEnd, StopFreesSlot; ConfirmedFirst, ChallengeSettles | 2 addresses, 2 logins in flight, 3 attempts, window 2, lockout 4; 2 jobs; 2 runs of certbot, of which one has a single domain and the other up to two, 1 operator |
| `nginx_concurrent` | MCNginxConcurrent | SavedRoutesDoNotClash | 3 routes of which some clash, one second (so backups collide), failing copies; 2 requests at once, or one at a time with failing reloads, crashes and a manual backup |
| `nginx_write_failure` | MCNginxEdge | FailedApplyRestores: **violated** | 1 request, failing writes |
| `nginx_manual_backup` | MCNginxEdge | ListedBackupsRollBack: **violated** | 1 request |
| `access_lockout` | MCAccess | SuperAdminRemains: **violated** | 2 requests |
| `wireguard` | MCWireGuardPeers | ServedAddressesUnique, DownIsExplained, AddressesArePooled (refinement), and with one request at a time AppliedMeansServed | 2 requests, 2 peers, 2 names, 3 addresses, failing commands, crashes |
| `panel` | MCPanel | SuperAdminRemains, KeysOnlyNarrow, DeletedRoleIsUnused; LoneOkMeansSignIn, PasswordsChangeOnRequest, BootHeals; LoneSaveShows; ClientsUpToDate; JournalMatchesSample; RequestsKeepToTheirs; ProtectedStay, LoneUserAnswersHold; PanelChangesSurvive; PartsTypeOK | 2 requests in each part (access: 1), 2 databases, 2 names, 2 passwords; 3 sockets; 2 connections; 10 operations on a tree with 3 links; 3 accounts, 2 groups, 1 stray command; 2 parameters, 2 addresses and a host name |
| `setup_two_wizards` | MCPanel | OkMeansSignIn: **violated** | 2 wizards |
| `gateway` | MCGateway | UndoRestores, AppliedMeansServing; LoneApplyPushes; LoneAnswersHold; ForwardsOpen; ListedServes; PartsTypeOK | 1 nginx request at a time, 3 routes, 2 seconds or port 80 held, failing writes, tests and reloads, crashes; 2 requests to OpenVPN, tunnels and certificates; 3 names, one of them "ca"; 3 keys; 3 destinations |
| `openvpn_deleted` | MCGateway | DeletedIsDisabled: **violated** | 1 client |

### Disagreements between the code and its documentation

* **Not every finished test is stored.** `module_docs.py:248` says "every finished
  test is stored". A one-off iperf3 server that served its client ends `done`
  and never calls `append_history` (`collectors/speedtest.py:1044`).
* **A failed write is not undone.** `src/docs/nginx-edge.md:115`: "On failure —
  restore backup and reload again." When the second of the two files cannot be
  written, `apply_config` returns (`collectors/nginx.py:1972`) with the first one
  replaced; the next reload, by whatever request, loads the mixture.
* **A manual backup cannot be rolled back to.** It is listed
  (`src/docs/nginx-edge.md:117`), and its id `manual-...` is refused
  (`collectors/nginx.py:2028`).
* **The last superadmin can be locked out.** `module_docs.py:337` says otherwise.
  Two requests that each disable one of the two Super Admins both count the
  other, and both commit (`api/access.py:328`). `ensure_admin_user` does not
  repair it at the next start: it counts disabled accounts too.
* **Both wizards are told to sign in.** `api/setup.py:245` answers "Setup complete. You can
  sign in now." The check that the setup is still open comes before the connection
  test and is not repeated, so a second wizard replaces `.env` and the engine
  while the first is between two awaits (`api/setup.py:193`); the first is answered ok
  and its administrator cannot sign in.
* **A deleted OpenVPN client can still connect.** The comment says "disable via missing
  CCD on next apply" (`collectors/openvpn.py:833`), and the configuration has neither
  `ccd-exclusive` nor a revocation list.

### Bounds, and why they are enough

* *Jobs.* The rules of a start relate the new job to the active ones; three jobs
  give two competitors and a finished one for `_gc` to drop. `MaxFinished` is 1
  so that the table is full at once. Job names are interchangeable, so the safety
  run uses symmetry; the liveness run does not.
* *The output of iperf3.* `MaxSamples` and `MaxEmitted` are 2, so that three intervals
  already trim the buffer and make `emitted` forget; the pipe may be quiet after every
  line, and any number of answers may be lost.
* *Attempts and time.* Three attempts against two requests in flight let the window
  be overshot by one; the lockout is longer than the window, as in both limiters of
  the application (`LockoutAssumption`).
* *Nginx.* Two seconds give an older and a newer backup; with one second every
  backup collides. `ManualSeconds` bounds the manual backups, which only matter to
  what is listed and so are in `nginx_concurrent` and `nginx_manual_backup`. In the run
  `gateway` the edge is explored twice (`EdgeNext`): over two seconds with every port free and
  crashes in the first, without the route that waits for a certificate; and over one second
  in which another process gets and gives up port 80 (`HeldPort`), without the route nginx
  refuses. A port changes hands between requests only, and is held on every address. `UndoRestores` and `AppliedMeansServing` are about one apply
  and what earlier requests, failures and crashes left on the disk, so one request at
  a time reaches all of it. They do not hold when requests overlap (two applies
  replace each other's files, and the code does not try to exclude it), and
  `UndoRestores` needs `DistinctSeconds`: a second backup in the same second is
  nested into the first, and the restore brings back the older one.
* `nginx_concurrent` uses a VIEW, `DecidingBoth`: no action reads `outcome` or `was`, and while
  no port is held none depends on `running` or on the public listener in the directories,
  so states that differ in these alone have the same successors up to
  these, and `SavedRoutesDoNotClash` does not mention them.
* *Access.* Two accounts are enough to have a last one; a role that is not the
  system's and one key with every kind of scope (none, within the role, wider than
  the role) exercise each comparison.
* *WireGuard.* Two peers want one address, two requests hold each other's stale
  reading, and three addresses let the server's one move. `solo` chooses at the start
  whether requests come one at a time, so one run checks both. Requests, identifiers,
  names and addresses are only compared for equality, so the run uses symmetry.
* *OpenVPN, users, jail.* "Alone" means that one request ends before the next begins,
  which the properties about lone answers need most, with failures and crashes in
  between; "together" has two at once over one name, an ordinary one or "ca", and one document
  (OpenVPN), with no command given up (users), with one parameter, one address and the service
  running (jail). OpenVPN alone has one ordinary name and one other, which may be "ca".
  `MaxStray` is 1: two commands that both outlived their timeouts are excluded.
* *Tunnel keys.* A key, one whose comment names a key type, and what that one is read as; at most
  two of them at a time in a file or in hand.
* *Tunnel ports.* The ranges are shrunk to a few ports so that they fill up.
* *Files.* One link leads inside, one outside, and one lies under the name of an archive in
  the making; `MaxDepth` ends the nesting of
  archives, `MaxCopies` the search for a free name.
* *Journal and hub.* `MaxTime` and `MaxFrame` let a connection end and come back around
  a cleanup, and a client connect before, in and after a broadcast.
* *Challenge.* Two runs are needed for one to disturb the other; one of them has a
  single domain, so that the run can have two challenges at most beside it.
* Deadlock is not checked where the system may stop: the panel is down, the bound on
  jobs or time is reached.

### Fairness

`MCProgress!ProgressSpec`, part by part:

* *Speed tests.* The loop resumes a task whose await can end (each await
  of a test has a timeout), the 3 s timer of `stop` fires, and the kernel reaps a
  process that got SIGKILL. Nothing is assumed of a process that got SIGTERM, of
  clients or of the shutdown.
* *Logins.* Time passes and the database answers.
* *Challenge.* The hooks count their looks, certbot and the runner have timeouts, so each
  run goes on (`Step`). Nothing is assumed of the operator, of a second run or of the
  runner's giving up: `ChallengeSettles` leaves out the runs whose runner went away.

The hub has no such property: a client that never drains blocks the worker for good.
The safety properties assume no fairness.

## 4. What is proved

With TLAPS, for every value of the constants that the named ASSUMEs admit. The parts of
a composed module (MCSpeedtestMenu, MCGateway, MCPanel) are proved about through it, with
its constants left open.

| Theorem | Says |
|---|---|
| **SpeedtestJobsProofs** | |
| `SpeedtestTypeCorrect` | every reachable state of the job table is well typed |
| `SpeedtestOneTestAtATime` | `OneTestAtATime`, for any number of jobs, requests and servers |
| `SpeedtestFinishedHasNoProcess` | a final status means that the process is gone |
| `SpeedtestLiveIsListed` | every live process belongs to an active job that is in the table |
| `SpeedtestOutcomeIsFinal` | `OutcomeIsFinal`: a finished job keeps its outcome, but for the failed internet test a stop cancels |
| `SpeedtestShutdownLeavesNoProcess` | `ShutdownLeavesNoProcess`: what the sweep leaves running was still being launched |
| `SpeedtestTableBounded` | `TableBounded`, for any number of jobs, ports and creations |
| `SpeedtestPollerHasAll` | `PollerHasAll`, for every stream of lines and every size of the buffer |
| `SpeedtestSamplesAreWhole` | `SamplesAreWhole`, for every output in the order of `Prints`, any number of streams, intervals and sessions, and any pauses of the pipe |
| **ProgressProofs** | |
| `LoginTypeCorrect` | the limiter's tables and the logins in flight are well typed |
| `LoginWindowBounded` | `WindowBounded`, for any number of addresses, logins and attempts |
| `DnsTypeCorrect` | the folder of the manual DNS challenge, certbot and the confirmations are well typed |
| `DnsConfirmedFirst` | `ConfirmedFirst`, for any number of runs, domains and confirmations |
| **NginxEdgeProofs** | |
| `EdgeTypeCorrect` | every reachable state of the edge module is well typed |
| `EdgeRoutesDoNotClash` | `SavedRoutesDoNotClash`, for any number of concurrent requests, failures and crashes |
| `EdgeAppliedMeansServing` | `AppliedMeansServing`, one request at a time, where `ss` names who holds the public ports |
| `EdgeUndoRestores` | `UndoRestores`, one request at a time, no two backups in one second, copies that do not fail |
| **AccessProofs** | |
| `AccessTypeCorrect` | the three tables and the requests in flight are well typed |
| `AccessKeysOnlyNarrow` | `KeysOnlyNarrow`, for any number of concurrent requests |
| `AccessSuperAdminRemains` | `SuperAdminRemains`, one request at a time |
| `AccessDeletedRoleIsUnused` | `DeletedRoleIsUnused`, one request at a time |
| **WireGuardPeersProofs** | |
| `WireGuardTypeCorrect` | registry, interface and suspended requests are well typed |
| `WireGuardImplementsPool` | `WireGuardPeers` implements `AddressPool`: no address is ever leased twice, whatever overlaps, fails or crashes |
| `WireGuardServesUniqueAddresses` | `ServedAddressesUnique`, for any number of overlapping requests |
| `WireGuardDownIsExplained` | `DownIsExplained`, likewise |
| `WireGuardAppliedMeansServed` | `AppliedMeansServed`: in the behaviours with one request at a time, success means served |
| **GatewayProofs** | |
| `GatewayTypeCorrect` | `PartsTypeOK` of MCGateway: edge, OpenVPN, tunnels and certificates are well typed |
| `GatewayListedServes` | `ListedServes`, for any number of requests, certificates and renewals |
| `GatewayLoneAnswersHold` | `LoneAnswersHold` of the SSH tunnels, for any users, keys, ways to read a line, and requests |
| `GatewayLoneApplyPushes` | `LoneApplyPushes` of OpenVPN, with both its halves, a client named "ca" included |
| `GatewayForwardsOpen` | `ForwardsOpen`, for any lists of destinations and any ports that are drawn |
| **PanelProofs** | |
| `PanelClientsUpToDate` | `ClientsUpToDate`, for any number of sockets |
| `PanelJournalMatchesSample` | `JournalMatchesSample`, for any clock and retention |
| `PanelPasswordsChangeOnRequest`, `PanelBootHeals`, `PanelLoneOkMeansSignIn` | the three properties of the setup and the boot, for any databases, names, passwords and overlapping requests |
| `PanelLoneSaveShows` | `LoneSaveShows`, for any bodies and contents |
| **PanelHostProofs** | |
| `PanelTypeCorrect` | `PartsTypeOK` of MCPanel: all eight parts of the panel are well typed, within the bounds |
| `PanelFilesInv` | the files are a tree, and what a lone request found in its check is still so when it acts |
| `PanelRequestsKeepToTheirs` | `RequestsKeepToTheirs`, for any tree, links (under the name of an archive too) and operations, and any number of requests |
| `PanelProtectedStay` | `ProtectedStay`: system accounts, and the removal of system groups, for any commands, overlapping, timed out and retried |
| `PanelLoneUserAnswersHold` | `LoneUserAnswersHold` |
| `PanelChangesSurviveReload` | `PanelChangesSurvive` of a jail, for any parameters, addresses and host names |

None of these properties is inductive. What has to be added, and why:

*Speed tests.* The first invariant adds which statuses go with which suspension point (a
task of an internet test is never at an await of an iperf3 task), that a task past its
wait has no live process, and that active jobs are in a finite table, which is what bounds
the servers. An outcome stays because no step of a task starts from a final status but
the closing one. `SweepInv`: of the jobs the sweep has behind it, one that is still being
launched is `missed` and one whose process lives is missed or waited for. For the
table, `BornInv` says that no creation time is used twice, so `_gc` keeps `MaxFinished`
jobs of the finished ones; it runs at each creation and the active jobs then differ in
kind or port, and after it nobody enters. `ParserInv` and `PollerInv` say that what
the poller shows, what it waits for and what the job keeps are all pieces of one sequence
of samples, cut at positions that depend on their numbers alone, and that an inactive
answer was given when that sequence was complete. `StreamInv` relates the parser to the
lines read so far. Of every interval it says what was read and whether iperf3 has more: of
one that was emitted, that nothing is left of it unless the pipe was quiet (`OutInv`); of
the pending one, that it holds exactly what was read (`PendingInv`); and that nothing
read is in neither (`CoverInv`). A line of another interval therefore ends the pending one,
because the lines of an interval are in one piece; and `emitted`, which is emptied at
`MaxEmitted`, still has every key as long as there are few (`Few`). Of every session it says
which streams were seen, that the summary holds totals, read after the last
"listening" (`SummaryInv`), and that its end was reported only if a total was read, once
and after its intervals (`EndsInv`): a role with several streams was seen with several
before its end lines come, so a line that is not their sum is never taken for the total.

*Login limiter.* The invariant counts for each address the logins between `check` and
`hit` beside the recorded failures: a login that is admitted found fewer failures than
the limit, and each failure that is recorded is one login in flight less. That
ageing hits keeps `InWindow` sound is proved by choosing the first hit that is still young.

*NginxEdge.* The document is written by requests that checked conflicts, by an apply
that saves what it loaded long before, and by a rollback. The invariant says that
every document such a step may write (in the hands of each handler, in each backup) is
free of clashes, and not only the saved one. The core is `WithNoClash`: adding an
admissible route to a document without a clash gives one without a clash. A pair of
routes counts as a clash only if each would be refused because of the other; the
check is not symmetric (a disabled route may be saved beside one it
would clash with), so less than that cannot be promised. `ApplyInv` follows an apply from
command to command: the document in its hands is the saved one, and each directory that it
has written is the preview. `RestoreInv` follows a failing one: a directory of a backup
that was not taken is missing, so the copy is not nested; each part of the copy is
what the apply found; and an undo has put back the parts it has passed. Both theorems
assume `OneHandler`, the first also that "look" is no fault, the second `DistinctSeconds` and
no fault "copy": those are the settings of the run, and without each of them TLC shows the
property violated (three hazards in `PROJECT.json` say so: nothing in the code excludes these
cases). From `Look` on `ApplyInv` says that, where another process has a public port, nothing
else of the panel or the distribution listens on port 80 (`Cleared`), so that only the ports of
the routes can keep nginx from following.

*Access.* Types, and that a request in flight is one of the requests. That
a key never exceeds its owner then follows from the types alone: permissions are
computed at each use, and the minimum of two levels is below the first. `SerialInv`, for
one request at a time, says that what a request has looked at is as it was: the row
it loaded, the other Super Admins it counted, the users of the role it is about to delete.
With two in flight this is false, and the run `access_lockout` loses the last Super Admin.

*WireGuard.* The invariant `TablesInv` says that the registry, the interface file, the
interface and every list of peers in the hands of a suspended request are without
duplicates, which is what carries uniqueness from the registry to the interface across the
awaits of `apply_server`. For the refinement, a save is `Take` of an address that
the same step found free, a deletion or an unreadable file is `Release`, and every other
step is a stutter. `SoloInv` says what each command of an apply that is alone has made
true: the table in hand, then the file, then the interface are the registry's.

*Certificates.* `CertInv` says for each step what it has in hand and what it has written:
what goes to disk was compared before, and no two requests write one certificate, because
each took an identifier that no file and no other request had (`ApartInv`).

*Manual DNS challenge.* The flag that lets a hook go on does not say whose it is. `DnsInv`
says of an undisturbed run that no other certbot lives, that `pending.json` and
every confirmation still waiting for the DNS are its own (`AloneInv`), and that
a flag it finds was left for the challenge it shows (`FlagInv`); for the last one the reset when a
run starts is what matters.

*SSH tunnel and OpenVPN.* `TunnelInv` and `VpnInv` keep, for a request that has been alone,
what it knows of accounts, registry, keys and documents at each of its commands; the answer
follows from the last one. For the PKI, `PkiInv` says that a certificate is there only with
its key and its CA, and that the documents have their pairs; it holds while no two requests have
overlapped, and then each step of `EnsureCa` and `Sign` has what the next one needs, so
a failure or a crash between any two leaves a PKI that the next request completes. That the
key of the CA is the one in its certificate is known until a client named "ca" got that
file, and `PkiInv` has both cases.

*Ports.* `PortsInv`: what has a port and what is still to come are together no more than
`MaxLength`; so the used ports are fewer than those searched (`UsedIsSmall`) and the
first free one is free. The entries to come and the forwards have different targets.

*Hub and journal.* `HubInv` adds that a broadcast has clients ahead only while it sends.
`JournalInv` adds that a connection that lasts began no earlier than its last visit ended,
and that the open rows are those of the last sample.

*Setup and boot.* `LifeInv` says for each await of a request which databases have a
schema, that `.env` names an administrator once it is complete, and what a request
that has the panel to itself has made true.

*Settings.* `SaveInv`: the rounds ahead are the last of those the body asks for
(`AheadInOrder`); a save that is alone holds what the documents say; and what its earlier
rounds were for is still there (`Behind`): the synchronisation of the switch is not undone
by the monitor's round unless the body has a value for it, which the last round then
carries back.

*File manager.* `FilesInv` says of the tree that every node lies in a folder (`TreeOK`),
of every request that its destination is a path, and of a lone one that what its check found is
still so (`Fits`). Three things carry it. The panel's walk never leaves the mounted
folder: a walk of n names is the least one that could, so its last step would have to, and
`Follow` refuses that. In a tree of folders the kernel's place of a path whose folder is
one is the path itself, so the name that the check passes on means to the kernel what it
meant to the panel. And each change (`Put`, `Drop`, `Moved`) leaves a tree; for a move
that is a renaming of the prefix (`Graft`), which keeps folders above their entries and has an
inverse. What is created never stands for what was there, because `mkdir` and
`O_EXCL` look in the step that creates; that half holds for overlapping requests as well. An
archive in the making may lie behind a link; what opening it truncates is one file, at the
end of the links, and everything else is as for the other requests.

*Users and jail.* `HostInv`: every command that is about to run, or was given up and may
still run, was harmless when its request was accepted, and accounts never change
their class, so it is harmless when it runs. `HostLoneInv`: what is left of a lone request is
its own command, whose second run finds the first one's work. `JailInv` follows a lone
request from its query to its reload.

*Types.* The invariants above have most of the types. `PanelTypeCorrect` joins them and adds the
bounds that they leave out: of the payloads and the waiting socket (`HubBounds`), of the clock
(`JournalBounds`) and of the commands that were given up (`StrayBounds`).

The assumptions are on constants only. Bounds are natural numbers; requests have
their fields; the model values that stand for "none" differ from the others.
`LockoutAssumption` is true of both limiters of the application. `PortsAssumption` says that no
user has as many destinations as there are ports to search: between 20000 and 65000 there are
45 001. `LifeAssumption` says that the wizard's body has all its fields and that a `.env`
which is complete names an administrator, if only by the defaults of `config.py`.
`DomainsAssumption` says that a certificate has a domain. `IperfAssumption` is about
iperf3, not about the panel: it says of every output (`Prints`) that its intervals come in
order, each in one piece and with every stream of its session; that a sum comes after its
streams, of which there are several; that a client prints the directions it was asked for; and that
the end lines of a session come after a separator and before "listening", which is
printed before each session. It says nothing of pauses, and a session may be broken off after any
whole interval.
`UsersAssumption` says that a request for a password has one and names the accounts the
model begins with; `SettingsAssumption` that neither the mask nor an absent field is a
password. `FilesAssumption` says that the mounted folder is not the root of the file system,
that the tree in the beginning is one whose links have targets, and that paths and names are
such. `NoneAssumption` says that "ca", the name of a client, names no request, `ReadAssumption`
that every line of a key is read as that of some key. TLC evaluates all of them in the runs.

Only model-checked:

* `LockoutEnds`, `TestsEnd`, `StopFreesSlot` and `ChallengeSettles`: they need fairness.
* That the six runs that expect a violation find one.

## 5. Not modelled, and the plan

Not modelled, because there is no order of things that could go wrong in them, or because
it is not the panel's: the firewall (one ufw or iptables command per request; a ufw rule
is deleted by its number, which the retry under sudo may find renumbered), services,
Docker, disks, network and the samplers of metrics; the rendering of the frontend; texts and
migrations; password hashing. In the modelled components: installing packages, the algorithms
of keys, DNS, routes and NAT of the VPNs, the expiry of API keys, the numbers of a speed
test.

Known not to hold, with nothing in the code that excludes it, and so not stated: keys of
a settings document under overlapping saves; the names of WireGuard peers under
overlapping creations; one of two uploads of the same name; the values of overlapping
fail2ban requests, and host names in a whitelist; a backup in the second of another one; the
end of a broadcast; the members of system groups; the CA's key once a client is named "ca"; a
tunnel key with a key type in its comment, or that shares its beginning with a removed one; the
registry entry after half of a `userdel -r`; the file behind a link at an archive's temporary
name; routes on ports of other processes, and an edge whose panel is shown no processes by `ss`;
and the end of a speed test whose task died of `ProcessLookupError`: the model has that step
(`LimitAfterExit`), the job stays active until the panel restarts, and the properties about the
end of tests except it.

To come: an abstract specification of an edge whose served configuration changes from one
tested configuration to another, which NginxEdge implements when nothing fails.

## 6. Running the checks

    tlasany Access.tla
    tlc -workers 2 -config Panel.cfg MCPanel
    tlapm AccessProofs.tla
    tlapm PanelHostProofs.tla

The longest runs, `panel` and `gateway`, take about four minutes each on two workers.
