# TLA+ models of HoneyPot-Attack-Detection

This directory models the honeypot system from the alert to the report: how
commands reach the agents, how the data of one visitor is merged, how logs and
alerts get from where they arise to the management database and what becomes of
them there, how an analysis turns them into a graph, prunes it and tells it, how
bait documents keep leading back to their files, and what survives crashes,
reconnects, restarts and the takeover of an older installation. TLC checks the
models on small instances; TLAPS proves every safety property of the passing runs for
all values of the constants, under the assumptions section 4 names.

    tlc -workers 2 -config CommandChannel.cfg MCCommandChannel.tla
    tlapm CommandChannelProofs.tla

`PROJECT.json` lists the components, runs, findings, hazards and theorems, maps
every modelled definition to its source lines, and names for each property a
plausible bug (a mutant: an operator marked *Deviation* in the module) under
which TLC finds the property violated.

## 1. The system

### Parts and their state

| Part | Source | State | Operations |
|---|---|---|---|
| Management server, command side | `systemwire2/flask_server/views.py`, `systemwire2/agent_server/core/` | one process: Flask threads and a gRPC server with 10 workers; per agent a `Queue`, `task_stream`, `status`; tables `AgentControlLog`, `ClientInfo` | queue a command, RegisterHost, RequestCmd (a server stream), ReprotState, ReturnCmdResult, restart |
| Agent | `agent-go/internal/agent/agent.go` | context, one receiver, one reporter, monitor | connect, register, receive, execute in a goroutine, report, reconnect |
| Agent's command handlers | `agent-go/internal/agent/handler.go`, `internal/command`, `internal/account` | files on the host, `config/paths.list` | monitor paths, bait accounts, honeypot files, page injection |
| Agent's audit monitor | `agent-go/internal/monitor/auditdMonitor_linux.go` | `lastQueryTime`, its state file, audit rules | query `ausearch` every ten seconds, save the time, write and push events |
| alert_server, parasitic honeypot | `alert_server/internal/parasitic`, `handlers/parasitic_handler.go` | buffer per address, `checkCh`, `logCache`, `device_fingerprints` | /info, /ips, /ws, merge, cleanup, list |
| alert_server, triggers and filters | `handlers/alert_handler.go`, `account_handler.go`, `pkg/filter.go`, `middlewares` | trigger and account tables, limiters, block list | record a trigger, list since a time, rate limit |
| Alert pull | `views.py` (5454-6930), `deployment/postgres/004_account_batch_sync.sql` | `LastQueryTime` cursors, `alert_events` | scheduled and manual pulls of three honeypots |
| Unified alert store | `flask_server/alert_store.py`, the ingesting halves of the pulls in `views.py` | a table of rows for each kind, `alert_events` with details, one transaction per pull | check, insert, ingest, refresh, backfill, group actors |
| Start | `flask_server/exts.py`, `alert_store.py` (1010-1230) | the older database, two markers, local account, agent and bait | take over tables, then alerts; backfill; bootstrap |
| Analyses | `views.py` (86-285, 2448-2905), `analysis_guard.py`, `deployment/export_alerts_to_step1.py` | a lock, the files of each run directory, the pointer to the latest | live, scenario and balanced analysis; report |
| Baits | `views.py` (990-1110, 1700-2145, 3440-4380), `controller/get_token.py` | `Honeyfile` rows, documents, deployments, the command log | create, download, repair, delete, deploy, remove, replay |
| Web access observer | `deployment/public_portal/observe_access.py` | offsets per inode in memory and in a checkpoint file, `web_access_observations` | read a batch, commit, checkpoint, retain |
| SSH honeypot | `ssh-vpn/main.go` | none | refuse a login, post it |
| Analysis pipeline | `step1_data_collection` ... `step4_graph_to_text` | within a run: events, graph, mask of the edges, the guard's cached ways | collect events, build the graph, train, prune it, describe it |
| Bot server | `js/latest/bot` | as the parasitic honeypot | stand-alone predecessor of it |
| Deployment, experiments, document formats, other pages, mail, Kafka | `deployment`, `experiments`, `flask_server/controller` | single rows and files | scripts and forms |

### How they interact

- An operator's request writes an `AgentControlLog` row and then puts the command
  in the agent's queue. The generator of the agent's `RequestCmd` stream takes it
  out and yields it; the agent runs it in a goroutine and calls
  `ReturnCmdResult`, which completes the row. `ReprotState` every few seconds is
  the only thing that notices a dead connection on the agent's side.
- A visitor's browser talks to alert_server on three channels that meet in a
  buffer per address; two loops (check, cleanup) turn buffers into rows.
- The management server pulls: a scheduler at fixed intervals and operators at any time
  read what is newer than a cursor, over HTTP pages or, with one PostgreSQL
  database, by a function in batches.
- What a pull gets it stores twice in one transaction, as a row and in an event;
  pages, analyses and backfills read events, the pulls that overlap share them.
- An analysis holds a lock of the process, reads the store's events of a window
  and hands them on from step to step through files that pages, and the report
  of a language model, read without the lock.
- A document calls a token's address when it is opened; the alert finds its file by
  the token in the row. Downloads, repairs and an agent's fetch renew both, each in
  a session of its own. A repair then queues the latest deployments of the command log
  once more.
- At its start the process may take over a database that an older installation is still writing.
- nginx and the observer share a log file and nothing else; auditd and the audit
  monitor share the audit log.

### What is hard

Overlapping streams and loops of old and new connections; unlocked writes after
a lock was released; a channel that drops when full; cursors that are written
after, or time that is read before, what they stand for; pages of a list that
grows at the front; checkpoints and crashes; a result sent once; transactions
that read, then rewrite a shared event column by column; copying table by table
from a database that goes on changing; a token, a document and a row that must
agree although each is written by itself; vetoes that answer from cached ways;
the same alert named by six mappings. `PROJECT.json`
lists each hazard at its line with the properties that would catch it, or the
reason why none does yet.

### What makes each part correct

- *Command channel*: a command is logged before it travels, starts at most once,
  and its row ends with the outcome of that execution or keeps waiting; once one
  stream is settled, commands are executed; the status heals.
- *Session merging*: a buffer is saved once, a row mixes no two clients and is
  complete, a complete buffer is not forgotten, the map is emptied.
- *Observer*: what the checkpoint counts as read is in the table, without gaps;
  lines arrive unless rotated away or behind one that is too long.
- *Pull*: one row per alert; a pull skips nothing; no cursor passes an alert that
  is not stored, but for an operator who asked for less.
- *Audit monitor*: the query time passes no unseen record; every record is found;
  what was handled was reported.
- *Alert store*: no row without its event, no event of rows that are not its own; a
  backfill sets every event right; an actor is a chain of shared signals.
- *Start*: what a marker says was taken over is here, and what was removed under it stays away while the
  older file does not change.
- *Analyses*: an analysis works on its whole window or is refused; the results a
  directory shows belong together.
- *Collection and mapping*: a collection that ends is whole; two events may be laid
  to one attacker exactly if their records share an identity.
- *Pruning*: no required path is cut, no observed event lost, whichever way pruning
  goes; the second pass has nothing to object to.
- *Graph to text*: what is told is among what is shown, and what is left out is said.
- *Baits*: a row with a seed keeps its token, and its documents call it; what was answered as
  removed is gone; a repair does not bring back options that were replaced before it began.
- *Agent's handlers* (planned): a command that is repeated or fails half-way leaves
  the host in a state the next command can deal with.
- *Filter* (planned): a client that goes on after refusals is blocked, others not.

## 2. Modules

| Module | Models | Composes |
|---|---|---|
| `CommandDelivery` | the abstract promise of the command channel | |
| `CommandChannel` | views (queueing), servicer, server, agent of one host | `INSTANCE CommandDelivery` under a refinement mapping |
| `CommandChannelProofs` | 8 theorems | |
| `SessionManager`, `SessionManagerProofs` | session.go and the three handlers | |
| `AccessObserver`, `AccessObserverProofs` | observe_access.py with nginx and logrotate | |
| `AlertPull`, `AlertPullProofs` | the pulls of views.py with the listing handlers of alert_server and the SQL batch function | |
| `AuditMonitor`, `AuditMonitorProofs` | the query loops of the agent, its state file step by step | |
| `AlertStore` | rows and events of the store under overlapping transactions | |
| `LiveAnalysis`, `LiveAnalysisProofs` | analyses, their files, pointer and reports | EXTENDS `AlertStore` |
| `Startup` | init_exts, the takeover, the local bait | |
| `EventCollection` | collector.py: where a collection reads, in which order | |
| `EventMapping` | what ten ways from record to event make of an alert | |
| `ActorGroups` | the grouping of rows into actors | `Reachability` |
| `ProvenanceGraph` | graph_builder.py, evidence.py | `Reachability` |
| `PathGuard` | step 3 with training and fallback, and the narrative of step 4 | `Reachability` |
| `AnalysisPipeline` | steps 2 to 4 in a row, the scores of edges | EXTENDS `PathGuard`, INSTANCE `ProvenanceGraph` |
| `AnalysisSteps`, `AnalysisPipelineProofs` | the pipeline with the steps before and beside it | EXTENDS `AnalysisPipeline`, INSTANCE `EventCollection`, `EventMapping`, `ActorGroups` |
| `BaitDelivery` | documents, tokens, rows and deployments of baits | |
| `DeploymentReplay` | the second half of a repair | |
| `Management`, `ManagementProofs` | the management process: store, analyses, start, baits and replay | EXTENDS `LiveAnalysis`, `Startup`, INSTANCE `BaitDelivery`, `DeploymentReplay` |
| `Reachability` | what can be reached over a set of edges | |
| `MC*` | instances for TLC | `MCLiveAnalysis`, `MCAnalysisPipeline` and `MCMonitors` compose modules in scenes, see below |

### CommandChannel

State: per command its row (`row`), the step of the request that queues it (`op`), how often it
was started and with what outcome; the shared `queue` and `taskStream`, the two
statuses; per stream the generator's position (`gen`) and what it holds, the two
views of the connection (`net`, `srvUp`: the server notices a break later), the
messages in flight, the agent's receiver; the agent's `phase` and its reporter; the results under
way. A fault is a broken transport, a result or commit that is lost, a report
that fails, a crash of the agent or a restart of the server; `MaxFaults` bounds
them together, each alone is one action.

The actions follow the code's steps as far as another thread can see them:
`RequestCmd` registers the stream, `GenLoop` asks whether the *current*
`task_stream` is active (not its own), `GenGet` waits on the queue, `GenTimeout` yields a heart
beat after 20 s, `GenSend` yields, `GenOffline` and `GenDbOffline` are
the finally block; `CommitRow` and `PutCmd` are the two halves of
`_queue_agent_cmd`. Not modelled: the pool of ten workers, several agents,
equal ids of two commands (time and a random part, taken as distinct), and the `wg.Add` after `go` (agent.go:304).

### SessionManager

A buffer is named after the request that created it, so its identity, and not
only its address, is known; a field holds the request that wrote it last. `Write` is one
unlocked store of a handler, in the handler's order. Sharing a buffer without a
lock is a data race; the model lets the stores become visible in program order, as on amd64, the
target `agent-go/README.md` and `DEPLOYMENT_GUIDE.md` build for. `Age` moves
`LastTouch` behind 30 s and then behind the timeout (300 s by default,
`alert_server/pkg/config.go:235`). `Prompt = TRUE` says that no 30 s pass inside a handler or
while a signal is queued; safety is proved without it; the run, whose liveness needs it, has it.

### AccessObserver

Offsets count lines; an incomplete last line is a flag, and a line is well-formed, malformed or too long. nginx appends in two
writes, logrotate renames (`Rotate`) and nginx reopens later (`Reopen`), so lines still reach the
renamed file. `ReadBatch`, `CommitBatch` and `SaveState` are the three steps of `main` between which it may fail (`RoundFails`, `SaveFails`) or
die (`Crash`). A batch ends before a line of more than 65,536 bytes (`Ends`): `readline(65537)` returns it without its newline, as if it
were still being written, so nothing behind it is ever read. The checkpoint keeps the inodes that entered it last
(`Newest`; 32 in the code, `MaxKept` here); a file that falls out is read again from its start. `Reuse` says whether a new file may
get the inode number of a removed one. Files only grow: one that is truncated in place is left out.

### AlertPull

One module for four paths (`kind`), since `views.py` repeats one shape: `StartPull` computes the
since time, `FetchFile`, `FetchAccounts`, `FetchLogs` and `SyncBatch` get rows,
`CheckRows` looks for existing keys, `CommitRows` inserts against the unique key,
`Record` moves the cursor. `Heads` and `Pages` define what a
page of a list in a given order may hold, ties included. The source's side
(`Trigger`, `Arrive`, `Reload`) runs at any time in between.
Abstractions: the count and the page of one HTTP answer are read together; the
HTTP account path is that of the SQLite set-up, where times are compared as
text; the cursor row exists; alerts differ in their key (their 60 s windows are in
`AlertStore`), and the Kafka push and `pull_File_day` are left out; rows of the source
are not deleted.
An operator asks for a window (`Days`) that may begin behind alerts no pull has read, and the request sets the cursor to
now all the same; the history variable `left` has what such windows left out. An operator's pull takes up to `MaxPull` ticks.

### AuditMonitor

`Start` starts a loop for each connection of the agent, a cancelled loop may still be in a query;
`Ask` reads both ends of the interval, `Search` is `ausearch` over it, `Advance` moves the query time, and
`ReadState`, `WriteState` and `RenameState` save it: the shared time is read, written to the one temporary file and renamed, and
another loop may come in between, each time. `HandOver` starts the goroutine of `HandleEvent`, which ends with an
error when a report cannot be sent, and counts one the server refuses (`refused`) as handled. All loops share the time and both files. A record is in the audit log within the second it carries; on
a first start the code looks back 24 hours, which here covers everything.

### AlertStore and LiveAnalysis

An alert is a row of its kind and part of an event. A pull is a transaction: `Check`
looks an alert up among the committed rows and its own (files wait, the others are
inserted at once), `IngestFile` inserts and rewrites the event in the
transaction, `Commit` writes rows and the changed columns of events (`Merge`:
SQLAlchemy updates what differs from what was read), or everything is rolled back when
two pulls both made an event (`Conflict`). `SameRow`, `SameInBatch` and
`EventKey` are the three ways the code tells alerts apart: by distance in time,
by batch, by bucket. `Refreshed` and `Backfilled` are the maintenance passes. Rows the takeover copies (their events come with the next
backfill) and parasitic rows a backfill passes over (alert_store.py:1518) are outside the module: all its rows are pulled ones.

`LiveAnalysis` puts the pages' analyses on top: `Accept` takes the lock, `Count` and `Load`
are two queries, `WriteFile` one file after the other, `PointStart` and `PointEnd` the pointer,
which is emptied before it is written. A file is known by the number of the
analysis that wrote it. `FailAnalysis` may come at any step and tear the file that is being written.

### Startup

`BusinessBegin`, `CopyTable` (one table, INSERT OR IGNORE, committed by itself),
`BusinessEnd`, `AlertsBegin`, `AlertsRead` and `BackfillEnd` are the steps between which a start
breaks off (`Down`); rows keep their local ids and names, and foreign keys hold; the older installation may add rows, and its
file a modification time, in between. `gone` keeps for each business row what its marker was when the row was last removed here:
a row that was removed under the marker in force must stay away, one that was removed before it, or under an older one, is copied again.

### EventCollection, EventMapping, ProvenanceGraph, PathGuard

`EventCollection` has where a collection reads: kind by kind from the store, from raw
sources when there is nothing, or all at once from the API by whole hours back; pulls and time
go on. `EventMapping` maps one record by the collector's API mapping, its three parsers, the four adapters and the
exporter, and gives each event its anchors; the store's "-" and the mappings' "unknown" for what is absent are values
of their own, told apart as the code does. `ProvenanceGraph` folds events in time order
into attackers and paths and links neighbours. `PathGuard` lets the network propose
anything: `TrainStep` and `Replay` ask the guard about the episode's and older masks, `Decide`
goes through a partition edge by edge, `Filter` once more over all, `DqnFails` is the rule,
`Restore` puts back what a required path needs, and `Tell` is the narrative. The guard's cached witness of each path
is state, since that is what makes its answers depend on what it was asked before. The trainer keeps the guards of two graphs at a time
(trainer.py:248-254) and makes a dropped one anew; the model trains one graph, whose guard is never dropped. A new guard's ways are searched
in the whole graph, as they are when training starts.

### BaitDelivery and DeploymentReplay

A file is its row (token, seed, whether it has a document of its own), the document on disk
(the token in it, torn or missing), and the documents that were given away (`planted`). A request goes through
`LookAlive`, `LookDead` or `LookGone`, `Issue`, `Write`, `Commit`; `with` carries what the session has
changed and not committed, also after a failure inside repair-all. Containers hold
documents by name (`inside`). `DeploymentReplay` reads the log once for each kind and then sends, while agents
come and go, files are deleted and deployments go on; the history variable `upTo` has how long the log was when the rows of a kind were read.

## 3. Runs

| Run | Bounds | Shows |
|---|---|---|
| `channel` | 2 commands, 2 streams, 1 fault | TypeOK, AtMostOnce, RowTellsTheTruth, OneLiveReceiver, SettledDelivers, StatusHeals, and that the channel implements CommandDelivery |
| `session` | 3 requests, 2 addresses, capacity 1, Prompt | TypeOK, SavedOnce, RowOfOneClient, RowComplete, EntriesLeave, CompleteIsSaved |
| `session_skipped` | the same | *violated*: CleanupHandlesSkipped |
| `session_channels` | the same | *violated*: AllThreeReady |
| `monitors` | two scenes: 3 files of 2 lines, batches of 1, 2 inodes kept, 1 fault; and 1 record at any second, 2 loops, 2 seconds, 2 faults | TypeOK, MonitorTypeOK, CommitBeforeCheckpoint, NoGaps, NoGap, LinesArrive, EventFound |
| `observer_reuse` | 2 inode numbers for 3 files, Reuse | *violated*: CommitBeforeCheckpoint |
| `pull` | 2 alerts, 4 paths, the task and an operator, pages of 1, windows of 1 tick, look-back of 3, delay and an operator's pull of 1, 5 ticks on the database path, 4 on that of the log without faults, 3 else, 1 fault | TypeOK, StoredOnce, PullComplete, CursorHonest |
| `pull_http` | 3 alerts, the HTTP account path, the task alone, no fault | *violated*: HttpCursorHonest |
| `audit_report` | 2 records in one search, no fault | *violated*: HandledReported |
| `pipeline` | four scenes, below | StepTypes, BuiltGraphsStayWhole, RequiredStaysReachable, SecondPassAccepts, NarrativeHonest, CollectedWhole, ActorsConnected, EvidenceJoins |
| `analysis` | eight scenes, below | ManagementTypes, RowsHaveEvents, BackfillRestores, InputWhole, ResultsTogether, BaitsResolve, ReplayedLatest, LegacyCarriedOver |
| `bait_removal` | the scene of deployments | *violated*: RemovedIsGone |

`monitors` and the last three compose modules that share no state, or only what a query reads, each explored in
*scenes* of its own: the initial states choose the scene, and a step changes its variables only.

- `pipeline`: *analyze*, three alerts at any of four distances through steps 2 and 3 as
  the pages run them, and 52 given graphs (some no builder makes: loops, double edges, paths that share edges)
  through training, partitions of three edges, filter, rule, restoring and narrative; *collect*, five
  configurations and windows of any width while the clock ticks and pulls go on; *actors*, pages of up to four of ten
  rows; *mapping*, two of 127 records on ten ways.
- `monitors`: *observer* and *audit*, the two processes that follow a log and keep their place on disk.
- `analysis`: *store*, two pulls of any three of four alerts that overlap, two faults (the second while there are three rows at most); *input*, the same beside the queries of two
  analyses, one after the other, with a limit of one alert; *files*, two analyses, a report and two faults on one directory;
  *baits*, two requests, a file from before seeds and one that is created; *baits in place*, two deployments at a time into two places, one request at a
  time; *replay*, three deployments of two files, and pages; *start*, three starts over an
  older database; *local*, the local bait over three starts.

Why these bounds are enough to be interesting: a stale generator, a late
RequestCmd and a successor need two streams, to lose a command beside one that arrives needs two
commands; every kind of fault comes alone, and the proofs cover any number of them. A stale pointer needs a
buffer removed and made again, with three requests (one may fill the channel of
capacity 1 for another address). Three files are one rotated away, one LOG.1 and one LOG, with one more than the
checkpoint keeps; pages and batches of one row or line make every boundary happen. Of all lines one is malformed or too long, at any place. Two loops and one save step by
step are enough for a read of the shared time, another loop's write of the temporary file and either one's rename. Two pullers make check and insert race, and the delay of one tick lets alerts
arrive behind a cursor. An operator's window of one tick begins behind an alert from the fourth tick on, and only then can the
cursor pass one that it left out; the fifth tick (`Horizon`; the other paths end before it) lets that happen on the path CursorHonest is about. A log's fourth lets its
look-back end behind an alert. In the store, two alerts of one bucket and two of one second are enough
for every kind of folding, two transactions for every lost column. A path that can be cut in
two places, or kept by either of two ways, needs three or four edges; a graph split into parts
needs more edges than a part holds, and has them. Three rows chain two signals, a
fourth stays apart. Constants that only bound (MaxRows, MaxRuns, MaxLog, MaxStarts, MaxToken ...) are
named in the modules and reached. `Symmetry` permutes pullers and requests, which no definition tells
apart; the runs with liveness use none, but put interchangeable values in one order at the start.

Deadlock is not checked in any run: operators, visitors and attackers owe the
system nothing, and the bounded traffic, files, clock and faults run out.

### Fairness

- Command channel: weak fairness of each thread of both processes (queueing
  requests, generators, receivers, executions, report loop) and of the transport's noticing a break.
  Nothing is assumed of operators and faults. `SettledDelivers` speaks of a time
  after the last fault; before it the channel promises nothing, for it retries nothing.
- Session manager: handlers finish what they began, `checkLoop` and `cleanupLoop` run, time passes. Savers
  need no fairness: being handed to one is what is promised.
- Observer: systemd restarts it (`Restart=`), the loop swallows exceptions, so its
  steps are fair; nginx completes a line and acts on its signal. Nothing is
  assumed of visitors and of logrotate, which may be faster than the observer.
- Audit monitor: the agent is restarted and reconnects, a live loop ticks, a
  query that runs ends. A cancelled loop owes nothing.
- The modules of the store, the analyses and the baits state no liveness: operators and pulls owe no step,
  and what is not retried is not promised.

### Findings

1. `session.go:230`: a signal that meets a full channel is skipped with the
   comment that the next cleanup handles it; cleanup only throws the complete buffer away.
2. `observe_access.py:48`: offsets are kept by inode number after a file is gone; a
   new log with the same number is read from there.
3. `views.py:6647`: a row that arrives between two pages is counted in place of the oldest, which the cursor then passes.
4. `auditdMonitor_linux.go:526`: `HandleEvent` returns after the first record of
   a batch when a server is connected.
5. `views.py:4284`: a bait deployed under its name without the random tag is
   removed by the name with it; the answer is success and the bait still there.
6. `session.go:157`: the comment above the test says that all three channels are checked; the code tests two, so the row of a
   visitor whose WebSocket probe is late is written without it.

### Observations

Behaviour the models contain, and no document denies:

- *Graph.* A graph of step 2 is never pruned: each path is a chain between the ends that are required, so the
  guard keeps all of it (BuiltGraphsStayWhole). Candidate paths follow only the earliest edge from each node.
  Browsers without a fingerprint all get the anchor "fp:unknown browser fingerprint" and pass for one attacker
  (graph_builder.py:183); audit events have no anchors, so each is an attacker of its own. The exporter runs
  without experiment annotations, so its edge labels are always empty.
- *Pull.* An operator's request for a few days moves the cursor to now like any other (views.py:6880-6900): alerts that are older than
  the window and were not pulled yet, because the scheduled task failed or had not run, are never asked for again.
- *Mapping.* The store writes "-" for the place and the name of a file that is deployed nowhere, and the collector takes that for its name:
  all such files are the one object file:unknown, whatever their tokens (collector.py:574-577, 628).
- *Collection.* The raw adapters read `session_token` where the scripts send `sessionToken`, and drop an
  OpenVPN user; the raw fallback compares times as text and loses alerts of the window's first UTC day; SQLite may miss the
  window's last moment; the API's hours are counted back from the moment it is asked, and rounded down within their first second (collector.py:346), so that an alert of the window's first moment may be left out; a file's object
  has one name from the API and another from the store. The priority of actors across honeypots never applies in balanced mode
  (actors are grouped kind by kind before).
- *Store.* Account attempts that differ only in password are one event. Pulls that overlap may turn an
  event's time back until a backfill; a deleted honeyfile leaves its events' place, and
  a backfill then writes "-" over it.
- *Start.* A row that was removed here comes back with the next backfill if no marker was set when it was removed, or once the older file has changed.
  Ids are local, so an older alert whose id is taken is never copied although its marker says so, and
  INSERT OR IGNORE may leave an older deployment pointing at another file. A skipped file breaks the foreign key of its deployments, and
  that table fails at every start. On SQLite a stored lookup time is read back without a zone, and comparing it with the older database's
  raises, so that every start with a backfill fails once both have one (alert_store.py:1224). The bootstrap regenerates a docx or xlsx
  of `generate/` at every start, over a user's bait.
- *Baits.* `file_delete` removes the document before the database may refuse to remove the row; a
  regeneration that fails leaves a token in the session that the next commit of repair-all writes; files from before
  seeds change their token once, and documents planted before that, or served although the commit of the change failed, resolve to nothing while the row holds the other; two uploads of one name overwrite each other's
  source; where the targets of two deployments overlap with different files, a replay, newest first, lets the oldest one's
  options win; so does a deployment that is logged after the repair has read its rows, which the older one sent after it overtakes, and one of a
  file that is deleted meanwhile; remove-all gives up at the first container that is gone.

## 4. Proofs

All theorems hold for every value of the constants under the `ASSUME` of the
module and the assumptions named here. In each module `IInv` is inductive: the
properties alone are not, since they do not say where things are in between.

- `CommandChannelProofs`: `IInv` adds that a command is in one place at a time
  (queue, a generator, a wire) and, once started, in none
  (`OnePlace`, `UnderWay`); that results under way tell the outcome (`Returned`); and which
  receiver's context is alive (`Receiving`). From it AtMostOnce, RowTellsTheTruth,
  OneLiveReceiver, that a row comes before its command (LoggedBeforeQueued), that a dead stream
  takes one command at most (DeadStreamTakesOne), and step by step the refinement `Spec => DeliverySpec`.
- `SessionManagerProofs`: buffers belong to one address for good (`EntryOwned`,
  `PtrOwned`, `HeapOwned`, `SaverOwned`), handlers write data before flags (`WrittenFirst`), and savers hold
  buffers that were ready (`SavedReady`). No timing assumption, while the run has `Prompt`, which its liveness
  needs. Also NoLostWakeup: a complete buffer in the map has a wake-up on its way unless the full channel swallowed it.
- `AccessObserverProofs`: under `~Reuse`, every offset points into its file at a
  line whose predecessors are in the table (`Covered`), a batch starts where
  the table ends (`InBatch`), and no offset is kept for an inode number not yet in use (`Unused`): this is
  what inode reuse breaks.
- `AlertPullProofs`: StoredOnce for all paths. PullComplete, from what a pull knows of the alerts it saw
  (`SeenInv`): in the database, those with its batches behind it are stored, because ids are never given
  twice; in the log, one that is not stored has a full page of newer rows above it for every page the pull has
  had (`NotOnThePage`), because the log only grows while it fits its cache, and a page that lacks it is full and not the last.
  CursorHonest of the database path under `Timely`: the look-back of five minutes exceeds the delay
  of an alert plus the length of an operator's pull, since that writes the time at its end into the cursor. Nothing is assumed of the
  windows operators ask for: what a short one skips is in `left`, and nothing else is passed.
- `AuditMonitorProofs`: NoGap, from what a running query knows: everything before its
  start is found, or will be by its answer (`QueryKnows`); and no time on its way to the state file, in a loop or in the temporary
  file, passes an unfound record either (`TimesKnow`).
- `AnalysisPipelineProofs`, the analysis, for any alerts, graphs, network and sizes.
  *Pruning*: RequiredStaysReachable and SecondPassAccepts. A witness that avoids an edge keeps its path; the
  guard's cached ways are ways of its mask or are searched anew; and what may go from a mask may go from every larger one, so
  the masks of the first pass and of the filter agree when the graph was not split (`Removal`).
  *The graph of step 2*: BuiltGraphsStayWhole. Each path is a chain between the two ends that are required
  (`BuildInv`, `GroupIsChain`), and in a chain every edge is the only way on (`Whole`), so nothing is ever prunable.
  *The narrative*: NarrativeHonest. The lists are cut from the sorted edges and never gain one; a walk
  is followed over its eight steps, each an edge from where the last ended to a node not yet on it.
  *Collection*: CollectedWhole. Of each kind that was read there is what it is bound to have by then (`Gathered`), however the clock ticks and pulls
  go on between the reads.
  *Mapping*: EvidenceJoins. On each of the ten ways the anchors are what the record says of an attacker, no more and no less (`ReadingTells`).
  *Actors*: ActorsConnected. The groups are a forest in which the rows above a row get fewer on the way up, so every search for a
  root ends (`FindIs`); turn by turn and signal by signal, two rows have one root exactly if signals chain them (`Grouped`).
  *Types*: StepTypes, with the sets the partitions are made of. Components are classes, pieces are listed by their first
  edges, and no part is longer than the limit or a piece (`PartitionsAre`). The proof showed that the
  type of `todo` held by chance: a restoring that fails has paths left, not edges, and a graph may require more paths than it has edges.
- `LiveAnalysisProofs`: InputWhole and ResultsTogether. The lock lets one analysis run, so what it has
  written is the newest of its directory (`Exclusive`, `Numbered`), and it writes the summary after the files it
  sums up (`Progress`); fewer events than asked for are all there are (`QueryFacts`). RowsHaveEvents of the store:
  a row is of one pull (`Inserted`), and a pull has the event of each of its rows, names committed rows and
  its own in it, and opens one of its own (`Ingesting`), so that whatever columns a commit writes, the event names rows that are there.
  BackfillRestores: a backfill is a recursion over the rows in time order (`RowByRow`), and what it leaves is shown
  row by row (`Again`) from the invariant alone, hence from any state pulls were broken off in.
- `ManagementProofs`, the rest of the management process. *Start*: LegacyCarriedOver. A table that was gone through without failure has all
  rows of the older one as of the marker that will be written; and while the file stays as the marker says, nothing is copied, so that what
  was removed under it does not come back (`Behind`, with `gone` never ahead of the marker; `TablesCopied`, `AlertsNoted`).
  *Baits*: BaitsResolve. There is one token for a file and two for one from before seeds, and no row, session, document
  or copy given away holds another; renewals, repairs and failures move between these only (`BaitInv`), and step by step no row changes its
  token but from the first of two to the second (`RowKeepsToken`).
  *Replay*: ReplayedLatest. What was gone through of a kind is newer than the rest, and its targets were seen (`ReplayInv`); and with a row that was read, every later
  one of its kind was read that the log then had (`NewestWasRead`).
  And ManagementTypes, the types of all parts, which share no variable, so that the theorem joins those of the parts.

The library's induction theorems take an operator as a parameter, so the inductions here are over sets: what holds of all numbers,
rows, turns or steps of a search is a set that has the first of them and with each the next (`AllNumbers`, `RowByRow`).

Only model-checked: the liveness properties (SettledDelivers, StatusHeals, EntriesLeave, CompleteIsSaved,
LinesArrive, EventFound), which the prover does not reach. What the runs with an expected violation state is false and
has no theorem.

## 5. Not modelled, and the plan

Done: the modules above, in the order of their importance. Next:

1. `AgentCommands`: the host under repeated, overlapping and failing commands
   (handler.go, audit rules, paths.list), below `Execute` of `CommandChannel`.
2. `MailCollector`: get_email.py, whose cursor is a count of messages and whose task ends at an empty file.
3. `RequestFilter`: limiter, attempts and block list of alert_server under concurrent requests.
4. `WorkerPool`: ten gRPC workers, several agents' streams, and the calls that starve behind them.
5. Theorems: what the parts of one process promise each other (a command's row and its result beside the pages that read them), and
   the abstract specification of the store that `RowsHaveEvents` suggests.

Left out within the modelled parts: time zones and the lengths of columns (a result of more than 50 characters, which PostgreSQL refuses,
is one of the lost results of `CommandChannel`), GeoIP and reputations, the wording of every text, the weights of the
network, stages and severities of events, the import into PostgreSQL (`migrate_sqlite.py`: one transaction, verified at its end).

Not modelled and not planned: other pages and forms, formats of documents and mail,
the language model, deployment scripts, experiments, bot scoring, `js/latest` (the predecessor of the
parasitic honeypot), and `controller/alert_collector.py`, `agent.py` and `auditd.py` beside it, which nothing imports. They keep no concurrent state; what can go wrong in
them is a matter of data, for tests.
