# nazg: models, checks and proofs

nazg is a C++ development assistant: one command-line program with a SQLite
database (Nexus), a log, a workspace time machine, bots that examine remote hosts,
Docker monitoring, git helpers and a TUI, and a second program, `nazg-agent`, that runs
on remote hosts. This directory holds TLA+ modules that model parts of it, TLC
configurations that check them on small instances, and TLAPS proofs of the
results that hold for every instance. `PROJECT.json` maps each definition to the
lines it models and lists runs, mutants, findings, hazards and theorems.

## Inventory

| component | state | operations | interacts with | hard behaviour | what makes it correct |
|---|---|---|---|---|---|
| agent runtime (`modules/agent`, `src/agent/main.cpp`) | `running_`, listening socket, accept thread, scanner thread | start, stop, accept, handle_client, run_script, scan | controllers over TCP, local store | one connection at a time, blocking recv, shutdown against both threads | lock-step conversation, no SIGPIPE, stop() returns and leaves nothing running |
| bot spawn, doctor bot, transports (`modules/bot`) | host config, `bot_runs`, `bot_reports`, `bot_hosts` | probe, execute by agent, SSH fallback, record, retry after setup | agent, ssh, Nexus | answers that come after the timeout, unnoticed database failures | a run is recorded as what it was and ends |
| Docker monitor client (`docker_monitor/client.cpp`) | `servers.agent_status`, container, image and compose rows | scan_server, register_agent | agent, Nexus | agent that dies between handshake and answer | "online" means answered |
| Docker orchestrator (`orchestrator.cpp`, `compose_parser.cpp`) | stacks, dependencies, rules | start/stop order, stack operations | Nexus, agent scripts | dependency cycles, operations that fail half-way | a service starts after what it needs |
| workspace time machine (`modules/workspace`) | snapshot, file, tag and restore rows; copies under `.nazg/workspace/snapshots/<id>` | snapshot, tag, restore, prune, diff, history | Nexus, the project's files, brain | no locks, no transactions, crashes, files that change | restores bring back the right files, history is honest, prune keeps what it says |
| Nexus (`modules/nexus`) | SQLite file, schema version, encryption salt | open, migrate, reset, a method per statement | everyone | several processes, no busy timeout, half-applied migrations | one schema, one salt, rows that refer to rows |
| brain (`modules/brain`) | failure patterns, recovery history | detect, plan, learn, match, recover | Nexus, workspace, task | recovery on top of a restore that fails | a recovery is recorded as what it did |
| engine updater (`engine/updater.cpp`) | versioned directories, active symlink | update, activate, prune, rollback | file system | crash between two file operations | there is always an active version that exists |
| engine runtime, directive, app | start-up order, command table | init, dispatch | everyone | database recovery at start-up | - |
| blackbox logger | current file, rotated files | log, rotate | everyone | threads and processes that rotate at once | no line is lost but by rotation |
| Docker agent cache (`agent/docker_scanner.cpp`, `local_store.cpp`) | cached rows with `last_seen`, `last_scan` | scan, record, clean up | docker, agent runtime | scan killed or refused half-way | the recorded scan is in the cache |
| git servers (`git/server_registry.cpp`, `cgit.cpp`, `gitea.cpp`) | `config.toml`, `git_servers`, what is on the machine | add, status, install, sync | Nexus, ssh, gitea's API | retried installs, read-modify-write, partial syncs | "unchanged", "complete" and "synced" are true |
| test runner (`modules/testsuite`) | `test_runs`, `test_results`, scenario directories | run, parse, store, print; merge-collision scenario | Nexus, git, test programs | rows of several terminals, uninitialised counters, network steps | results belong to their run, a pass shows a collision |
| TUI (`modules/tui`) | windows, panes, layout trees, shells | split, close, zoom, resize, switch, quit | pty children | UI, update and reaper threads | keys go to a visible pane, no shell is left behind |
| scaffold, config, prompt, system, task | files, terminal | wrappers, parsing | - | sequential | - |

## Modules

| module | models | extends |
|---|---|---|
| `AgentLink` | agent, bots, monitoring clients and the sockets between them | |
| `AgentLinkProofs` | proofs: types, lock-step, executions, shutdown, tokens, conversations, records of bots | `AgentLink` |
| `MCAgentLink` | model values for TLC | `AgentLink` |
| `Workspace` | snapshot, tag, restore and prune, as concurrent processes over database and disk | |
| `WorkspaceProofs` | proofs: concurrent prunes, types, storage, restore history, smart restores | `Workspace` |
| `MCWorkspace` | model values and option records for TLC | `Workspace` |
| `NexusStartup` | database start-up of several processes: open, migrate, salt, recovery, reset | instances `Schema` |
| `Schema` | abstract: what the migrator promises | |
| `Updater` | `nazg update`, `--rollback`: staged versions and one link | |
| `EngineProofs` | proofs: refinement of `Schema`, start-up, tokens; the nazg link | `NexusStartup`, `Updater` |
| `Logger` | log files written and rotated by several processes | |
| `LoggerProofs` | proofs about it | `Logger` |
| `DockerCache` | the agent's scan and its SQLite cache | |
| `DockerInventory` | servers and what the control center stores of them | |
| `DockerStacks` | stacks, compose files, dependency rows | |
| `StartOrder` | `calculate_start_order`, `topological_sort` | `Orders` |
| `DockerProofs` | proofs about the four above | `DockerCache` to `StartOrder`, `OrdersProofs` |
| `SmartBuild` | `nazg build`, `nazg why`: detect, hash, decide, run | |
| `FailureLearning` | failures, patterns, suggestions, recoveries | |
| `GitServers` | server registry, cgit and gitea installation and sync | |
| `TestRuns` | running, parsing and storing tests | |
| `MergeScenario` | the merge-collision scenario | |
| `Bots` | bot hosts, run history, setup and manage | |
| `CommandsProofs` | proofs about the six above | `SmartBuild` to `Bots` |
| `Panes` | the TUI's windows, panes, layout and threads | `Orders` |
| `PanesProofs` | proofs about it | `Panes`, `OrdersProofs` |
| `Orders` | a set listed in an order, as iterating a `std::map` or walking a tree does | |
| `OrdersProofs` | lemmas about it: such a list has every element once, earlier ones first | `Orders` |
| `MCTables` | values for TLC; one part at a time | `Updater`, `Logger`, `NexusStartup` and the four on Docker |
| `MCCommands` | values for TLC; one part at a time | `SmartBuild` and the six after it |

### AgentLink

The agent has three threads. `mainPc` is main and `Runtime::stop`, `agentPc` with
`cur` the accept thread inside `accept_loop` and `handle_client`, `scanPc` the scanner.
A connection is a pair of a controller and its purpose: a bot opens one for
`AgentTransport::hello` (`Probe`) and another for `execute_script` (`ExecConnect`), a
monitoring client one per request (`MonitorConnect`). For each connection the model
keeps both ends, the unread messages of each direction, and `lostSends`: what the
agent sent that nobody can receive any more. A first such message provokes a
reset, a second one SIGPIPE, because `send_packet` passes no `MSG_NOSIGNAL`.

Socket timeouts (`ProbeFails`, `ExecFails`, `MonitorTimeout`) may fire at any moment,
also when the answer is on its way. `taken` is history: the bot took the agent's result.
The agent may be told to stop (`Shutdown`,
`JoinAccept`, `JoinScanner`), killed and started again; a controller may be killed,
which closes its sockets, or may vanish with its host. Where `DbMayFail` holds, each
statement of a controller may fail, and the code goes on as it does: `run` is 0
when `begin_bot_run` returned -1.

Abstracted: payloads are message types; script results are a report, an error or
SSH's "Permission denied", which the doctor script itself never prints; the content of a Docker scan and the rows that
`parse_and_store_scan` writes are left out. `listen()` and the kernel's queue, resets and
losses are marked external. Docker monitoring is on, as in `Options`, but the
answer to a scan request may be the error of an agent without it.

### Workspace

Each `nazg workspace` command is a process `p` with its own memory (`opt`, `sid`, `scan`,
`listed`, `todo`, `got`, `failed`, `rec`, `victims`) and program counter. Nothing takes a
lock or a transaction, so every statement and file operation is a step. On
disk: `work` (the project), `dirs` and `stored` (the copies). In the database: `snaps`,
`rows`, `tags`, `restores`, `count`, `stamp`, and `inserted` for AUTOINCREMENT. `owner` and `madeFor`
are history: for which insertion an id and a copy were made.

* snapshot: `StartSnapshot`, `ScanFile`*, `AddSnapshot`, `AddFileRow`*, `MakeStorage`, `CopyFile`*,
  `TagSnapshot`;
* restore: `StartRestore`, `ReadFiles`, for smart restores `StartDiff` and `ScanFile`*, then
  `BeginRestore`, `RestoreFile`*, `FinishRestore`, `CountRestore`;
* prune: `StartPrune` (the list), `PruneTags` (the tags), `PruneDelete`*, `FinishPrune`.

A scan may be cut short (`ScanAborted`: `scan_workspace` returns what it has on a
`filesystem_error`), a statement may fail, a copy may fail or be torn, a process
may be killed anywhere, and files are edited by others. Content stands for hash;
paths are model values, and the options of restore are the sets of files that their
prefixes match. `history`, `show` and `diff` read only and are left out; `untag` and the
`tag` command do nothing in the code. The model has one project.

### NexusStartup and Schema

`db[p]` is a process inside `Store::create` and `Store::initialize`. SQLite gives one
writer the lock and, since no busy timeout is set, refuses the others at once. A process
finds one of `Directories` (`load_migrations`): all files, none, or a part, since an
unreadable file is skipped and an update may be copying them; the latest version is the
largest it found. `files` is what it found, `todo` what it has still to run.
Migrations differ as the files do: some are one transaction, some (`AutoCommit`) commit each
statement, some (`Alter`) cannot be run twice. A process works with the version it
read, which may be old. Kills, a corrupt file with the automatic recovery of
`init_nexus`, and `nazg db reset` may come in between; while a reset runs nobody else
is assumed to migrate. `salt` is the stored salt, `token` the salt a stored token was
encrypted with. `Schema` is the promise: a version is recorded with or after
its tables and only above versions that are recorded too, except for `gaps`, which were
missing below another file where some process migrated; the schema is dropped only as a
whole. `MigratesInOrder` is `Schema`'s specification. `gaps` is history.

### Updater, Logger

`Updater`: `dirs` under the prefix, `link`, and the command with its place among the file
operations: remove the old directory, mkdir, copy, symlink, prune. `hurt` remembers versions
whose staging was cut short or that `prune_old` removed. `activate` asks `fs::exists`,
which follows the link: it does not see a dangling one, and `create_symlink` then fails.

`Logger`: names refer to inodes, as in the file system; a process keeps writing to the inode
it opened after another has renamed it. Rotation is one rename per step. Lines carry
their writer and number, `alone` whether any two processes have logged at once.

### DockerCache, DockerInventory, DockerStacks, StartOrder

The agent lists one kind of object after another while docker changes, writes a row per
object (each may be refused), then records the scan and cleans up by `last_seen`. On the
control center a client reads a server's id, talks to the machine, then writes rows;
servers are added, edited and deleted meanwhile, and AUTOINCREMENT ids are never used
again. Stacks: `stack create` inserts stack, files, entries and dependencies one
statement after another, with the foreign keys of migration 011. A compose file is what
the parser takes from it: services, `depends_on` with and without conditions,
`network_mode`, shared networks and volumes. `files` is the sequence of rows ever
inserted, of which a deleted one becomes `Absent`, so a position is an id; `given` is history:
the command's arguments. `StartOrder` runs Kahn's loop a turn a
step over every choice of dependency rows among three services. No command in the
repository calls the server functions of the store yet; they are modelled as an API.

### SmartBuild, FailureLearning

`nazg build` ensures the project row, detects, hashes, compares with the newest snapshot
(of the newest second: any), stores, decides and runs; `why` stops before. A plan may be
to skip, to build, to test, or `UNKNOWN`, for which nothing runs. `ran` and `cutShort` are
history: hashes whose command ran something, or had to and was killed first.

`FailureLearning` keeps failures, patterns and recovery actions; similarity is computed
as in the code, on words instead of characters. Stored actions of every type may name any
snapshot: their ids are JSON text without a foreign key. `suggest_recovery` is
three steps, the failure's row, the stored actions, and what it makes up from failures
alike, with prunes between them; `gone` is history: snapshots deleted since it began. Who records failures,
stores actions and starts recoveries is left open: the functions have no callers outside
the module.

### GitServers

`toml` is the configuration, which a process reads once, `gitRows` the table, `box` what
each machine has. A command is a program counter with the settings it started from.
Installation phases leave marks on the machine, fail with part of their marks, and are
retried by a later command; `mkdir && mkdir && chown` of gitea's directories stops after
any of the three, and `mv` of app.ini needs the configuration directory only. `remote` is
the remote `gitea` of each local repository, which processes share: a sync adds it, sets
its URL and pushes in three steps, and does not look at the result of the second. `astray` is history:
repositories whose remote named another machine when they were pushed. Observations the model carries: the token cut out of gitea's
answer is garbled, `deploy_ssh_key` never deploys because `mkstemp` refuses its template,
a sync never records a migration, and a talkative `which` counts as an installed cgit.

### TestRuns, MergeScenario, Bots

`TestRuns`: the counters of a `TestRun` are not initialised in the code; `Leftovers` are the
values they may start from. A crashed test yields no case, and the exit code of the
runner is not looked at. `shown[t]` are the ids of the result rows that terminal `t` printed
last. `MergeScenario`: each shell step has an expected outcome; over the
network one may fail after it took effect. `Bots`: spawn looks up or adds the host, begins a
run, executes, finishes, reports and updates the host, all as single statements, each of
which may be refused unnoticed; `born` tells which insertion of a host a run was for,
`earned` what bots came to. A git-doctor run of a host that is also a git server (`Watched`) writes health rows;
the run sets it to none. AgentLink has the transports.

### Panes

A layout tree is a function from paths to nodes. Each command of the UI thread holds a
mutex for its whole length and is one action; the update thread works through bare
pointers it took before (a destroyed window is a crash), the reaper destroys closed
panes, and a pane's shell is ended by whoever drops the last reference. `remove_pane` is
modelled as the code behaves, including the subtree that `promote_ptr.reset()` destroys.
`Drawn` follows `render_node`: a split that lacks a child is drawn as filler, so what is left
below it is not on the screen.

### MCTables, MCCommands

The parts they extend share no variable: each has tables, files or machines of its own,
and what one gives another (a snapshot id, a server row, a token) is chosen freely by
the part that receives it. `focus` names the part a behaviour follows; the others stay in
an initial state. A product of their state spaces would show nothing more.

## Runs

| run | shows | size |
|---|---|---|
| `agent_link` | `TypeOK`; `OneOutstanding`: the conversation is lock-step whatever times out, so the agent is never killed by SIGPIPE; `ReportsAreReal`: reports and verdicts belong to the attempt that earned them, whichever writes fail; `AgentResultMeansOneRun`: one execution per transport at most, and exactly one where the agent's answer was taken; `OnlineMeansAnswered` | 1.2 M states |
| `agent_link_progress` | with a controller that may be killed: `StoppedMeansQuiet`, and under fairness `ShutdownCompletes` and `RunsFinish` | 73 k |
| `agent_link_auth` | `TokenGuardsScripts`: with a token configured, nothing runs for the controllers of this repository, which never send one | 316 k |
| `agent_link_vanish` | violation: shutdown hangs on a vanished controller | |
| `workspace` | `HistoryHonest`, `SmartSparesSeenSources` over all restore modes | 170 k |
| `workspace_storage` | `TypeOK`, `NoStaleStorage`, `HistoryHonest` with pruning and crashes | 729 k |
| `workspace_prune` | `KeepsEnough`: concurrent prunes with stale lists | 202 k |
| `workspace_smart` | violation: smart restore overwrites an existing source | |
| `tables` | the properties of the table below, from `Updater` to `StartOrder` | 1.05 M |
| `commands` | the properties of the table below, from `SmartBuild` to `Panes` | 1.5 M |
| `start_order` | violation: services are listed before what they need | |
| `close_pane` | violation: closing a pane loses others from the layout | |

Properties of `tables` and `commands`:

| module | property | says |
|---|---|---|
| `Updater` | `DanglesOnlyWhenHurt` | the nazg link leads nowhere only while its version is staged anew, or after that was cut short or pruned |
| `Logger` | `LinesInOrder` | a process's lines read in order, however rotations interleave |
| | `RotationKeeps` | without concurrency rotation loses only the oldest lines, once every name is in use |
| `NexusStartup` | `MigratesInOrder` | the start-up implements `Schema`: versions in order, with their tables, but for files that were missing |
| | `UpMeansMigrated` | a process that came up has the tables of every migration it found, but gaps others left and resets |
| | `TokenReadable` | a stored token can be decrypted, unless a process went on with a salt of its own, which the code lets happen |
| `DockerCache` | `CacheHoldsScan` | the last recorded scan is in the cache |
| `DockerInventory` | `RowsAreTheServersOwn` | rows under a server were listed by a machine that row named |
| `DockerStacks` | `NoOrphans`, `FilesAsGiven` | nothing outlives its owner; files are shown in the order given |
| `StartOrder` | `SortIsTopological` | every service and need once, on a consistent side, but what a cycle blocks |
| `SmartBuild` | `SkipIsGrounded` | a tree is skipped only if a command ran something for it, still has to, or was killed before it could, or if there is nothing to run |
| `FailureLearning` | `PatternsAreEarned`, `SuggestionsWereLive` | patterns stand for three real failures; a restore made up from failures names a snapshot that was there when the suggestion began |
| `GitServers` | `UnchangedMeansSame`, `CompleteMeansDeployed`, `SyncedMeansArrived` | what status, install and sync tell the user is true, but for what an ignored or shared step lets through |
| `TestRuns` | `ResultsAreOfTheirRun` | stored and shown results are cases of the run they name |
| `MergeScenario` | `PassMeansCollision` | a pass has shown the refused push and, run locally, the conflict |
| `Bots` | `HistoryGoesWithHost`, `StatusIsEarned` | runs and reports belong to an existing host; a status is what a bot came to that was meant for this host |
| `Panes` | `NoShellLeftBehind`, `KeysGoWhereShown` | shells of dropped panes are waited for; the active pane is a leaf of the layout, and drawn until closing a pane costs the window another |

Each property of a passing run has a mutant in `PROJECT.json`: the model with one
definition changed as a plausible bug would, in which TLC finds the property violated.

### Bounds

*AgentLink*: one bot and one monitor are two kinds of controller with three connections,
enough for one to wait, time out and be reset while the other is served. A queue
of one connection makes it full; two starts let a controller that outlives an
agent meet the next. Controllers are killed in `agent_link_progress` and `agent_link_auth`:
with restarts and failing statements as well, `agent_link` would take TLC too long. The theorems below need none of these
bounds.

*Workspace*: two processes are enough for each pair of commands to interleave. `workspace`
has a source and another file, one snapshot and one edit, for the content of
restores; `workspace_storage` one file, two snapshots and four commands, so that one
snapshot is deleted and its id could be used again; `workspace_prune` three snapshots
without files, two ticks' worth of timestamps and five commands, so that two prunes
with different options overlap. Symmetry is over processes and contents: the
properties checked with it are safety properties, and nothing tells the permuted
values apart. Deadlock is not checked for Workspace, where everything may be done.

*MCTables*, *MCCommands*: two processes (`p`, `q`) in every part where processes meet through a table
or a file, one where the environment already interferes (servers and stacks are
deleted by anyone). Otherwise the smallest numbers with which the case of each property
happens: three versions, one of them without the `v`, and four updates (stage, activate,
prune, roll back); two rotated names, one line per file and four lines, so that a name is
lost; four migrations, one of each sort and one more, five directories (none, the
first two, all, and two with a gap), four starts and two mishaps, so that two first starts overlap, fail and are repeated
with other files; three seconds, so that a scan follows
one that was cleaned up; two stacks; two ids of servers and of hosts, so that one could be
used again; three services, which have every shape of cycle and chain; three builds;
three failures, the number a pattern needs, and two recoveries, so that a recorded success
makes an automatic one possible; one machine for cgit, gitea and a type nazg does not
know, which goes down and comes up again (`Unsteady`), so that a leftover of one
installation meets another, and a second one for gitea, so that a shared remote is turned
away; two runs of two tests; three
bot commands (spawn, delete, spawn again); three panes, the least with a nested split.
Symmetry is over `p` and `q`; all temporal properties of the runs are safety properties.
Deadlock is not checked: every part may have nothing left to do.

### Fairness

`FairSpec` is used for liveness only: weak fairness of the accept thread, the
scanner, the two joins, and of each controller. Threads are scheduled; scripts
end (a script that does not end blocks the agent, as in the code, which has no
limit for it); every recv of a controller has a timeout, so a waiting controller
can always go on. Signals, kills, restarts and losses are not promised.

## Findings

1. `agent_link_vanish`: `Runtime::stop` closes the listening socket and joins the accept
   thread, which may be in `recv()` on an accepted connection with neither timeout nor
   keepalive. If the controller's host has vanished with nothing unacknowledged,
   the "graceful shutdown" of `src/agent/main.cpp:43` never ends.
2. `workspace_smart`: "restore only if they no longer exist locally"
   (`manager.cpp:781`) is decided by an earlier scan, which a `filesystem_error` cuts
   short without an error: an existing source file is overwritten.
3. `start_order`: "Start order (dependencies first)" (`docs/docker-orchestration-design.md:316`),
   but the edges given to `topological_sort` lead from a service to what it needs, and
   the sort lists a node before its successors.
4. `close_pane`: "in one shot to preserve children" (`layout.cpp:109`), but `promote_ptr` is
   a reference into the node that was just overwritten, and its `reset()` destroys a child
   of the promoted subtree: panes the window still owns are no longer drawn or reachable.

Seen while modelling, without a run of their own: snapshots are listed by seconds alone, so
that of two made in one second `prune --keep` deletes the newer; a reset or corrupt database restarts
snapshot ids while the copies stay; `INSERT OR IGNORE` of the salt may lose to another
first start; `prune_old` may remove the active version; a build that failed is skipped
the next time, since the tree is unchanged; a test that crashed is neither failed nor an
error; `bot setup` reports an update of a known host that it does not make; `bot manage`
writes back fields it read earlier; the update thread may touch a closed window.
A migration that is missing or unreadable while a later one is applied is hidden by
MAX(version) from every later start, and without a directory of migrations a store comes
up with no schema at all. After a kill between snapshot and build the next build skips a
tree that nobody built; a tree edited between hash and build is recorded as the old one.
A gitea installation whose chown failed completes when retried, with data
directories of the wrong owner. Two syncs that share a local repository may push it to
each other's server, and both say "Synced". A status of a host need not be that of any
listed run, since each statement about a run may be refused. After closing a pane has cost
a window another, the pane that keys go to may be one that is not drawn.

## Proofs

`PROJECT.json` lists the theorems and the properties they state. Each is proved for every value
of the constants that satisfies the ASSUME of its module: any number of processes, bots,
servers, files, versions or messages, and any bound. The assumptions are on data only: bounds are numbers,
"none" values are not among the things they stand apart from, lists of arguments are
sequences. Three say more: `SmartBuildAssumption` that there is some content a tree can have;
`GitServersAssumption` that a section of the configuration is a record of a type, a
host and a token that is empty, right, or garbled on its way out of gitea's answer;
`DockerStacksAssumption` that compose files are given by paths on the disk.

Each proof has an inductive invariant, checked by TLC on the module's run before it
was proved, and one step per action. Why the property alone is not inductive:

**AgentLinkProofs.** `OneOutstanding` says that at most one thing is under way on a connection.
An answer adds a message, and only where the controller stands tells that the previous
one is gone. `ConnInv` adds that the agent serves and queues only connections that some
controller opened (`Serving`, `Queued`), that one never opened carries nothing
(`Untouched`), and that one whose step its controller has yet to take is unopened (`Fresh`).
Each socket operation has a lemma saying that it keeps the sum of `OneOutstanding`
at most one. That the agent never sends twice into a closed connection, and so is not killed by
SIGPIPE, is part of it.

The rest of the module builds on `TypeCorrect` and `LockStep`.
`StopJoinsEverything`: `JoinedInOrder`, the accept thread is out before the scanner is waited for, and holds
a connection only while it handles one. `TokenGuardsEveryScript`: with a token the accept
thread never gets past the greeting. `TalkIsHonest`: since at most one message
is under way, `TalkInv` can say which one it may be at each step of each controller; an ungreeted
connection still holds its `Hello`, so nobody who waits for an answer has one that was
for something else. `OnlineIsAnswered` follows. `AgentRunsOnce` adds `RunsOnce`: a bot that took
the agent's answer, or whose script ran over SSH, is past the choice of transport, and only a denied
run, which ran nowhere, comes back to it. `BooksAreKept`: while a
bot is at an attempt none of its rows is "ok", and the row of the attempt is the
last one, although `begin_bot_run` may have failed; reports are of bots that are through.

**WorkspaceProofs.** `ConcurrentPrunesKeepEnough` is an action property. The invariant `PruneInv` says
that each victim of a prune that is still in the database has, listed before it and
still there, at least as many snapshots as some prune's `--keep`; a list made stale by
others says nothing of what is left. Deleting x takes only x from those listed before a
later victim y, and all that is before x is before y too: y keeps at least x's own floor.

The other commands. `TypeOK` bounds ids and counters, so `Budget` ties what commands may still
add to them to the number of commands started. `StorageInv`: every copy is in the
directory of an insertion and was made for it; prune leaves directories behind, and only that
ids are not used again keeps them from being taken for others. `RestoreInv`: while a
command has met no error, what it has copied and what it has still to copy are what its
row says it wants, and rows have ids of their own. `SmartInv`: what a smart restore
has still to copy holds no source file that its scan saw.

**EngineProofs.** Start-up: `ConcurrentMigrationsRefine` is a refinement: every step of the start-up is
a step of `Schema` or leaves its variables alone. `Rows`: recorded versions have their tables, and
below each one all are recorded or gaps. `Climbing`: whatever lies below a migration that a process has still to
run is still to run, recorded or a gap, from however old a reading and whatever directory it
came. `Complete`: who is past the migrations has its own.
`UpStoresAreMigrated` and `TokensStayReadable` come from the same invariant.
Updater: `EmptyWhenHurt` (a directory without a binary is being staged, or was cut
short) and `AboutToActivate` (what is about to be linked has its binary, unless it is hurt).

**LoggerProofs.** `LoggerInv` says how the inodes lie behind the names: the smaller the number in a
name, the younger the file; younger files hold later lines of a process; and a process writes
to a file at least as young as any that holds lines of its own, so that a file renamed by
another process under it stays in its place. The parts are predicates over contents, names,
streams and counts, because one action flushes and then opens. `LinesStayInOrder`
needs no more. `RotationLosesOldest` adds `RotationInv`, for one process at work: names in use have
no gap but the one the rename loop has just made, the process writes to the name without number,
and what a day still holds is a suffix of what was written; a name is overwritten only when it is
the last, all others are in use, and its file is older than every other (`OverwrittenIsOldest`).

**DockerProofs.** Inventory: a host that a process has read was named by the row it read it
from, also after the row was edited or deleted, and an id not given out yet has no history
(`ReadersNamed`, `IdsAhead`); `AddedServersAreClean`, an action property, rests on the latter. Cache: rows of
the running scan are as new as the scan, which is no older than the recorded one.
Stacks: no two commands fill the same stack, and a stack being filled has no entry at or beyond
the position its command has come to (`CreatorsPlaced`, `FilledSoFar`), so that
`StackEntriesFollowArguments`: an entry has the position of its argument, and no two the same one.
`get_stack` is the set of lists that sorting by `execution_order` may give; with distinct positions
the position of what is shown grows along any of them (`StacksShowFilesAsGiven`).

Start order: `OrderInv` says that a node's degree counts those that need it and are not listed yet
(`DegreesCount`), that a node of degree 0 is in the result or in the queue, once
(`ListedOnce`), and that whoever needs a node is listed before it (`NeedingFirst`).
That the sort leaves out just what it must then takes no induction. `Leads` says of a path that its end is
in every set closed under what services need, so a listed node is put outside such a set:
the unlisted nodes, or those and all that is listed after it (`ListedIsNotBlocked`). Conversely an
unlisted node has an unlisted one that needs it, as its degree is not 0; of those that lead to it
one with the fewest behind it has one with still fewer, unless one of them leads to itself
(`UnlistedIsBlocked`). That a set of numbers has a least one is proved from well-foundedness
(`LeastOf`, `LeastExists`), as induction is out of the prover's reach.

**CommandsProofs.** One section and invariant per module:

* `BuildInv`: every stored snapshot is grounded: a command ran something for its tree, has still to, or
  was killed first, or nothing can be run for such a project; a command that skips has seen such a row, and one whose plan is
  `UNKNOWN` grounds nothing.
* `TestsInv`: a command stores under a run of its own, the cases in order, none twice.
* `MergeInv`: what the steps so far have left in the two clones and the bare repository, whether or not
  a failed one took effect; of the conflict it speaks in local mode only.
* `BotsInv`: the host a command looked up is the same insertion or gone for good; while it is there,
  so is the command's run, if its insert was not refused, and no other command has it; what a command is about to write it has come to (`earned`).
* `GitInv`: each phase of an installation found the marks of those before it (`Climbed`), rows are
  hashed as what they say, and a sync that is fine so far has brought what it is done with
  (`Arrived`): there, or, if it went astray, on some machine's gitea. `RemoteKnown`: who is about to push, and is not
  astray, has the remote at its own machine; only another sync's set-url turns it, which marks those it meets as astray. No step takes a mark or a pushed repository away (`Grown`), so what
  one administrator knows survives the others.
* `LearningInv`: a pattern counts only failures that no process is still learning from
  (`Settled`); every process learns from a failure of its own and counts it once, at the end.
  That is why two processes with the same signature, and those that find it known too late, cannot
  count more than there are. `KeepsLive`: failures keep ids of existing snapshots only, so what `suggest_recovery` finds in its second and
  third reading is live, and its first reading is stale only by what is in `gone`.

**OrdersProofs.** In a finite set with a strict total order each rank has exactly one element (the ranks are an
injection into as many numbers, hence onto them), so `InOrder` lists every element once
(`InOrderLists`).

**PanesProofs.** Shells: every step that takes a reference to a pane away is a `Become`, which ends the shells of the
panes that lose their last one; the other steps only move references on, to the reaper's queue or
the update thread's copies. Keys: the active pane has to stay a leaf of the layout. `AllFine` says that a
layout is a tree (`Shape`: no node below a leaf), its leaves have different panes, all owned by the window, the active one
among them, the zoomed one is the active one, and a tree that has all panes of the window is whole (no
split lacks a child), so that all its leaves are drawn. A split puts two leaves below one (`SplitGrows`); promoting
a sibling moves a subtree one step up, where each node has one it comes from, also
when a child of it is lost (`PromotedShrinks`); a restore numbers the leaves from left to right,
which is a strict total order (`LeftOrder`), so that each number has its leaf (`RestoreFills`).

## Only model-checked

* `ShutdownCompletes` and `RunsFinish`: liveness needs fairness and ENABLED, which the prover
  does not handle.
* `levenshtein_distance` in `FailureLearning` is a recursive function: what it computes for every pair of
  words needs induction over data. Nothing proved depends on it.

Every other invariant and action property of a passing run is a theorem.

## Plan

The modules of the plan are written, and every safety property of a passing run is proved. What is
left is to say more:

1. An abstract specification of the time machine (a restore gives back the content of a
   snapshot, or of its part) that `Workspace` implements while nothing fails.
2. An abstract conversation (ask, then answer or give up) for `AgentLink` to implement, of which
   `OneOutstanding` and `AgentResultMeansOneRun` are consequences.
3. That the loop of `StartOrder` ends (`SortIsTopological` is about the states in which it has), as a variant
   that each turn lowers.

## Not modelled

Byte layouts and parsing (protocol header, JSON, compose YAML, configuration), ciphers,
terminal rendering, keys, modes and menus, prompts, scaffolding templates, and the
wrappers around git, curl and package managers: they keep no state that several steps
share, or it lives in programs outside this repository. Of the modelled parts: the
ad-hoc `--host` path of bots, gitea's user, organisation and webhook calls, mirrors and SSH
keys, events and command history (written and listed only), and docker commands that a
restart runs on the remote host. `PROJECT.json` lists each part with its reason.
