# Formal models of the codehome server

codehome (`src/src/codehome`) is a plugin runtime for development tools: a server
that starts and stops the services of a developer's branches, runs plans of agent
tasks and keeps agents, Conductors and terminals, and a command line that starts the
server and manages plugins. The server is one asyncio process with threads: handlers
and background tasks interleave at every `await`, external commands fail or hang, and
processes are killed and started again while containers and files live on. These
modules model the parts where that matters. All paths below are under
`src/src/codehome/`.

## The system and its parts

| Part | State | Operations | What is hard | What makes it correct |
|---|---|---|---|---|
| Service registry (`serve/services.py`) | key -> instance; each instance has a state and a lock | register, unregister, can_start, transition | an instance outlives its registration; a key gets a second instance | transitions follow the table, under the lock only |
| Service lifecycle (`serve/service_lifecycle.py`, `env.py`) | the instance, the allocation, the host's containers | start, stop, forced stop, reinstall-deps, cleanup, setup | every command may fail, raise or time out half way; Supabase before the services that need it | no change of state without a task; a running service is backed by container and allocation |
| HTTP handlers (`serve/routers/services.py`) | background tasks queued on locks | start, stop, restart, reinstall-deps, retry-migrations, register, cleanup, DELETE | check, then queue, then check again | one operation per service at a time; accepted requests end |
| Recovery (`serve/discovery.py`) | port file, containers | discover_running | the crash may be anywhere | the registry is rebuilt to what runs |
| Port allocator (`serve/ports.py`, `file_lock.py`) | maps in memory and a JSON file | allocate, release, slots | a torn write; ports of the system against preferred ones | nothing allocated twice |
| Supabase configuration (`serve/supabase.py`) | `supabase/config.toml` | patch | regular expressions over sections | the ports of the slot change and nothing else |
| Plan executor (`serve/plan_executor.py`, `plan_schema.py`, `conductor_ops.py`) | the plan file, the executor's own object, gate events | execute, pause, resume, delete, answer | two copies of a plan that overwrite each other; cancel at any await | node order, outcomes that stay, executors that end |
| Agent sessions (`serve/agent_dispatch.py`, `agent_sessions.py`, `agent_ops.py`, `questions.py`) | sessions and questions (memory and files), processes | dispatch, cancel, hook, answer | cancel against timeout against exit; adoption of pending sessions | an ended session stays as it ended |
| Conductor (`serve/conductor.py`, `conductor_ops.py`) | branch -> session and process, level of autonomy | start, stop, set level | awaits between table and process | every process can be stopped, and was told the level set for its branch |
| Operation stream (`serve/operations.py`, `operation_progress.py`, `events.py`) | ring buffer per operation, queues of clients | emit, record, catch up, follow | broadcast before record, catch up before subscribe, two bounded buffers | nothing twice, nothing missed unexplained, the stream closes |
| Event bus (`bus/`) | subscriptions, the audit log | subscribe, fire | handlers in the loop and in threads, some of which raise | every handler gets the event |
| Plugins (`plugins/`, `state/service_registry.py`, `commands/plugins_cmd.py`) | directories, `plugins-state.json`, the registry of a server, deferred services | enable, disable, rescan, install, update, load, resolve | processes over one file without a lock; dependencies, cycles, broken plugins; threads that resolve at once | toggles kept, dependency order, one import |
| Plugin commands (`plugins/manifest.py`, `templates.py`, `cli_builder.py`, `cli.py`) | none | parse, expand, build parsers | names wanted twice, parsers built half way | a command is its plugin's |
| Server control (`commands/server_cmd.py`) | the port file, the listening socket | start, stop, restart | the file is a name others remove | the file names the server; a stop stops |
| JSON stores (`serve/preferences.py`, `credentials.py`, `serve/github_tokens.py`, `state/`) | a file each, in two places | set, delete | threads, processes and deaths between read and write | no update lost, no half file read |
| Check runner (`checks/`) | registry, results, processes | register, run_group | waves, timeouts, cancel, skipping | order, verdict, no process left |
| Terminals (`pty.py`) | shells, readers, connections, scrollback | create, connect, share, destroy | reads blocked in threads, connections that come and go during a broadcast | a shared view without a gap |
| Log aggregator (`serve/monitoring/`) | threads per container, a queue, rings | manage, read, drain | threads that die and are replaced | lines kept in order |
| Notifications (`serve/push.py`, `notifications.py`) | subscriptions in memory and a file, preferences | subscribe, deliver, clean up | threads over shared lists without a lock | each device once; a subscription is not lost |
| Test runs (`serve/test_runner.py`) | processes by run | run, stop | a process that exits with output in the pipe; a stop that blocks the loop | the last event comes last |
| Server life (`serve/server.py`, `background.py`, `vite_dev.py`) | everything above | start, shutdown | parts that raise while they are stopped | nothing is left running |
| Authentication, MCP tools, dashboard primitives, middleware | see `PROJECT.json` | | encoding, plumbing, presentation | |

How they interact: handlers call the lifecycle, the lifecycle the allocator and
the command wrappers, and everybody fires events on the bus, which the forwarder
puts into the queues of clients and, for some, into notifications. Services of a
branch see each other only through the registry (`depends_on`, the Supabase
environment) and the slots of the allocator. Plan endpoints and executors meet in
the plan file; an executor's task node dispatches an agent session. Recovery reads
the port file that the allocator writes. The server and the command line meet in
the port file of the server, in the plugin state file and in the state stores.

## Modules

| Module | What it is |
|---|---|
| `SerializedService` | abstract: what `services.py` promises of one instance - the table, and that only the holder of the lock moves the state |
| `ServiceLifecycle` | the services of a server: handlers, background tasks, lifecycle, recovery |
| `ServiceLifecycleProofs` | its inductive invariant, the theorems that follow, and that it implements `SerializedService`, instance by instance |
| `PlanExecutor` | plans, their executors and the endpoints that change the same files |
| `PlanExecutorProofs` | its inductive invariant and the theorems that follow |
| `AgentSessions` | agent sessions, the calls that run them, their processes and questions |
| `Conductors` | the Conductor processes of one branch |
| `AgentsProofs` | the inductive invariants of these two and the theorems that follow |
| `OperationStream` | one operation and the clients that follow it |
| `OperationStreamProofs` | its inductive invariant and the theorems that follow |
| `Plugins` | plugin commands and the server over one state file; deferred services |
| `PluginOrder` | the order of loading, turn by turn of the search (used by `Plugins`) |
| `PluginsProofs` | the inductive invariant of `Plugins`, what the search for an order keeps, and the theorems that follow |
| `PluginCommands` | from manifests to the commands of the parser: functions without state |
| `ServerControl` | start, stop and restart of the server of one port |
| `PortAllocator` | ports and slots, in memory and in the file |
| `Stores` | the JSON stores, in one server with `PortAllocator` (extends it) |
| `StoresProofs` | its inductive invariant and the theorems that follow |
| `ConfigPatch` | the rewriting of `config.toml`: functions without state |
| `CheckRunner` | one group of checks, their waves and processes |
| `Terminals`, `LogStreams` | the terminals; the log aggregator |
| `Lifespan` | the life of the server, composed of these two (extends them) |
| `ServerProofs` | the inductive invariants of `ServerControl` and of `Lifespan` with its parts and the theorems that follow |
| `EventBus`, `Push` | the bus; subscriptions and deliveries |
| `TestRuns` | test runs, composed of these two (extends them) |
| `WorkProofs` | the inductive invariants of checks, test runs and notifications and the theorems that follow |
| `MC*` | values, symmetries and bounded inputs of the runs |

A module that is composed leaves the steps it shares to the one that extends it:
`Lifespan` says when terminals and log streams may take input, `TestRuns` who fires
events on the bus and which of them become notifications, `Stores` what a crash of
the server does to the allocator.

### ServiceLifecycle

`reg`, `st`, `deps`, `lock` are `ServiceManager._services` and the fields of a
`ServiceInstance`; `held` is the allocator with its file (every change is saved at
once); `up` is the host; `forgotten` are the services whose allocation a truncated file
has lost. `pc[t]` is the await a background task is suspended at,
`op[t]` and `on[t]` what it does to which instance. An action is the code between
two awaits; awaits with no access to shared state in between (broadcasts, tracker
updates) share a label with their neighbour. The labels, in the order of the code:

    start        wait -> begin -> alloc -> launch (-> probe | undo) -> free
    stop         wait -> stopbegin -> halting (-> restore) -> free
    restart      ... restore -> recheck -> alloc -> ... -> free
    reinstall    wait -> stale -> rstop -> rrm -> rrel -> rvol -> alloc -> ... -> verify -> free
    cleanup      wait -> clean (-> cleanrestore), then gather -> volumes

A command ends in one of three ways: it succeeds, it returns an error (`"fail"`) or the
call raises (`"raise"`); `"crash"` is the death of the server, followed at once by
`discover_running`, and `"torn"` a death inside a save of the port file, at a step that
saves (`Saving`): the file is then empty for the new server. Which of them a run allows
is its constant `Faults`; which requests clients issue is `Requests`. Registrations are
always possible. Objects come from a finite pool `Inst`: one that nothing refers to any
more stands for the next new object, so a key can be registered any number of times.

### PlanExecutor

`disk[p]` is the plan file, `mem[e]` the object executor `e` was started with.
Every `save_plan` writes the whole object, every endpoint loads, changes and saves
another one. `co[e][n]` is the await of the coroutine of node `n`. A gate answer
is kept as membership of the node in `out`; other outputs are not modelled. The
two-second and one-second polls of the main loop change nothing and are left out:
`Conclude` is simply not enabled while a node is running or waiting.

### AgentSessions

`status[s]` and `who[s]` are the fields of an `AgentSession` (`who` is role, user and
branch in one), sessions being numbered by `created_at`; `process` is
`AgentSessionManager._processes` and `pending[s]` counts the pending questions of a
session. Sessions and questions are written to their files at every change, in the
step that changes them, so memory and file are one. `at[d]` is the await a call `d`
of `dispatch_task_agent` is suspended at, `child[d]` the claude process it made:

    created -> spawn -> stream (-> term) -> report -> done

`created` is the task of the dispatch endpoint before its first turn; a plan node
has no such await, it makes the call itself. In its first turn a call looks for the
newest pending session of its role, user and branch, which need not be the one the
endpoint made for it. `mine[d]` is the session it took; before that turn it is the
session made with the call, which the call does not know: no step of the call reads
it there. The process acts on its own: it exits when it likes, SIGTERM or not, and
asks questions, through `ask_user` in one step and through the hook receiver in two,
with a broadcast in between. `Faults` are a configuration file that cannot be
written, an exception while the process is made or read, the cancel of the plan a
call belongs to and the end of the server.

### Conductors

One branch and one user; a start request makes at most one session, so the sessions bear
the names of the requests. `table` is `_conductors[branch]`, `proc[s]` the process of a
session, `monitor[s]` its `_monitor_task`, `told[s]` the level of autonomy it was told. A
request for a level saves it for the user and tells the Conductor of the branch only if
it names the branch (`Tell`); `due` is what the running Conductor is then to know: the
level last set for the branch, or the one in force when it started. The exit of a
process and the turn in which the loop notices it are two steps; the tasks that wait
for the exit wake in one turn, as they do since Python 3.12. `overlapped` remembers
that a request began while another was under way.

### OperationStream

`stage[e]` is how far `_emit` is with an event (fired, broadcast, recorded), `events`
the ring buffer, `queue[c]` the subscription of a client, `got[c]` what it was sent.
`since[c]` is the index the request asks for; it counts in the buffer as it is when it
is read. `gap`, `lost` and `skipped` record why a client may miss a message: the history
the property is about. Operations share nothing but the queues, so the others are messages `Other`.

### Plugins, PluginOrder, PluginCommands

`file` is `plugins-state.json` as the function of its toggles (a truncated file reads as
one without plugins, which is what `load_state` makes of it), `home` the plugins under
`~/.codehome/plugins`, `proc[c]` a command or a server. A step is a read or a write of the
disk; truncation and write are two. `index`, `deferred`, `registered` and `lost` are the
services of the plugins a server loaded, `thread[t]` the one a thread is importing.
Services may be of one module (`ModuleOf`): `entry[m]` is what `sys.modules` has of it,
named after the service it was made for, `begun` the services whose import has begun to
run the module, `failed` those whose import failed (a swap of `_sdk` by another thread
shows as a failure, too), and `raced` the modules of which two threads resolved services
at once. `wanted` is what users set last. `PluginOrder` is `_topological_sort` with its stack;
plugins are ranks of names, so `sorted(by_name)` is the order of numbers. A turn of either
of its loops is `Step`, and the search is the function of its turns, up to a number that
suffices (`Turns`, see `SearchIsOver` below).

`PluginCommands` has discovery by name, the expansion of templates, the construction of
parsers and the choice of handler; manifests are records and what is wrong with one is a
word. Its constants are what there may be on disk: the manifests, the commands and
arguments they declare, what template files define, the directories of a scan, the
plugins a discovery returns. Loops of the code (`Merge`, `PutAll`, `RegisterAll`) are
functions of the turns taken, `_expand` is the function of the stack and the template it
is called with, and whether a command raises (`Raises`) a function on the commands. What
`_expand` adds is a sequence of all it meets, put together at the end. A parser
has its arguments, its handler and the parsers of its subcommands; of deeper ones only
whether they raise is kept, which is what the parsers above them depend on.

### ServerControl

A `v server` process and the inode it makes bear the same name. `file` is the inode
`PORT_FILE` names, `content` the pid written in each, `holder` the process whose socket
listens. A server that listens may not answer the ping of a launch within its second, as
while its lifespan starts or its loop is blocked (`Responds`): it is then taken for no
server, and `unheard` remembers it. A stop (`stop[z]`) reads the pid, cleans up,
signals, waits, escalates and removes the file; a restart goes on as a launch (`then`).

### PortAllocator, Stores, ConfigPatch

`table` is the allocator in memory, `portFile` and `torn` the file, `saving` how far
`_save` is: the event loop does nothing else in between, but the server can die. `up[b]`
is the slot the stack of a branch listens with, which the allocator neither sets nor
clears: a slot may be released while its stack is up, after a forced stop or a start
whose command failed, and `stray` are the stacks to which that happened. `home[s]` and
`old[s]` are the two places of each file of `Stores`, `call[a]` the call an actor is in,
with the entries it has read (`data`); `from` is the path that `preferences.py` fixes at
import. `last` is what the last call on a key left. `ConfigPatch` has the file as a
sequence of lines and `Reaches` as the part of the regular expression between a header
and its key.

### CheckRunner

`entries`, `deps`, `advisory` are what was registered, `phase`, `begun` (the checks of
all waves that have been started) and `wave` (those of the last) how far `run_group` is,
`at[c]` and `proc[c]` the check and the process of its command, `held[c]` descendants
that keep its pipes open. A function returns any result, under its own name or one of
`Misname`.

### Terminals, LogStreams, Lifespan

A chunk or a line is its number. `reader[s]` is the reader task of a terminal with the
connections it has yet to send to, `stray[s]` the threads that cancelled readers have
left in a blocked read; the WebSocket handlers are a plugin's (external). `thread[c][g]`
is the `g`-th thread that follows container `c`; it begins with the lines of the second it
is started in (`second`). `Lifespan.at` follows `lifespan()` statement by statement; what
came before the shutdown still goes on while it runs.

### EventBus, Push, TestRuns

`firing[c]` is the event a caller fires and the handlers that have not ended. The lists
of subscriptions are objects in `heap`, since a delivery goes through the list it found
while others append to it or put a new one in its place; every statement of a clean-up
is a step. `LoopFree` is false while a stop of a test run waits or `subscribe` writes its
file: the loop is blocked, threads go on. `heard[r]` is what was put into the queue of a
client, with `Missed` for what the full queue refused: how full it is depends on all the
other events of the server and on the client, so it may be full at any broadcast. A push
may fail for another reason than a gone endpoint (`SendFails`). `kept` and `due` are the
history `Push`'s properties need; `due` leaves out the devices to which a push failed.

## What the runs check

| Run | Instance | Properties |
|---|---|---|
| `services_all` | stack and compose service, the latter with two objects, 2 tasks, start, forced stop, restart, reinstall, migrate, DELETE, cleanup; errors and exceptions | `HolderFindsItsState`, `Attended`, `SerializedSpec` |
| `services_registered` | stack, compose and compose-native service, 2 tasks, start, restart, reinstall, exceptions and server restarts, some inside a save of the port file; no DELETE or cleanup, no errors | `RunningIsBacked`, `RecoversAll`, `RequestsEnd` |
| `plans_all` | 1 plan of 6 nodes, 2 executors, every request, crashes | `DependenciesFirst`, `OutcomesStay`, `ExecutorsEnd` |
| `agents_all` | 2 calls of the same role, user and branch, 2 sessions, 1 hook request, every fault | `OneCallPerSession`, `StatusAgrees`, `OutcomeStays`, `SessionsEnd` |
| `stream_all` | 1 client, 3 phases, 1 line of output, 1 other message, buffer and queue of 2, a look every 2 messages | `OnceInOrder`, `MissedIsExplained`, `StreamsEnd` |
| `conductors_all` | 2 starts, 2 stops, 2 levels with or without the branch, exits and failed starts | `NoOrphans`, `AutonomyFollowed` |
| `plugins_all` | 3 plugins with 18 dependency graphs, 2 processes, 4 commands, 3 services in 2 modules, 2 threads, kills; bounded manifests and templates | `TogglesKept`, `LoadOrder`, `EachServiceOnce`, `CommandsApart`, `ArgumentsWin` |
| `server_all` | 2 launches, 2 stops or restarts, pings without an answer, crashes | `FoundUnlessRaced`, `StoppedIsDown`, `StopsEnd` |
| `stores_all` | 2 threads and 1 other process, 2 keys, 2 services, 2 branches and 2 slots, slots released under a stack that is up, deaths; files of up to 5 lines | `UpdatesKept`, `StateWhole`, `AllocationsApart`, `PatchIsExact` |
| `checks_all` | every group of up to 3 checks, with every dependency, unknown names too | `RunsAfterDependencies`, `VerdictIsEarned`, `NoCommandSurvives` |
| `lifespan_all` | 1 terminal with 2 connections, 1 container, 2 services, 2 background tasks, 1 branch, 5 inputs | `NothingLeft`, `SharedViewIsWhole`, `LogsInOrder` |
| `work_all` | 1 test run of at most 2 lines, 1 plugin handler, a client whose queue may be full, 2 devices of one user, 2 deliveries, pushes that fail, 5 inputs | `OutputIsComplete`, `EveryHandlerRuns`, `KeptUnlessRaced`, `EachDeviceOnce` |

Each property is stated beside the module's other definitions, with the lines it is
about. `CommandsApart`, `ArgumentsWin` and `PatchIsExact` are about functions; they are
invariants that a single initial state (`Once`) evaluates over the bounded inputs of
their MC module. `SerializedSpec` is the refinement: the abstract module, instantiated for
every instance, as a property. Each module also states a type invariant, which the
proofs use where there are some; the modules of the services, plans and agents state
more properties than the runs list (`UpIsRecorded`, `SingleFlight`,
`CompletedIsComplete`, `FailureBranchIsDead`, `PendingIsDue`, `CancelFindsProcess`,
`CompletedExited`, `ProcessesEnd`); some of those are proved, see below.

*Bounds.* Two tasks are what an interleaving on one lock needs. Two objects per key is
the case of a key that was registered again while a task still has the old object. One
slot makes the allocator's limit a reachable case. A queue of three tasks on one service
and server restarts next to DELETE and cleanup are left to the proofs, which hold for
any number of tasks and all faults. The plan has every node type, a node with two
dependencies and both kinds of condition; two executors are what the guard of
`start_plan` fails to exclude. Two calls for the same role, user and branch are what
adoption confuses; calls of different ones never look at the same session. One
pending question per session is the boundary a hook that comes too late is seen at. A
ring buffer and a queue of two overflow within one operation, and a look at the
registry every two messages makes both of its outcomes occur. Two starts, stops and
launches are the shortest overlap of each kind. Three plugins have chains, cycles,
missing dependencies and one that two others need. Two threads and one process are
the two kinds of exclusion of a store: a lock of the process and one of the file.
`MaxCalls` (6, a call on a file counts two) allows three calls on files or two and two on the
allocator. Three checks have every shape of three waves. Five inputs connect two
clients to a terminal and let one leave, or print more lines than a ring keeps; in
`work_all` (where the start or stop of a run and a change of preferences count twice) they
subscribe two devices and schedule two deliveries or lose one device, or start and
stop a run. Two services in one module and one in another are what the race of two imports and its
absence need.
`MaxLists` (4) and two deliveries let a clean-up replace a list twice.

*Restricted premises.* `services_registered` allows neither DELETE nor cleanup nor
commands that report an error, because the agreement of registry, file and host
really fails with them: an unregistered service goes on running, `compose up` may
leave containers behind an error, a forced stop ignores one. The model has these
steps (the other runs take them); what cannot be promised with them is not claimed.
`RecoversAll` and `UpIsRecorded` name what a death inside a save of the port file made the
server forget (`forgotten`): it goes on running and is not registered again. In the same
way:

- `Attended` names the two ways in which a service is left STOPPING without a task: an
  exception out of the docker commands of reinstall-deps (`service_lifecycle.py:290`) and
  one out of a `_stop_one` of a cleanup (`433`).
- `ExecutorsEnd` speaks of executors that found no node under way: a node that was
  running when its executor died stays `running` in the file, and a resumed executor
  then polls for ever. `OutcomesStay` and `FailureBranchIsDead` have the premise that the
  nodes a condition chooses between depend on it (`BranchesDepend`), which the
  strategist is not asked for and nothing checks.
- `NoOrphans` and `AutonomyFollowed` hold as long as no request begins while another is
  under way; two overlapping starts do leave a process the table does not know.
  `AutonomyFollowed` promises the level last set for the branch, or the user's level at the
  start of the Conductor: one that is set without naming the branch reaches a Conductor
  only when it starts (`conductor_ops.py:196`).
- `FoundUnlessRaced` and `TogglesKept` hold for commands given one after the other. A
  server that once let a ping go unanswered is left out of `FoundUnlessRaced`: the launch
  removes its port file though it runs (`serve/__init__.py:92`, `server_cmd.py:305`). The
  lock of `server_cmd.py:321` is not held from the probe to the bind, and the plugin
  state file has no lock; a command killed inside its write loses all toggles.
- `EachServiceOnce` names the race of threads that resolve services of one module at once:
  the module may run twice, or a service is looked up in a module another thread has not
  run to its end, and is lost (`service_registry.py:108`).
- `UpdatesKept` leaves out a file whose writer died between the truncation and the
  write, the preferences before their first write at home (they are read from the path
  found at import, `preferences.py:82`) and state files somebody writes with
  `StateStore.write`, which shares a temporary name without the lock. In the run
  the preferences are at home from the start (`HomeHas`); the theorem also covers the other
  stores when they are not.
- `AllocationsApart` leaves out, for the slot of a stack that is up, the stacks in `stray`:
  their slot was released while they were up (`service_lifecycle.py:625`, `777`), or a death
  inside a save of the port file forgot it. Such a slot may be given to another branch.
- `LoadOrder` does not promise that a dependency is loaded: a search that meets a skipped
  plugin skips the one on top of its stack only, and a disabled or broken plugin's
  dependents are loaded all the same.
- `RunsAfterDependencies` and `VerdictIsEarned` speak of results that bear the name of
  their check; results are stored under the name a function returns.
- `CommandsApart` says of a discovery with a manifest that raises something else than the
  ValueError that is handled (an entry that is no table, a field of the wrong type) that
  `v` has no plugin at all, which is what `cli.py:46` makes of it. Of two configured plugins of
  one name it says that neither is found and both are reported, as the code at
  `discovery.py:181` does and says. A directory has one plugin, the user's directories are listed
  once and are not among the configured ones; a configured directory may be listed twice.
  Handlers are compared down to subcommands. `ArgumentsWin` leaves out the mutex groups of
  templates.
- `PatchIsExact` speaks of files with a blank line before every header, as the ones
  Supabase writes: a header that follows directly on a key, or on a comment, is not seen
  as the end of its section.
- `OutputIsComplete` leaves out what was dropped because the client's queue of 256 was full,
  the last event too (`events.py:72`).
- `NoCommandSurvives` speaks of a command's own process, not of the descendants it leaves
  when it exits by itself.
- `KeptUnlessRaced` leaves out a subscription made during the few statements of a clean-up
  of the same user, and `EachDeviceOnce` a device the push to which failed, which is logged
  only (`push.py:227`-`229`), and a delivery that raised (two clean-ups that both
  find a user's list empty: the second `del` is a KeyError).
- `NothingLeft` names what a shutdown may leave, and speaks of one that reaches its end.

*Fairness.* Every task that can step does (`WF`): the event loop is fair and each
command has a timeout. Taking a lock is strongly fair: `asyncio.Lock` serves its
waiters in order. Executors and node coroutines are weakly fair: agents have a
timeout of 30 minutes, gates one of 24 hours. A call of `dispatch_task_agent` is
weakly fair for the same reason, and nothing is assumed of its process: a process
that ignores SIGTERM is killed. `SessionsEnd` names the ways in which the code does
leave a session behind: a call ended by an exception or by the cancel of its plan, one
that could not write its configuration. In `OperationStream` an event that was fired is
broadcast and recorded, an operation ends (its commands have timeouts), and a client
that stays takes what it is sent, heartbeats included. In `ServerControl` a stop goes on
and its grace periods expire; nothing makes a server that was signalled return.

*Symmetry* is used in runs without liveness only, over tasks, objects of the same key,
processes, threads, services, branches, checks, deliveries and devices.

*Deadlock* is not checked: every instance is bounded (requests, calls or inputs), so it
stops when they are used up.

### Where code and text differ

Met while modelling; the models do what the code does.

- DELETE says "Must be stopped first" and refuses only RUNNING (`routers/services.py:528`, `537`).
- DELETE of a compose-native service releases the wrong kind of allocation (`service_lifecycle.py:484`).
- The failure of a volume removal asks for the transition STOPPED -> FAILED, which the table refuses (`service_lifecycle.py:331`).
- `start_plan` has a guard against concurrent plans and does not exclude a second executor (`plan_executor.py:370`-`382`).
- `pause_plan` does not pause: the executor looks at another object (`plan_executor.py:393`, `52`).
- A deleted plan comes back, paused, when its executor handles the cancellation (`plan_executor.py:116`).
- DELETE of a plan never finds the agents that run, since a node gets its `agent_session_id` when the agent has ended (`conductor_ops.py:344`, `plan_executor.py:200`).
- The answer of a gate is overwritten by the executor's next save (`conductor_ops.py:377`).
- A condition worded for failure can never be true (`plan_executor.py:351`); `cancel_plan` says it marks nodes as failed and marks them skipped (`plan_executor.py:413`).
- A session cancelled while its process is being created is not stopped: the process is registered and runs to its end (`agent_sessions.py:146`, `agent_dispatch.py:204`).
- A question that a hook makes after its session ended stays pending (`agent_ops.py:144`).
- The stream of an operation "closes automatically when the operation finishes"; when its record has expired it does not (`routers/services.py:750`, `806`). The closing summary mostly says "running", since the final event is broadcast before it is recorded.
- `since` is documented as the index of an event of the operation from which on a client catches up; it is an index into a ring buffer that drops its oldest beyond 1000, so a client that resumes after many events misses some that are buffered (`operations.py:121`, `routers/services.py:767`).
- `write_json_locked` says it writes atomically and truncates in place (`file_lock.py:70`).
- A new level of autonomy is the user's for all branches, and "notify running Conductor if applicable" tells the one of the branch in the request, or none when the request has no branch (`conductor_ops.py:187`, `196`).
- A launch removes the port file of a server that runs when that does not answer a ping within a second ("stale") (`serve/__init__.py:92`, `server_cmd.py:297`-`305`).
- The lock on the server's port file does "prevent two concurrent launches from racing" only while the file is written (`server_cmd.py:321`).
- Discovery says that of plugins of one name the first is kept; of two in the configured directories none is, as a comment further down says (`plugins/discovery.py:16`, `116`, `181`).
- The skip of the loader is not as transitive as its comment says ("Transitively skip: current depends on a skipped plugin.", `plugins/loader.py:534`): the plugins below the top of the stack are marked as visited and neither ordered nor skipped, and a plugin visited later that depends on one of them is ordered without it. With 1 needing 2, 2 needing 3, 3 needing a plugin that is missing and 4 needing 1, the order is 4 alone.
- The loader clears its set of installed subscriptions at every load (`loader.py:191`), which would subscribe twice on a second load; the server loads once, though its comments speak of two.
- Container prefixes are compared without the replica number: a service `vite` also claims the containers of `vite-admin` (`container_map.py:102`).
- "Only one reader per session exists at a time": after the last connection has left and another has come, a thread of the old reader takes the next chunk and drops it (`pty.py:247`).

## What is proved

`ServiceLifecycleProofs`, for any number of keys, instances, tasks and cleanups and
for every set of requests and faults, from the named assumptions on the constants
in `ServiceLifecycle` (types, `None` is no task, instance or branch):

- `Invariant`: `Spec => []IInv`.
- `TypeCorrect`: `Spec => []TypeOK`.
- `HoldersFindTheirState`: `Spec => []HolderFindsItsState`.
- `ChangesAreAttended`: `Spec => []Attended`.

`HolderFindsItsState` speaks of tasks inside a lock only. It is not inductive: a
step of a waiting task takes a lock, so one has to know that a waiter has an
instance and no lock; and `Attended` looks from the instance at the task, so a lock
must have a holder that is inside. The half of `Attended` about STOPPING is an action
property: no step but the two it names leaves a service `Stranded`. `IInv` is `TypeOK`,
`HolderFindsItsState`, the half about STARTING (`StartsAttended`), "a task
that waits has an instance" and "the holder of a lock is at a label inside it on
that instance". With it the proof of a step is per kind of step rather than per
action: a task that stays inside its lock (with or without a change of state), one
that takes a lock, one that leaves it; a lemma for each says what is to be shown of
the labels and the state, and every action is one use of a lemma.

The same module proves `Refinement`: `Spec => SerializedSpec`, every
instance implements `SerializedService`. A kind of step above is a kind of step of
the abstract instance: `Works` is a `Work` of the holder or a stutter, `Takes` an
`Acquire`, `Leaves` a `Release`; a step after which nothing refers to the instance is
a `Drop` (the object is the next new one, `Create` when it is registered), and after a
crash what is registered again is a `Recover`. `Attended` is what the abstract
instance asks of a holder that lets go.

`PlanExecutorProofs`, for every DAG of nodes and any number of plans and executors,
for every set of requests, from the types of the constants:

- `Invariant`: `Spec => []IInv`.
- `TypeCorrect`, `InOrderOfDependencies`, `Completed`, `FailureBranch`: the state
  properties `TypeOK`, `DependenciesFirst`, `CompletedIsComplete` and
  `FailureBranchIsDead` (the last from `BranchesDepend`, its premise).
- `Outcomes`: `Spec => OutcomesStay`, the action property.

Executors write stale objects over files, so nothing can be said that relates a file
to the object of its executor. What holds is about one object at a time: `Good` is
what a version of a plan satisfies by itself, and every version is copied from another
or made by a step of the executor that owns it. `IInv` says so of all files and
objects (`Files`, `Objects`) and adds what the steps of an executor need: the await of
a coroutine tells the status of its node (`Coroutines`; a node about to begin has its
dependencies, and is not one a condition skips meanwhile), coroutines exist during
`gather` only, and a gate event leads to a coroutine that listens (`Gates`), without
which an answer could resume another one. `Advance` says which changes keep an object
`Good`; `NodeWorks`, `MainWorks` and `Leaving` are the kinds of step.

`AgentsProofs` has two parts. The agent sessions, for any number of calls, sessions,
questions and hooks and for every set of faults, from the assumption that the bounds are
numbers and `None` is neither call, session nor role:

- `Invariant`: `Spec => [](IInv /\ Booked)`.
- `TypeCorrect`, `OneCall`, `Agree`, `CancelFinds`, `Completed`: the state properties
  `TypeOK`, `OneCallPerSession`, `StatusAgrees`, `CancelFindsProcess` and
  `CompletedExited`.
- `Outcomes`: `Spec => OutcomeStays`, the action property.
- `PendingAreDue`: `Spec => []PendingIsDue`, when there are finitely many calls.

Here the properties need each other: that a process table entry is the right one
follows from there being one call per session, and that a session stays completed
from `StatusAgrees`, which says that a call under way cannot find it so. What has to
be added is `Labels`: a call has a session exactly from its first turn on, that
session exists and is no longer pending (so that no other call adopts it), and only
such a call has a process; and `Booked`, that a task that waits for its first turn
knows its role. Two lemmas carry the proof: `NewSession`, for every step in which a
call gets a session, and `OwnSession`, for every step of a call or its process that
changes the session, the process and the table entry of that call at once.
`PendingIsDue` compares how many sessions are pending for a role, user and branch with
how many calls will take one, since no call is tied to the session made for it. Every
step changes the two sets in one of five ways (`StillDue`): none is added and no call
leaves, a dispatch adds one of each, a call takes one of each away, or a call that finds
no session of its own leaves none pending, or one that it is itself due to take. The
premise is what makes the two numbers comparable.

The registry and the host, in the last section of `ServiceLifecycleProofs`:

- `RunningServicesAreBacked`: `Spec => []RunningIsBacked`, and
  `OneOperationPerService`: `Spec => []SingleFlight`, when `NothingLeaves`.
- `WhatRunsIsRecorded`: `Spec => []UpIsRecorded`, and
  `RestartsRecoverAll`: `Spec => RecoversAll`, when `NothingLeaves` and no command
  reports an error.

`NothingLeaves` says that neither DELETE nor a cleanup is among the requests; the other
requests, exceptions and crashes of the server are arbitrary. The premise is needed: a
service that is deleted while a task waits for its lock can be registered again as a new
instance, and the old task releases what the new one uses, for the locks belong to
instances. `services_all` has those requests and the properties above do not hold there
(TLC finds each violated). Errors are excluded for the other two because a start that
reports an error gives its allocation back though its containers may run
(`LaunchFails`). Deaths inside a save of the port file are among the faults: what they
make the server forget is `forgotten`, which both properties name and which a key leaves
when it is allocated again. The invariants on top of `IInv` are `Permanent` (a task
works on the instance its key is registered as, so that being the only one inside the
lock of an instance is being the only one on the key), `Backed` (what a start has got by
each of its labels) and `Recorded` (an allocation is given back only when its container
is down, and what is forgotten has none). `services_registered` checks the two
properties with these premises.

The Conductors, in the second part of `AgentsProofs`, for any number of requests, when
`Unset` is no request:

- `ConductorInvariant`, `ConductorsTyped`, `OrphansNever` (`NoOrphans`), `LevelsFollowed`
  (`AutonomyFollowed`).

Both properties are about requests that do not overlap, and both are false of a request
half way unless one knows what it relies on. `ConductorInv` is `ConductorTypeOK` and, unless
requests have overlapped, `Alone`: at most one request is under way (`OneRequest`), the entry it
made or found is still in the table (`EntryStays`), no process runs but that of the
entry in the table (`Known`), and the level a request read or saved, and the one the
running Conductor was told, are those due (`LevelStays`).

`ServerProofs` has two parts. `ServerControl`, for any number of launches and stops, when
`None` is no launch:

- `Invariant`, `TypeCorrect`, `StopsTell` (`StoppedIsDown`), `ServersAreFound`
  (`FoundUnlessRaced`).

`StoppedIsDown` holds however commands overlap. It rests on `Sound`: a pid is in a file
or is signalled only once its process has written it (`Pids`), only that process can
hold the port afterwards (`Socket`), and each label of a stop tells what it has done to
the process (`Signalled`). `FoundUnlessRaced` rests on `Orderly`, which holds until
commands overlap: there is one command, and it finds the port and the file as it left
them (`OneCommand`, `PortKept`, `FileKept`), unless a launch took the server for none.

The life of the server, for any number of terminals, connections, chunks, containers,
services, threads, lines, tasks and Conductors and every size of batch and ring, from
`TerminalsAssumption` (no terminal is named as a handler without one is) and
`LogAssumption` (the sizes are positive):

- `LifeInvariant`: `LifeSpec => []LifeIInv`.
- `TerminalsTyped`, `LogsTyped`: `TermTypeOK`, `LogTypeOK`.
- `ShutdownIsComplete` (`NothingLeft`), `ViewsAreWhole` (`SharedViewIsWhole`),
  `LogsAreInOrder` (`LogsInOrder`, when no service's prefix fits a container of another).

The parts keep their invariants in every step of the server, so each is proved for the
steps of its part (`TermMove`, `LogMove`) and `LifeMoves` and `LifeLogs` say that a step
of the server is none but those. `NothingLeft` is `Ending`, what has been done by each
stage of the shutdown, and `Left`, what there may still be of a closed terminal: it has a
running shell only while a thread reads it, which a thread left behind by a cancelled
reader has to know. `SharedViewIsWhole` is `View`: a connection has seen what was kept
since it joined, without the last chunk exactly while the reader has yet to send to it,
and nobody joins or leaves while it sends (`Sending`), or a connection that joins would be
sent a chunk twice. Of the logs, `Orders` and `NoGap` speak of which entries come before which
in the queue and the rings, which appending, cutting and filtering are easily said to
keep (`ConcatHas`, `EntriesOfFacts`); `InvariantIsOrder` goes from there to positions.
That a new thread has no entries rests on threads being used one after the other
(`Threads`), by cardinality.

`WorkProofs` has three parts. The checks, for every group of them, from the assumption
that `Unknown` is no check and misnamed results bear the name of a check or `Unknown`:

- `Invariant`, `TypeCorrect`, `DependenciesFirst` (`RunsAfterDependencies`),
  `VerdictsAreEarned` (`VerdictIsEarned`), `CommandsEnd` (`NoCommandSurvives`).

What holds a check back is what `run_group` has collected under a name, and what the
properties speak of is what a check did. `IInv` relates them: where checks are is
settled by the wave they are in (`Phases`, `Places`), what returned under its own name
is what was collected under that name (`Agree`), and a check that ran found its
dependencies passed (`Gated`). A cycle is refused, so when no check is ready none is
left that depends only on collected ones; that is the argument for the verdict and needs
no induction, for `Acyclic` is stated with sets.

The test runs and the bus, for any number of runs, lines and plugins and any
subscriptions, from `BusAssumption` (a run and a plugin are not named as the handlers of
the system are):

- `WorkInvariant`: `WorkSpec => []WorkIInv`.
- `OutputsAreComplete` (`OutputIsComplete`), `HandlersRun` (`EveryHandlerRuns`; its
  premise is that the audit log subscribes to the end of a test run, which
  `bus/events.py:95` says).

`OutputIsComplete` speaks of the end of a run only. On the way the bus sends each line
before the next is read, for the task waits for the gathering of handlers: `InTurn` is
what was put into the client's queue, or dropped, by each label of a run, the event in
flight included;
`EndStays` that the output is at its end from where the code goes on as if it were; and
`Served` that the handlers of the last event are still to begin or have done what they
do, or have failed to load.

The notifications, in the same module because the events of test runs schedule them, for
any number of users, devices, deliveries and lists:

- `PushInvariant`: `WorkSpec => []PushIInv`.
- `SubscriptionsKept` (`KeptUnlessRaced`), `DevicesReached` (`EachDeviceOnce`).

Lists are objects that deliveries go through while others change them. That nothing goes
wrong rests on whose they are: `Objects` says that no list is in use for two users and
none has a device twice, `Spares` that what a clean-up is about to put back or to delete
has no device of those kept, `FileCovers` that of saves that do not overlap the one
under way, or the file, has all but the lists about to be dumped (`Dirty`). `Reached`
and `ToReach` say which devices a delivery has reached and that those due, which a
failed push is not any more, are among what it has yet to reach: of a list that grows
and loses its gone devices, the part after the position is at least what it was. A
clean-up filters a list, which `Push` writes as a function over its length (`Without`).
What it keeps of every list is `WithoutFacts`, proved by induction over a set of numbers
(`Induct`, from the least element of what is left), which needs no operator as a
parameter.

`StoresProofs`, for any number of threads, processes, keys, services, branches and
slots, from the assumptions on the constants (`StoresAssumption`: threads and other
processes are different, the number of calls is a natural number, the marks for an
absent and an unsure value are no values; `PortAllocator`'s: slots are numbers):

- `Invariant`, `TypeCorrect`, `NoUpdateIsLost` (`UpdatesKept`), `StateIsWhole`
  (`StateWhole`), `AllocationsStayApart` (`AllocationsApart`).

A read-modify-write loses nothing if nobody else changes the file between its read and
its write. `IInv` says which of the calls exclude each other (`Callers`: those of the
threads of one process that are inside the lock of a store, and all that are inside the
file lock), and for each store that a call which has read holds, until it writes, what
the last change of every other key left (`StateKept`, `PreferencesKept`,
`ConnectionsKept`; each store is protected in a way of its own). `PortsKnown` has the
allocator: ports and slots differ in memory and in the file, which agree outside a save,
and a stack that is up and not in `stray` has its slot in both. `FreeSlot` is what the
proof needs of `LowestFree`.

The same module has `PatchesAreExact` (`PatchIsExact`), for files of any length with any
sections, keys and values and any ports, from `ConfigAssumption` (files are sequences of
lines, ports numbers). In a file with a blank line before every header the part of the
regular expression between a header and its key ends at the next header
(`ReachesSection`), so that what `Found` has is the keys of the section (`FoundIs`,
`PatchPortIs`), of which there is one. The substitutions are a recursive function
of their number; after each of them (`UpTo`, `MappingIs`, `Loop`) the lines
of the names gone through have their ports and all others are what they were, which
needs that no two names stand for one place and that a substitution changes numbers
only, so that the file stays tidy and every line in its section (`SameIs`).

`OperationStreamProofs`, for any number of clients, lines, updates and other messages
and for every size of buffer and queue:

- `Invariant`, `TypeCorrect`, `EachOnceAndInOrder` (`OnceInOrder`),
  `NothingElseIsMissed` (`MissedIsExplained`).

What a client has been sent, what it has yet to be sent of the buffer and what waits in
its queue are one stream, and it is the stream that is ordered: `StreamInOrder`. It
stays so because a phase is broadcast only after the former is recorded (`OneAtATime`),
because the buffer is ordered (`BufferInOrder`) and because a client that subscribes
finds in its queue only what was broadcast since (`OnlyBroadcast`). `CatchUpExplained`
is `MissedIsExplained` for a client that has not caught up yet; what `since` passes over
are the events at so many indices and so no more (`SkippedByRead`).

`PluginsProofs`, for any number of plugins, whatever they depend on, and any number of
processes, threads and commands, from `PluginAssumption` (plugins are finitely many
numbers from 1 on, dependencies are sequences of numbers, which need not be plugins, and a
command that names plugins names some):

- `PluginsInvariant`, `PluginsTyped`.
- `TogglesStay` (`TogglesKept`), `DependenciesAreLoadedFirst` (`LoadOrder`),
  `ServicesAreImportedOnce` (`EachServiceOnce`).
- `SearchIsOver`: the search for an order has ended after `Turns` turns.
- `CommandsAreApart` (`CommandsApart`), `ArgumentsAreRight` (`ArgumentsWin`), from
  `CommandAssumption` (of `PluginCommands`: what is listed, declared or defined is a
  sequence of what there may be, and there are finitely many templates). Which templates
  there are, what they include, which commands a core has, how deep subcommands go and
  which manifest has which fault is left open.

For `TogglesKept`, what the file has is not enough: a command that has read and is about
to write must hold the toggles last set, but for the one it sets and those of plugins
that are gone (`Holds`), and no other may be under way (`OneBusy`); both are asked only
while commands have not overlapped (`Undisturbed`). For `EachServiceOnce`, `Resolved`:
a service that is neither deferred nor registered nor lost is imported, by one thread,
and there are none without the one server (`OneServer`, and `Label`, which ties the steps
of a command to its kind). For the modules that are not raced, `Unraced`: one thread at most
resolves a service of the module, what `sys.modules` has of it is its only run that has
not failed, and no thread is about to run a module that is there (`Single`).

For `LoadOrder` the search itself is reasoned about. `Sound` is what every turn keeps
(`StepSound`): what is ordered is black and so are its dependencies, which come before it
if they are ordered at all (`OrderDone`); what is on the stack is there once, and each of
its dependencies is still left, black, or next on the stack (`StackOpen`). When a stack is
unwound, dependencies turn black that nobody orders any more, and when a plugin is
finalised none is left, so that it may be ordered. Leaving out the skipped plugins and
those that are not enabled or broken keeps the order (`KeptFacts`, `SortedOrdered`).
`Sound` holds after any number of turns (`EndSound`, by `Iterated`: a recursive function
over numbers exists, by the least element of what is left).

`CommandsAreApart` has two halves. For discovery, `MergedTo` is what the loop over the
user's plugins keeps (`MergeNext`, `MergeIs`): what was found so far are the accepted
configured plugins and those of the user's gone through whose name is new; in it each
plugin keeps its place (`KeptPlaces`), so that two places tell duplicates
(`DuplicatedIs`, `AcceptedTwice`) and what is left and what is reported add up
(`Discovery`); a manifest that raises another error than ValueError makes the discovery
fail, and nothing else does. For the commands, `Registered` is what is kept as the
plugins are registered in turn (`RegisterStep`, over the cases of `TurnIs`): a plugin
that is whole has a parser for each of its commands, which is its own and complete; the
parsers a failed one leaves behind have it as their owner; and no name gets a second
parser. That the parser of a command that does not raise is complete (`WholeParser`)
needs what `Raises` says, which is an equation over commands; it has a solution, the
least set that is closed under it (`RaisesIs`), even if declarations were to contain
themselves.

`ArgumentsAreRight` rests on facts about sequences in which a name is defined more than
once: `Defines` says that an argument is the last definition of its name, `PutAllIs` that
putting arguments one by one keeps the last definitions, each name once, and `FlatIs` and
`ThenDefines` where the last definition is in a concatenation. `_expand` exists and is
determined by its equation (`ExpandIs`) because every call has one template more on its
stack: `StackInduct` is induction on how many are left. `Reach`, the templates included directly
or not, is the least closed set (`ReachIs`). With these, the expansion raises exactly if
there is a cycle or a missing template in reach (`RaisesWhere`), it meets exactly the names that the
templates in reach define (`MetOffers`), and what it meets is the same
whatever stack it starts from as long as it does not raise (`SameBelow`), which is why a
template can be taken alone in `ArgumentsWin`.

`SearchIsOver` says that `Turns` is enough, so that what `End` returns is the result of
the loops and not a search cut short. What is left (`Rest`) is counted in names to go
through, plugins that are not black and dependencies still to be taken off; every turn
uses up one of them at least and adds to none (`Less`: `PopLess`, `PushLess`,
`BlackLess`, `NextNameLess`), and there are `Turns` of them at the start. A cycle ends the
search at once, and a name whose plugin is skipped or black costs a turn and no visit. `SearchEnds`
in `MCPlugins` evaluates the same on small graphs.

Every invariant, every action property and the refinement that a run checks is the
property of a theorem. Model-checked only:

- `RequestsEnd`, `ExecutorsEnd`, `SessionsEnd`, `StreamsEnd`, `StopsEnd`: liveness; fairness
  and ENABLED are beyond the prover. `ProcessesEnd`, which no run lists, is of the same kind.

## Plan

1. Services, plans and agent sessions: modules, runs, proofs. Done.
2. Port allocator and stores, Conductors, operation stream, plugins, server control,
   checks, terminals, logs, server life, bus, notifications, test runs: modules and
   runs. Done.
3. Proofs about the services and their registry, plans, agent sessions, Conductors,
   server control, terminals, logs, the life of the server, checks, test runs,
   notifications, stores, the operation stream and plugins. Done.
4. The functions: the rewriting of `config.toml`, and which plugin gets which command
   and arguments. Done. What is left of the properties is liveness, which is beyond the
   prover.

## Not modelled

- Authentication (`serve/auth*.py`, `csrf.py`, `session.py`): encoding and checking of
  tokens, left out deliberately.
- Command wrappers, templates, formatting, MCP tools, prompts, dashboard primitives,
  middleware, static files, self-update: plumbing and presentation; what callers see of
  a command (success, error, exception, timeout) is in the models. `cdp.py` is not used.
- Of the plugin system: namespaces, `events.toml`, an install that fails while it copies,
  parsers of a plugin's own modules (their import is the lazy handler's).
- Of services: ports of compose-native services, the read-only endpoints, the deps check.
- Of the server: FILTER events, health checks, metrics, the error log, connection limits of
  the event endpoint. Test runs and agents are not stopped at a shutdown in the code;
  `Lifespan` has neither.
- The reuse of process ids and file descriptors, several ports in `ServerControl`, a dev
  mode with a reloading parent.

`PROJECT.json` lists every part with the reason.
