----------------------------- MODULE Conductors -----------------------------
(***************************************************************************)
(* The Conductor processes of one branch: serve/conductor.py, the          *)
(* operations of serve/conductor_ops.py on them and the endpoints of       *)
(* serve/routers/conductor.py.  Branches share nothing but the table, and  *)
(* each has an entry of its own in it.                                     *)
(*                                                                         *)
(* A start request makes at most one ConductorSession, so the sessions     *)
(* bear the names of the requests that made them.                          *)
(***************************************************************************)
EXTENDS Naturals, FiniteSets

CONSTANTS
  Starter,  \* POST /api/conductor/start requests, and the sessions they make
  Stopper,  \* DELETE /api/conductor/stop requests, and the loop of a shutdown
  Setter,   \* PUT /api/conductor/autonomy requests of the user, and the levels they ask for
  Unset

ASSUME ConductorAssumption == Unset \notin Starter \cup Setter

VARIABLES
  start,         \* where each start request is
  stop,          \* where each stop request is
  setter,        \* where each request for a level is
  level,         \* the level in the preferences of the user, Unset the default
  told,          \* the level the process of a session was last told
  due,           \* the level it is to be told: the last set for the branch since it started, else the user's then
  target,        \* the session a stop request found
  table,         \* _conductors[branch]
  proc,          \* the process of a session
  killed,        \* kill() was called
  sessionStatus, \* its status
  config,        \* the file with its MCP configuration exists
  monitor,       \* its _monitor_task
  overlapped     \* a request began while another was under way

conductorVars == <<start, stop, setter, level, told, due, target, table, proc, killed,
                   sessionStatus, config, monitor, overlapped>>
requestVars == <<start, stop, target>>
levelVars == <<setter, level, told, due>>
sessionVars == <<proc, killed, sessionStatus, config, monitor>>

ConductorInit ==
  /\ start = [r \in Starter |-> "idle"]
  /\ stop = [z \in Stopper |-> "idle"]
  /\ target = [z \in Stopper |-> Unset]
  /\ setter = [z \in Setter |-> "idle"]
  /\ level = Unset
  /\ due = Unset
  /\ told = [s \in Starter |-> Unset]
  /\ table = Unset
  /\ proc = [s \in Starter |-> "none"]
  /\ killed = [s \in Starter |-> FALSE]
  /\ sessionStatus = [s \in Starter |-> "idle"]
  /\ config = [s \in Starter |-> FALSE]
  /\ monitor = [s \in Starter |-> "none"]
  /\ overlapped = FALSE

ProcessAlive(s) == proc[s] = "alive"

UnderWay ==
  \/ \E r \in Starter : start[r] \in {"reading", "spawning"}
  \/ \E z \in Stopper : stop[z] \in {"terminating", "killing"}
  \/ \E z \in Setter : setter[z] = "saved"

Arrive == overlapped' = (overlapped \/ UnderWay)

-----------------------------------------------------------------------------
(***************************************************************************)
(* Starting.  A thread reads the level from the preferences: the one of    *)
(* the moment of the request or a later one.  Then the table is read       *)
(* and written, and the configuration file made, without an await between. *)
(***************************************************************************)
StartRequested(r) ==
  /\ start[r] = "idle"
  /\ start' = [start EXCEPT ![r] = "reading"]
  /\ told' = [told EXCEPT ![r] = level]
  /\ Arrive
  /\ UNCHANGED <<stop, target, table, sessionVars, setter, level, due>>

EntryRuns == table # Unset /\ ProcessAlive(table)

StartRefused(r) ==
  /\ start[r] = "reading" /\ EntryRuns
  /\ start' = [start EXCEPT ![r] = "refused"]
  /\ UNCHANGED <<stop, target, table, sessionVars, overlapped, levelVars>>

\* Mutant of Enter: the old session is not looked at.
EnterAnyway(r) ==
  /\ start[r] = "reading"
  /\ table' = r
  /\ start' = [start EXCEPT ![r] = "spawning"]
  /\ config' = [config EXCEPT ![r] = TRUE]
  /\ \E l \in {told[r], level} : told' = [told EXCEPT ![r] = l]
  /\ due' = level
  /\ UNCHANGED <<stop, target, proc, killed, sessionStatus, monitor, overlapped, setter, level>>

\* An entry whose process does not run, or is still being created, is
\* replaced.
Enter(r) ==
  /\ start[r] = "reading" /\ ~EntryRuns
  /\ table' = r
  /\ start' = [start EXCEPT ![r] = "spawning"]
  /\ config' = [config EXCEPT ![r] = TRUE]
  /\ \E l \in {told[r], level} : told' = [told EXCEPT ![r] = l]
  /\ due' = level
  /\ UNCHANGED <<stop, target, proc, killed, sessionStatus, monitor, overlapped, setter, level>>

SessionSpawned(r) ==
  /\ start[r] = "spawning"
  /\ start' = [start EXCEPT ![r] = "started"]
  /\ proc' = [proc EXCEPT ![r] = "alive"]
  /\ sessionStatus' = [sessionStatus EXCEPT ![r] = "running"]
  /\ monitor' = [monitor EXCEPT ![r] = "waiting"]
  /\ UNCHANGED <<stop, target, table, killed, config, overlapped, levelVars>>

\* create_subprocess_exec raises: the entry and the file stay.
SpawnFails(r) ==
  /\ start[r] = "spawning"
  /\ start' = [start EXCEPT ![r] = "failed"]
  /\ UNCHANGED <<stop, target, table, sessionVars, overlapped, levelVars>>

-----------------------------------------------------------------------------
(***************************************************************************)
(* Stopping.  A session whose process has exited, or was not created yet,  *)
(* is removed at once; otherwise the process is terminated, and killed     *)
(* after ten seconds.                                                      *)
(***************************************************************************)
StopMissing(z) ==
  /\ stop[z] = "idle" /\ table = Unset
  /\ stop' = [stop EXCEPT ![z] = "missing"]
  /\ Arrive
  /\ UNCHANGED <<start, target, table, sessionVars, levelVars>>

Clear(s) ==
  /\ sessionStatus' = [sessionStatus EXCEPT ![s] = "stopped"]
  /\ config' = [config EXCEPT ![s] = FALSE]

\* stop_session removes the entry of the branch, whatever it holds by then.
Remove == table' = Unset

StopIdle(z) ==
  /\ stop[z] = "idle" /\ table # Unset /\ ~EntryRuns
  /\ stop' = [stop EXCEPT ![z] = "stopped"]
  /\ target' = [target EXCEPT ![z] = table]
  /\ Clear(table)
  /\ Remove
  /\ Arrive
  /\ UNCHANGED <<start, proc, killed, monitor, levelVars>>

Terminate(z) ==
  /\ stop[z] = "idle" /\ EntryRuns
  /\ stop' = [stop EXCEPT ![z] = "terminating"]
  /\ target' = [target EXCEPT ![z] = table]
  /\ Arrive
  /\ UNCHANGED <<start, table, sessionVars, levelVars>>

Kill(z) ==
  /\ stop[z] = "terminating" /\ ProcessAlive(target[z])
  /\ stop' = [stop EXCEPT ![z] = "killing"]
  /\ killed' = [killed EXCEPT ![target[z]] = TRUE]
  /\ UNCHANGED <<start, target, table, proc, sessionStatus, config, monitor, overlapped, levelVars>>

-----------------------------------------------------------------------------
(***************************************************************************)
(* The exit of a process: the return code is set first, the tasks that     *)
(* wait for it run some turns later, all of them in one turn (since        *)
(* Python 3.12, where wait_for waits in the task of its caller).           *)
(***************************************************************************)
Exit(s) ==
  /\ ProcessAlive(s)
  /\ proc' = [proc EXCEPT ![s] = "dead"]
  /\ UNCHANGED <<requestVars, table, killed, sessionStatus, config, monitor, overlapped, levelVars>>

StopsOf(s) == {z \in Stopper : stop[z] \in {"terminating", "killing"} /\ target[z] = s}

\* Nobody stops the session.  The monitor says that the Conductor crashed,
\* unless the session was stopped after the exit, and removes the file
\* after the broadcast.
MonitorWakes(s) ==
  /\ proc[s] = "dead" /\ monitor[s] = "waiting" /\ StopsOf(s) = {}
  /\ monitor' = [monitor EXCEPT ![s] = IF sessionStatus[s] = "stopped" THEN "done" ELSE "firing"]
  /\ sessionStatus' = [sessionStatus EXCEPT ![s] = "stopped"]
  /\ config' = IF sessionStatus[s] = "stopped" THEN [config EXCEPT ![s] = FALSE] ELSE config
  /\ UNCHANGED <<requestVars, table, proc, killed, overlapped, levelVars>>

MonitorEnds(s) ==
  /\ monitor[s] = "firing"
  /\ monitor' = [monitor EXCEPT ![s] = "done"]
  /\ config' = [config EXCEPT ![s] = FALSE]
  /\ UNCHANGED <<requestVars, table, proc, killed, sessionStatus, overlapped, levelVars>>

\* The stops of a session follow its monitor and cancel it.  The first one
\* removes whatever the table has for the branch; the others, and the first
\* if there is nothing, fail with a KeyError and answer 404.
StopsWake(s) ==
  /\ proc[s] = "dead" /\ StopsOf(s) # {}
  /\ Clear(s)
  /\ monitor' = [monitor EXCEPT ![s] = "done"]
  /\ \E first \in StopsOf(s) :
       stop' = [z \in Stopper |->
         IF z \notin StopsOf(s) THEN stop[z]
         ELSE IF z = first /\ table # Unset THEN "stopped" ELSE "missing"]
  /\ Remove
  /\ UNCHANGED <<start, target, proc, killed, overlapped, levelVars>>

-----------------------------------------------------------------------------
(***************************************************************************)
(* The level of autonomy: it is saved in a thread, as the user's for all   *)
(* branches.  A request may name a branch, whose Conductor is then told by *)
(* a message if it runs; one that names another branch or none tells no    *)
(* Conductor of this one.                                                  *)
(***************************************************************************)
Save(z) ==
  /\ setter[z] = "idle"
  /\ level' = z
  /\ \/ setter' = [setter EXCEPT ![z] = "saved"] /\ due' = z
     \/ setter' = [setter EXCEPT ![z] = "done"] /\ due' = due
  /\ Arrive
  /\ UNCHANGED <<requestVars, table, sessionVars, told>>

SendMessage(s, l) == told' = [told EXCEPT ![s] = l]

\* Mutant of Tell: only a new Conductor reads the level.
TellNobody(z) ==
  /\ setter[z] = "saved"
  /\ setter' = [setter EXCEPT ![z] = "done"]
  /\ UNCHANGED <<requestVars, table, sessionVars, level, told, due, overlapped>>

Tell(z) ==
  /\ setter[z] = "saved"
  /\ setter' = [setter EXCEPT ![z] = "done"]
  /\ IF EntryRuns THEN SendMessage(table, z) ELSE UNCHANGED told
  /\ UNCHANGED <<requestVars, table, sessionVars, level, due, overlapped>>

-----------------------------------------------------------------------------
ConductorNext ==
  \/ \E r \in Starter :
       \/ StartRequested(r) \/ StartRefused(r)
       \/ Enter(r) \/ SessionSpawned(r) \/ SpawnFails(r)
       \/ Exit(r) \/ MonitorWakes(r) \/ MonitorEnds(r) \/ StopsWake(r)
  \/ \E z \in Stopper : StopMissing(z) \/ StopIdle(z) \/ Terminate(z) \/ Kill(z)
  \/ \E z \in Setter : Save(z) \/ Tell(z)

ConductorSpec == ConductorInit /\ [][ConductorNext]_conductorVars

-----------------------------------------------------------------------------
ConductorTypeOK ==
  /\ start \in [Starter -> {"idle", "reading", "refused", "spawning", "started", "failed"}]
  /\ stop \in [Stopper -> {"idle", "terminating", "killing", "stopped", "missing"}]
  /\ target \in [Stopper -> Starter \cup {Unset}]
  /\ setter \in [Setter -> {"idle", "saved", "done"}]
  /\ level \in Setter \cup {Unset}
  /\ due \in Setter \cup {Unset}
  /\ told \in [Starter -> Setter \cup {Unset}]
  /\ table \in Starter \cup {Unset}
  /\ proc \in [Starter -> {"none", "alive", "dead"}]
  /\ killed \in [Starter -> BOOLEAN]
  /\ sessionStatus \in [Starter -> {"idle", "running", "stopped"}]
  /\ config \in [Starter -> BOOLEAN]
  /\ monitor \in [Starter -> {"none", "waiting", "firing", "done"}]
  /\ overlapped \in BOOLEAN

(***************************************************************************)
(* As long as no request begins while another is under way, the table      *)
(* knows every process that runs, so that every one can be stopped, and a  *)
(* shutdown, which stops what the table has, leaves none behind            *)
(* (server.py:228 "Stop all active Conductor sessions to avoid orphaned    *)
(* processes"); a message of a process then goes into the conversation of  *)
(* its own session.  Failed starts and crashes do not change that.         *)
(***************************************************************************)
NoOrphans == ~overlapped => \A s \in Starter : ProcessAlive(s) => table = s

(***************************************************************************)
(* When no request is under way, and none began while another was, the     *)
(* Conductor that runs has been told the last level that was set for its   *)
(* branch or, if none was since it started, the one the user had chosen by *)
(* then, in whatever order levels were set and Conductors started,         *)
(* replaced and stopped (serve/conductor_ops.py:187 "notify running        *)
(* Conductor if applicable").  It need not be the level in force: one that *)
(* is set without the branch reaches a Conductor when it starts.           *)
(***************************************************************************)
AutonomyFollowed ==
  ~overlapped /\ ~UnderWay => \A s \in Starter : ProcessAlive(s) => told[s] = due

=============================================================================
