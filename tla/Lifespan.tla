------------------------------ MODULE Lifespan ------------------------------
(***************************************************************************)
(* The life of the server: lifespan() of serve/server.py with the parts it *)
(* starts and stops: the tasks plugins contribute (serve/background.py),   *)
(* the Vite server of the dev mode (serve/vite_dev.py), the pollers of     *)
(* serve/metrics.py and monitoring/health.py, the update checker, the      *)
(* Conductors, of which only the table is kept here (module Conductors has *)
(* the rest), the log aggregator (LogStreams) and the terminals            *)
(* (Terminals).                                                            *)
(*                                                                         *)
(* Everything that was accepted before the shutdown may still finish while *)
(* it runs; nothing is accepted any more.                                  *)
(***************************************************************************)
EXTENDS Terminals, LogStreams

CONSTANTS
    Task,            \* the registered background tasks
    Enabled,         \* those whose feature is enabled
    Branch,          \* the branches a Conductor is started for
    Poller,          \* the metrics collector and the health checker
    UpdateChecker,   \* the update checker
    MaxInputs        \* bound: what users, containers and shells do while the server is up

ASSUME LifespanAssumption == Enabled \subseteq Task /\ MaxInputs \in Nat

VARIABLES
    stage,           \* where lifespan is
    vite,            \* the process of the Vite server
    tasks,           \* the background tasks that are running
    stubborn,        \* those whose stop has raised
    requested,       \* the branches with a start of a Conductor under way
    conductors,      \* the branches with a Conductor
    unstopped,       \* those whose stop has raised, or that came too late for it
    toStop,          \* the branches the shutdown has yet to stop
    watchers,        \* the pollers and the update checker, as far as they run
    cleaning,        \* the terminal cleanup_all is destroying
    inputs           \* how much has happened

lifeVars == <<stage, vite, tasks, stubborn, requested, conductors, unstopped, toStop, watchers,
              cleaning, inputs>>
serverVars == <<termVars, logVars, lifeVars>>

Up == stage = "up"

LifeInit ==
    /\ TermInit /\ LogInit
    /\ stage = "off" /\ vite = "none"
    /\ tasks = {} /\ stubborn = {}
    /\ requested = {} /\ conductors = {} /\ unstopped = {} /\ toStop = {}
    /\ watchers = {} /\ cleaning = "none" /\ inputs = 0

-----------------------------------------------------------------------------
(* Starting.                                                               *)

\* The configuration; then the update checker is started.
Configure ==
    /\ stage = "off"
    /\ \/ stage' = "failed" /\ UNCHANGED watchers
       \/ stage' = "boot" /\ watchers' = {UpdateChecker}
    /\ UNCHANGED <<termVars, logVars, vite, tasks, stubborn, requested, conductors, unstopped,
                   toStop, cleaning, inputs>>

\* start_all: a task whose start raises is not kept, and the others go on.
StartAll == tasks' \in SUBSET Enabled

\* The error log and the discovery may raise; what was started goes on alone.
StartFails ==
    /\ stage = "boot" /\ stage' = "failed"
    /\ UNCHANGED <<termVars, logVars, vite, tasks, stubborn, requested, conductors, unstopped,
                   toStop, watchers, cleaning, inputs>>

\* The monitoring and the tasks are started, then npx vite; without it the
\* server is up at once.
StartParts ==
    /\ stage = "boot"
    /\ logTask' = "new"
    /\ watchers' = watchers \cup Poller
    /\ StartAll
    /\ \/ stage' = "vite" /\ vite' = "running"
       \/ stage' = "up" /\ UNCHANGED vite
    /\ UNCHANGED <<termVars, dockerVars, client, seen, table, thread, next, pending, ring, stubborn,
                   requested, conductors, unstopped, toStop, cleaning, inputs>>

\* It answers, it has exited, or it does not answer for 30 s and is stopped.
ViteStarts ==
    /\ stage = "vite" /\ stage' = "up"
    /\ vite' \in {vite, "gone"}
    /\ UNCHANGED <<termVars, logVars, tasks, stubborn, requested, conductors, unstopped, toStop,
                   watchers, cleaning, inputs>>

-----------------------------------------------------------------------------
(* While the server is up, and after.                                      *)

ViteExits ==
    /\ vite = "running" /\ vite' = "gone"
    /\ UNCHANGED <<termVars, logVars, stage, tasks, stubborn, requested, conductors, unstopped, toStop,
                   watchers, cleaning, inputs>>

ConductorRequested(b) ==
    /\ Up /\ requested' = requested \cup {b}
    /\ UNCHANGED <<termVars, logVars, stage, vite, tasks, stubborn, conductors, unstopped, toStop,
                   watchers, cleaning>>

\* The entry in the table: too late for a shutdown that has taken its list.
ConductorEnters(b) ==
    /\ b \in requested /\ requested' = requested \ {b}
    /\ conductors' = conductors \cup {b}
    /\ unstopped' = IF stage \in {"up", "proxy", "tasks", "stopvite"} THEN unstopped ELSE unstopped \cup {b}
    /\ UNCHANGED <<termVars, logVars, stage, vite, tasks, stubborn, toStop, watchers, cleaning,
                   inputs>>

\* What comes from outside, within the bound.
Input ==
    /\ Up /\ inputs < MaxInputs /\ inputs' = inputs + 1
    /\ \/ TermInput /\ UNCHANGED <<logVars, stage, vite, tasks, stubborn, requested, conductors,
                                   unstopped, toStop, watchers, cleaning>>
       \/ LogInput /\ UNCHANGED <<termVars, stage, vite, tasks, stubborn, requested, conductors,
                                  unstopped, toStop, watchers, cleaning>>
       \/ \E b \in Branch : ConductorRequested(b)

-----------------------------------------------------------------------------
(* The shutdown, in the order of the code.                                 *)

Shutdown ==
    /\ Up /\ stage' = "stopvite"
    /\ UNCHANGED <<termVars, logVars, vite, tasks, stubborn, requested, conductors, unstopped, toStop,
                   watchers, cleaning, inputs>>

\* SIGTERM, and SIGKILL after five seconds.
StopVite ==
    /\ stage = "stopvite" /\ stage' = "proxy"
    /\ vite' = IF vite = "running" THEN "gone" ELSE vite
    /\ UNCHANGED <<termVars, logVars, tasks, stubborn, requested, conductors, unstopped, toStop,
                   watchers, cleaning, inputs>>

\* The close of the proxy is the one step whose exception nobody catches.
CloseProxy ==
    /\ stage = "proxy" /\ stage' \in {"tasks", "raised"}
    /\ UNCHANGED <<termVars, logVars, vite, tasks, stubborn, requested, conductors, unstopped, toStop,
                   watchers, cleaning, inputs>>

\* Mutant of StopAll: the first exception ends the loop.
StopAllUntilRaise ==
    /\ stage = "tasks" /\ stage' = "conductors"
    /\ \E stopped \in SUBSET tasks :
         /\ tasks' = tasks \ stopped
         /\ \/ stopped = tasks /\ UNCHANGED stubborn
            \/ \E t \in tasks \ stopped : stubborn' = {t}
    /\ toStop' = conductors
    /\ UNCHANGED <<termVars, logVars, vite, requested, conductors, unstopped, watchers,
                   cleaning, inputs>>

\* stop_all: every task is asked to stop, whatever the others raise; then the
\* Conductors of the moment are listed.
StopAll ==
    /\ stage = "tasks" /\ stage' = "conductors"
    /\ stubborn' \in SUBSET tasks /\ tasks' = stubborn'
    /\ toStop' = conductors
    /\ UNCHANGED <<termVars, logVars, vite, requested, conductors, unstopped, watchers,
                   cleaning, inputs>>

\* One Conductor is stopped; an exception is swallowed.
StopConductor(b) ==
    /\ stage = "conductors" /\ b \in toStop
    /\ toStop' = toStop \ {b}
    /\ \/ conductors' = conductors \ {b} /\ UNCHANGED unstopped
       \/ unstopped' = unstopped \cup {b} /\ UNCHANGED conductors
    /\ UNCHANGED <<termVars, logVars, stage, vite, tasks, stubborn, requested, watchers, cleaning,
                   inputs>>

\* The log aggregator, the pollers and the update checker, without an await.
StopMonitoring ==
    /\ stage = "conductors" /\ toStop = {} /\ stage' = "terminals"
    /\ LogStop
    /\ watchers' = {}
    /\ UNCHANGED <<termVars, vite, tasks, stubborn, requested, conductors, unstopped, toStop, cleaning,
                   inputs>>

\* cleanup_all: one terminal after the other.
CleanUp(s) ==
    /\ stage = "terminals" /\ cleaning = "none"
    /\ Destroy(s) /\ cleaning' = s
    /\ UNCHANGED <<logVars, stage, vite, tasks, stubborn, requested, conductors, unstopped, toStop,
                   watchers, inputs>>

\* The next terminal of the list waits for the end of the last one's destroy.
CleanedUp(s) ==
    /\ cleaning = s /\ s \notin destroying /\ cleaning' = "none"
    /\ UNCHANGED <<termVars, logVars, stage, vite, tasks, stubborn, requested, conductors, unstopped,
                   toStop, watchers, inputs>>

\* Every terminal of the list was destroyed; the error log is closed.
Ended ==
    /\ stage = "terminals" /\ cleaning = "none"
    /\ sessions = {}
    /\ stage' = "down"
    /\ UNCHANGED <<termVars, logVars, vite, tasks, stubborn, requested, conductors, unstopped, toStop,
                   watchers, cleaning, inputs>>

LifeNext ==
    \/ Configure \/ StartFails \/ StartParts \/ ViteStarts \/ ViteExits
    \/ Input
    \/ TermStep /\ UNCHANGED <<logVars, lifeVars>>
    \/ LogStep /\ UNCHANGED <<termVars, lifeVars>>
    \/ \E b \in Branch : ConductorEnters(b) \/ StopConductor(b)
    \/ Shutdown \/ StopVite \/ CloseProxy \/ StopAll \/ StopMonitoring \/ Ended
    \/ \E s \in Terminal : CleanUp(s) \/ CleanedUp(s)

LifeSpec == LifeInit /\ [][LifeNext]_serverVars

-----------------------------------------------------------------------------
(* Properties.                                                             *)

\* A shutdown that reaches its end leaves nothing running but what could not be
\* stopped: tasks and Conductors whose stop raised, a Conductor that entered the
\* table after the list was taken, a terminal a user was destroying at the time and
\* a shell whose terminal a thread still reads (server.py:213-255, "to avoid
\* orphaned processes").
NothingLeft ==
    stage = "down" =>
       /\ vite # "running" /\ tasks \subseteq stubborn /\ conductors \subseteq unstopped
       /\ \A s \in Terminal \ destroying :
             /\ shell[s] = "running" => stray[s] > 0
             /\ reader[s] = NoReader /\ connections[s] = {} /\ closing[s] = {}
       /\ logTask \in {"leaving", "stopped"} /\ ~client
       /\ watchers = {}
=============================================================================
