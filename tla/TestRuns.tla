------------------------------ MODULE TestRuns ------------------------------
(***************************************************************************)
(* serve/test_runner.py and its endpoints in serve/routers/services.py: a  *)
(* task per test run starts npx playwright in a thread, reads its output   *)
(* line by line in threads, fires an event for every line and one at the   *)
(* end; a request stops the run, waiting for the process with the loop     *)
(* blocked.                                                                *)
(*                                                                         *)
(* The events go through the bus (EventBus) to one connected client and,   *)
(* the last one, to the audit log, a plugin and the push notifications     *)
(* (Push), which other events reach too.  The client empties its queue of  *)
(* 256 messages at its own pace, and other events fill it: it may be full  *)
(* at any time, and what does not fit is dropped.                          *)
(***************************************************************************)
EXTENDS EventBus, Push

CONSTANTS
    Run,             \* the test runs
    MaxLines,        \* bound: the lines a run prints
    OtherEvents,     \* events of other parts of the server
    Toggled,         \* bound: the categories users turn on and off
    MaxInputs        \* bound: what users, devices and other parts do; the start or
                     \* stop of a run and a change of preferences count twice

ASSUME RunAssumption == Caller = Run /\ MaxLines \in Nat /\ MaxInputs \in Nat

VARIABLES
    run,             \* where the task of every run is
    process,         \* its process
    child,           \* the runs with a descendant that holds the output open
    printed,         \* the lines that were printed
    read,            \* the lines that were read
    active,          \* _active_procs
    stopping,        \* the run a request is stopping
    stopped,         \* the runs whose stop was answered with success
    heard,           \* what was put into the queue of the client of every run, in
                     \* which order the client hears it; Missed for what was dropped
    inputs

runVars == <<run, process, child, printed, read, active, stopping, stopped, heard, inputs>>
workVars == <<busVars, pushVars, runVars>>

NoRun == "none"

WorkInit ==
    /\ BusInit /\ PushInit
    /\ run = [r \in Run |-> "none"] /\ process = [r \in Run |-> "none"]
    /\ child = {} /\ printed = [r \in Run |-> 0] /\ read = [r \in Run |-> 0]
    /\ active = {} /\ stopping = NoRun /\ stopped = {}
    /\ heard = [r \in Run |-> <<>>] /\ inputs = 0

\* Nothing blocks the loop.
LoopFree == stopping = NoRun /\ ~Subscribing

Line(r, n) == [type |-> "tests.output", run |-> r, line |-> n]
Done(r) == [type |-> "tests.run.DONE", run |-> r, line |-> 0]
Missed == [type |-> "missed"]

-----------------------------------------------------------------------------
(* The task of a run, and its threads.                                     *)

\* run_tests: the task is created, the answer names the run.
RunTests(r) ==
    /\ run[r] = "none" /\ run' = [run EXCEPT ![r] = "task"]
    /\ UNCHANGED <<busVars, pushVars, process, child, printed, read, active, stopping, stopped, heard>>

\* Popen in a thread; without npx it raises, outside the try, and the task is over.
Popen(r) ==
    /\ run[r] = "task"
    /\ \/ run' = [run EXCEPT ![r] = "spawned"] /\ process' = [process EXCEPT ![r] = "running"]
          /\ \/ child' = child \cup {r}
             \/ UNCHANGED child
       \/ run' = [run EXCEPT ![r] = "raised"] /\ UNCHANGED <<process, child>>
    /\ UNCHANGED <<busVars, pushVars, printed, read, active, stopping, stopped, heard, inputs>>

\* The entry in the table, back in the loop.
Registered(r) ==
    /\ LoopFree /\ run[r] = "spawned"
    /\ run' = [run EXCEPT ![r] = "reading"] /\ active' = active \cup {r}
    /\ UNCHANGED <<busVars, pushVars, process, child, printed, read, stopping, stopped, heard, inputs>>

\* The output is at its end when nobody holds it open.
Open(r) == process[r] = "running" \/ r \in child

\* Mutant of AtEnd: the loop ends with the process.
AtEndOfProcess(r) == process[r] = "exited"

AtEnd(r) == read[r] = printed[r] /\ ~Open(r)

\* readline, in a thread: a line, the end of the output, or bytes that are no
\* text, whose exception ends the task and leaves the process alone.
ReadLine(r) ==
    /\ run[r] = "reading"
    /\ \/ /\ read[r] < printed[r] /\ ~AtEnd(r)
          /\ read' = [read EXCEPT ![r] = @ + 1]
          /\ run' = [run EXCEPT ![r] = "line"]
       \/ AtEnd(r) /\ run' = [run EXCEPT ![r] = "waiting"] /\ UNCHANGED read
       \/ read[r] < printed[r] /\ run' = [run EXCEPT ![r] = "undecodable"] /\ UNCHANGED read
    /\ UNCHANGED <<busVars, pushVars, process, child, printed, active, stopping, stopped, heard, inputs>>

\* Back in the loop: the line is fired, and awaited.
FireLine(r) ==
    /\ LoopFree /\ run[r] = "line"
    /\ Fire(r, Line(r, read[r])) /\ run' = [run EXCEPT ![r] = "firing"]
    /\ UNCHANGED <<auditLog, cache, called, failed, pushVars, process, child, printed, read, active,
                   stopping, stopped, heard, inputs>>

\* proc.wait in a thread, then the last event.
FireDone(r) ==
    /\ LoopFree /\ run[r] = "waiting" /\ process[r] = "exited"
    /\ Fire(r, Done(r)) /\ run' = [run EXCEPT ![r] = "firing"]
    /\ UNCHANGED <<auditLog, cache, called, failed, pushVars, process, child, printed, read, active,
                   stopping, stopped, heard, inputs>>

\* fire() has returned: the next line, or the end, where the finally clause
\* takes the run out of the table.
FireEnds(r) ==
    /\ LoopFree /\ run[r] = "firing" /\ Fired(r)
    /\ IF firing[r].event = Done(r)
       THEN run' = [run EXCEPT ![r] = "ended"] /\ active' = active \ {r}
       ELSE run' = [run EXCEPT ![r] = "reading"] /\ UNCHANGED active
    /\ UNCHANGED <<pushVars, process, child, printed, read, stopping, stopped, heard, inputs>>

\* The same clause after an exception.
Undecodable(r) ==
    /\ LoopFree /\ run[r] = "undecodable"
    /\ run' = [run EXCEPT ![r] = "raised"] /\ active' = active \ {r}
    /\ UNCHANGED <<busVars, pushVars, process, child, printed, read, stopping, stopped, heard, inputs>>

\* The forwarder broadcasts the event: it is put into the queue of the client,
\* unless that is full, and a push is asked for.
Forward(r) ==
    /\ LoopFree /\ Forwarded(r)
    /\ \E full \in BOOLEAN :
         heard' = [heard EXCEPT ![r] = Append(@, IF full THEN Missed ELSE firing[r].event)]
    /\ MaybePush(firing[r].event)
    /\ UNCHANGED <<run, process, child, printed, read, active, stopping, stopped, inputs>>

\* The other handlers of an event: the audit log in a thread, plugins in the loop.
Handle(r) ==
    /\ AuditEnds(r) \/ \E p \in Plugin : LoopFree /\ PluginEnds(r, p)
    /\ UNCHANGED <<pushVars, runVars>>

-----------------------------------------------------------------------------
(* The processes (external).                                               *)

Prints(r) ==
    /\ Open(r) /\ printed[r] < MaxLines
    /\ printed' = [printed EXCEPT ![r] = @ + 1]
    /\ UNCHANGED <<busVars, pushVars, run, process, child, read, active, stopping, stopped, heard, inputs>>

Exit(r) ==
    /\ process[r] = "running" /\ process' = [process EXCEPT ![r] = "exited"]
    /\ UNCHANGED <<busVars, pushVars, run, child, printed, read, active, stopping, stopped, heard, inputs>>

ChildExits(r) ==
    /\ r \in child /\ child' = child \ {r}
    /\ UNCHANGED <<busVars, pushVars, run, process, printed, read, active, stopping, stopped, heard, inputs>>

-----------------------------------------------------------------------------
(* Stopping.                                                               *)

\* stop_test_run: SIGTERM, then the loop waits.
StopRequested(r) ==
    /\ r \in active /\ stopping' = r
    /\ UNCHANGED <<busVars, pushVars, run, process, child, printed, read, active, stopped, heard>>

\* The process ends within five seconds, or by SIGKILL.
Waited(r) == process' = [process EXCEPT ![r] = "exited"]

StopEnds(r) ==
    /\ stopping = r /\ Waited(r)
    /\ stopping' = NoRun /\ stopped' = stopped \cup {r}
    /\ UNCHANGED <<busVars, pushVars, run, child, printed, read, active, heard, inputs>>

-----------------------------------------------------------------------------

\* What comes from outside, within the bound.
Counts(n) == inputs + n <= MaxInputs /\ inputs' = inputs + n

Input ==
    /\ \/ /\ \E r \in Run : LoopFree /\ (RunTests(r) \/ StopRequested(r))
          /\ Counts(2)
       \/ /\ \/ \E d \in Device : (LoopFree /\ Subscribe(d)) \/ Gone(d)
             \/ \E e \in OtherEvents : LoopFree /\ MaybePush(e)
          /\ Counts(1)
          /\ UNCHANGED <<busVars, run, process, child, printed, read, active, stopping, stopped, heard>>
       \/ /\ \E u \in User, c \in Toggled, on \in BOOLEAN : LoopFree /\ SetPreferences(u, c, on)
          /\ Counts(2)
          /\ UNCHANGED <<busVars, run, process, child, printed, read, active, stopping, stopped, heard>>

WorkNext ==
    \/ Input
    \/ \E r \in Run :
         \/ Popen(r) \/ Registered(r) \/ ReadLine(r) \/ FireLine(r) \/ FireDone(r) \/ FireEnds(r)
         \/ Undecodable(r) \/ Forward(r) \/ Handle(r) \/ Prints(r) \/ Exit(r) \/ ChildExits(r) \/ StopEnds(r)
    \/ (SubscriberStep \/ \E p \in Delivery : Deliver(p)) /\ UNCHANGED <<busVars, runVars>>

WorkSpec == WorkInit /\ [][WorkNext]_workVars

-----------------------------------------------------------------------------
(* Properties.                                                             *)

\* The client hears the lines of a run in the order they were printed, each once
\* but for those dropped while its queue was full (events.py:69-73), and hears
\* that it is done when there is nothing left to print or to read, whoever stopped
\* the run and whatever still held its output (test_runner.py:98-127).
OutputIsComplete ==
    \A r \in Run :
      /\ \A i \in DOMAIN heard[r] : heard[r][i] \in {Line(r, i), Done(r), Missed}
      /\ Done(r) \in ToSet(heard[r]) =>
           /\ Last(heard[r]) = Done(r) /\ Len(heard[r]) = printed[r] + 1
           /\ ~Open(r)

\* When a run has ended every handler of its last event has had it: the forwarder,
\* after all lines, whether or not the client has room for it; the audit log and
\* the plugins, whichever of them failed (dispatch.py:49-61).
EveryHandlerRuns ==
    \A r \in Run : run[r] = "ended" =>
      /\ Len(heard[r]) = printed[r] + 1 /\ Last(heard[r]) \in {Done(r), Missed}
      /\ Done(r) \in auditLog \/ <<Audit, Done(r)>> \in failed
      /\ \A p \in Plugin : Done(r).type \in Subscribed[p] =>
           <<p, Done(r)>> \in called \/ cache[p] = "failed"

=============================================================================
