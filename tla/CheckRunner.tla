----------------------------- MODULE CheckRunner -----------------------------
(***************************************************************************)
(* checks/registry.py and checks/runner.py: the checks of one group, the   *)
(* order in which run_group executes them, and the processes they start    *)
(* through run_command.                                                    *)
(*                                                                         *)
(* Checks are registered while their modules are imported.  run_group      *)
(* sorts them into waves, gathers the checks of a wave and goes on when    *)
(* all of them have ended.  A check calls a function of a plugin, modelled *)
(* as one run_command and any result; its process may leave descendants    *)
(* that hold the pipes it was given (others would change nothing here).    *)
(* Checks time out, and whoever awaits run_group may cancel it at any time. *)
(***************************************************************************)
CONSTANTS
    Check,           \* the names that may be registered
    Unknown,         \* a name nothing is registered under
    Misname          \* the names a function may return instead of its own

ASSUME ChecksAssumption ==
    /\ Unknown \notin Check
    /\ Misname \subseteq Check \cup {Unknown}

VARIABLES
    entries,         \* the names registered in the group
    deps,            \* depends_on of every entry
    advisory,        \* the advisory entries
    phase,           \* how far run_group has come
    begun,           \* the checks of the waves that have been started
    wave,            \* those of the last of these waves
    at,              \* where every check is
    proc,            \* the process of its command
    held,            \* descendants of that process hold its pipes
    result,          \* what the check has returned
    completed,       \* the outcomes run_group has collected, by name
    ran,             \* the checks whose function has been called
    cancelled        \* run_group has been cancelled

registry == <<entries, deps, advisory>>
tasks == <<at, proc, held, result, ran>>
group == <<phase, begun, wave, completed, cancelled>>
vars == <<registry, tasks, group>>

Name == Check \cup {Unknown}
Outcome == {"pass", "fail", "skip", "timeout"}
NoResult == [name |-> Unknown, outcome |-> "none"]
Ended == {"done", "raised", "cancelled"}

Init ==
    /\ entries = {} /\ advisory = {}
    /\ deps = [c \in Check |-> {}]
    /\ phase = "import" /\ begun = {} /\ wave = {} /\ cancelled = FALSE
    /\ at = [c \in Check |-> "no"]
    /\ proc = [c \in Check |-> "none"]
    /\ held = [c \in Check |-> FALSE]
    /\ result = [c \in Check |-> NoResult]
    /\ completed = [c \in Check |-> "none"]
    /\ ran = {}

-----------------------------------------------------------------------------
(* Registration, at import.                                                *)

Register(c) ==
    /\ phase = "import" /\ c \notin entries
    /\ entries' = entries \cup {c}
    /\ \E d \in SUBSET Name : deps' = [deps EXCEPT ![c] = d]
    /\ advisory' \in {advisory, advisory \cup {c}}
    /\ UNCHANGED <<tasks, group>>

\* A second check of the same name: ValueError out of the import.
RegisterAgain(c) ==
    /\ phase = "import" /\ c \in entries
    /\ phase' = "raised"
    /\ UNCHANGED <<registry, tasks, begun, wave, completed, cancelled>>

-----------------------------------------------------------------------------
(* The order: a check is in the first wave after all of its dependencies.  *)

\* The next wave, after those of the checks in done.
Ready(done) == {c \in entries \ done : deps[c] \subseteq done}

\* A cycle leaves checks of which none can be the next; nothing else does.
Acyclic == \A rest \in SUBSET entries : rest # {} => \E c \in rest : deps[c] \cap rest = {}

\* A dependency outside the group or a cycle: nothing is run.
Valid == (\A c \in entries : deps[c] \subseteq entries) /\ Acyclic

RunGroup ==
    /\ phase = "import"
    /\ phase' = IF Valid THEN "between" ELSE "raised"
    /\ UNCHANGED <<registry, tasks, begun, wave, completed, cancelled>>

-----------------------------------------------------------------------------
(* One wave: all of its checks are gathered.                               *)

MoreWaves == Ready(begun) # {}

StartWave ==
    /\ phase = "between" /\ MoreWaves
    /\ phase' = "wave" /\ wave' = Ready(begun) /\ begun' = begun \cup wave'
    /\ at' = [c \in Check |-> IF c \in wave' THEN "new" ELSE at[c]]
    /\ UNCHANGED <<registry, proc, held, result, ran, completed, cancelled>>

Over == \A c \in wave : at[c] = "ended"

\* The outcomes are stored under the names the checks have returned; of two
\* checks that return the same name the later one stays.
WaveEnds ==
    /\ phase = "wave" /\ Over /\ ~cancelled
    /\ phase' = "between"
    /\ \E f \in [Check -> Outcome \cup {"none"}] :
         /\ \A n \in Check :
              LET given == {result[c].outcome : c \in {x \in wave : result[x].name = n}}
              IN  f[n] \in IF given = {} THEN {completed[n]} ELSE given
         /\ completed' = f
    /\ UNCHANGED <<registry, tasks, begun, wave, cancelled>>

\* gather raises CancelledError once every check of the wave has ended.
CancelEnds ==
    /\ phase = "wave" /\ Over /\ cancelled
    /\ phase' = "cancelled"
    /\ UNCHANGED <<registry, tasks, begun, wave, completed, cancelled>>

\* The report takes the result of every entry by name: KeyError when there is none.
Report ==
    /\ phase = "between" /\ ~MoreWaves
    /\ phase' = IF \A c \in entries : completed[c] # "none" THEN "done" ELSE "raised"
    /\ UNCHANGED <<registry, tasks, begun, wave, completed, cancelled>>

\* GroupReport.ok; mutant of Ok: timeouts do not count.
OkButTimeouts == \A c \in entries : completed[c] # "fail" \/ c \in advisory
Ok == \A c \in entries : completed[c] \notin {"fail", "timeout"} \/ c \in advisory

-----------------------------------------------------------------------------
(* One check.                                                              *)

\* A check ends with outcome o under name n.
Ends(c, n, o) ==
    /\ at' = [at EXCEPT ![c] = "ended"]
    /\ result' = [result EXCEPT ![c] = [name |-> n, outcome |-> o]]

\* The function of c returns a result.
Returns(c) == \E n \in {c} \cup Misname, o \in Outcome \ {"timeout"} : Ends(c, n, o)

\* Mutant of Blocking: only a failure holds a dependent back.
BlockingFailed(c) == {d \in deps[c] \ advisory : completed[d] = "fail"}

\* The dependencies that keep c from being run.
Blocking(c) == {d \in deps[c] \ advisory : completed[d] \notin {"pass", "none"}}

Skip(c) ==
    /\ at[c] = "new" /\ Blocking(c) # {}
    /\ Ends(c, c, "skip")
    /\ UNCHANGED <<registry, group, proc, held, ran>>

\* The process runs from here on: the library kills one whose creation is
\* cancelled, as run_command does.
Call(c) ==
    /\ at[c] = "new" /\ Blocking(c) = {}
    /\ at' = [at EXCEPT ![c] = "run"]
    /\ proc' = [proc EXCEPT ![c] = "running"]
    /\ ran' = ran \cup {c}
    /\ UNCHANGED <<registry, group, held, result>>

\* communicate() returns when the process has exited and nobody holds its pipes;
\* the function then returns what it likes, under a name it likes, or raises.
Communicated(c) ==
    /\ at[c] = "run" /\ proc[c] = "over" /\ ~held[c]
    /\ Returns(c) \/ Ends(c, c, "fail")
    /\ UNCHANGED <<registry, group, proc, held, ran>>

\* _kill_process_tree: nothing when the process itself has exited, else the
\* whole group.
KillTree(C) ==
    LET alive == {c \in C : proc[c] = "running"}
    IN  /\ proc' = [c \in Check |-> IF c \in alive THEN "over" ELSE proc[c]]
        /\ held' = [c \in Check |-> c \notin alive /\ held[c]]

\* The time limit of the command or of the whole check.
TimesOut(c) ==
    /\ at[c] = "run"
    /\ KillTree({c})
    /\ at' = [at EXCEPT ![c] = "reap"]
    /\ UNCHANGED <<registry, group, result, ran>>

\* The process has been waited for; a function that catches the time limit of
\* its own command goes on to a result of its own.
Reaped(c) ==
    /\ at[c] = "reap"
    /\ \/ Ends(c, c, "timeout")
       \/ ~cancelled /\ Returns(c)
    /\ UNCHANGED <<registry, group, proc, held, ran>>

\* Mutant of Cancel: the processes are left to themselves.
CancelOnly ==
    /\ phase = "wave" /\ ~cancelled
    /\ cancelled' = TRUE
    /\ at' = [c \in Check |-> CASE at[c] = "new" -> "ended"
                                [] at[c] = "run" -> "reap"
                                [] OTHER -> at[c]]
    /\ UNCHANGED <<registry, phase, begun, wave, completed, proc, held, result, ran>>

\* Whoever awaits run_group is cancelled, and with it every check of the wave:
\* one that has not begun never does, the others kill their process.  In
\* _run_check the cancel looks like a timeout.
Cancel ==
    /\ phase = "wave" /\ ~cancelled
    /\ cancelled' = TRUE
    /\ at' = [c \in Check |-> CASE at[c] = "new" -> "ended"
                                [] at[c] = "run" -> "reap"
                                [] OTHER -> at[c]]
    /\ KillTree({c \in Check : at[c] = "run"})
    /\ UNCHANGED <<registry, phase, begun, wave, completed, result, ran>>

-----------------------------------------------------------------------------
(* The commands themselves (external): a process may start others and exit *)
(* while they run.                                                         *)

Forks(c) ==
    /\ proc[c] = "running" /\ ~held[c]
    /\ held' = [held EXCEPT ![c] = TRUE]
    /\ UNCHANGED <<registry, group, at, proc, result, ran>>

Exits(c) ==
    /\ proc[c] = "running"
    /\ proc' = [proc EXCEPT ![c] = "over"]
    /\ UNCHANGED <<registry, group, at, held, result, ran>>

LetGo(c) ==
    /\ held[c]
    /\ held' = [held EXCEPT ![c] = FALSE]
    /\ UNCHANGED <<registry, group, at, proc, result, ran>>

-----------------------------------------------------------------------------
Runs(c) == Skip(c) \/ Call(c) \/ Communicated(c) \/ TimesOut(c) \/ Reaped(c)
Group == StartWave \/ WaveEnds \/ CancelEnds \/ Report

Next ==
    \/ RunGroup \/ Group \/ Cancel
    \/ \E c \in Check :
         \/ Register(c) \/ RegisterAgain(c)
         \/ Runs(c)
         \/ Forks(c) \/ Exits(c) \/ LetGo(c)

Spec == Init /\ [][Next]_vars

-----------------------------------------------------------------------------
(* Properties.                                                             *)

\* Every variable has its type.
TypeOK ==
    /\ entries \subseteq Check /\ advisory \subseteq entries
    /\ deps \in [Check -> SUBSET Name]
    /\ phase \in {"import", "between", "wave"} \cup Ended
    /\ begun \subseteq entries /\ wave \subseteq begun
    /\ at \in [Check -> {"no", "new", "run", "reap", "ended"}]
    /\ proc \in [Check -> {"none", "running", "over"}]
    /\ held \in [Check -> BOOLEAN]
    /\ result \in [Check -> [name : Name, outcome : Outcome] \cup {NoResult}]
    /\ completed \in [Check -> Outcome \cup {"none"}]
    /\ ran \subseteq entries /\ cancelled \in BOOLEAN

\* No check has returned a result under the name of another.
Honest == \A c \in Check : result[c].name \in {c, Unknown}

\* The function of a check is called after everything the check depends on has
\* ended, and only if every dependency that is not advisory has passed: one that
\* failed, timed out, or was itself skipped holds it back, however the checks of
\* a wave interleave.  A result under a wrong name is not seen (runner.py:239).
RunsAfterDependencies ==
    \A c \in ran : \A d \in deps[c] :
        /\ at[d] = "ended"
        /\ Honest /\ d \notin advisory /\ result[d].name = d => result[d].outcome = "pass"

\* A group that is reported ok has run every check, but those that depend on a
\* check which is not advisory and skipped: a failure or a timeout never hides
\* behind the checks it has kept from running (result.py:81).
VerdictIsEarned ==
    phase = "done" /\ Ok /\ (\A c \in entries : result[c].name = c) =>
        \A c \in entries \ ran : \E d \in deps[c] \ advisory : result[d].outcome = "skip"

\* When run_group has returned, raised or been cancelled, the process of every
\* command it started has exited or been killed (runner.py:95).
NoCommandSurvives == phase \in Ended => \A c \in Check : proc[c] # "running"

=============================================================================
