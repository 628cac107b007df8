--------------------------- MODULE AgentSessions ---------------------------
(***************************************************************************)
(* serve/agent_dispatch.py with serve/agent_sessions.py, serve/questions.py *)
(* and the agent operations of serve/agent_ops.py.                         *)
(*                                                                         *)
(* A call of dispatch_task_agent runs one claude process for one session.  *)
(* The session is shared: the endpoint that made it, the call, the cancel  *)
(* endpoint, the hooks of the process and the next start of the server all *)
(* write its status, its entry in the process table or its questions.  An  *)
(* action is what runs between two awaits; at[d] is the await of call d.   *)
(* Sessions and questions are saved at every change, in the same step, so  *)
(* one copy of each stands for memory and file.                            *)
(***************************************************************************)
EXTENDS Integers, FiniteSets

CONSTANTS
  Call,         \* calls of dispatch_task_agent
  Hook,         \* hook requests under way at a time
  Who,          \* role, user and branch a session is made for
  MaxSession,   \* sessions that fit in the model
  MaxQuestions, \* pending questions of a session that fit in the model
  None,
  Faults        \* what may go wrong beyond the documented error paths

AllFaults == {"unwritten", "raise", "cancel", "crash"}

ASSUME ConstantsAssumption ==
  /\ MaxSession \in Nat /\ MaxQuestions \in Nat
  /\ Faults \subseteq AllFaults
  /\ None \notin Call \cup Who \cup Nat

(* Sessions in the order of created_at. *)
Session == 1..MaxSession

VARIABLES
  status,    \* session -> its status, "none" before create_session
  who,       \* session -> whom it was made for
  at,        \* call -> its await
  by,        \* call -> the role, user and branch it was made with
  planned,   \* the calls a plan node or the strategist made
  mine,      \* call -> the session it runs, the one just made before it runs
  child,     \* call -> its claude process
  process,   \* _processes: session -> the call whose process is registered
  pending,   \* session -> number of its pending questions
  hook       \* hook request -> the session it awaits the broadcast for

vars == <<status, who, at, by, planned, mine, child, process, pending, hook>>
callVars == <<who, by, planned>>

-----------------------------------------------------------------------------

Active == {"pending", "running"}
Ended == {"completed", "failed", "cancelled"}

(* created: the task waits for its first turn; spawn: the broadcast and    *)
(* create_subprocess_exec; stream: wait_for(gather(...)); term: the ten    *)
(* seconds after terminate(); report: the broadcast of agent.run.DONE.     *)
(* A call ends as done, lost (an exception or a cancel went through it),   *)
(* dropped (the server stopped) or unwritten (no configuration file could  *)
(* be written, so it left its session to others).                          *)
Running == {"spawn", "stream", "term"}
Awaits == {"idle", "created", "report", "done", "lost",
            "unwritten", "dropped"} \cup Running

(* told: SIGTERM was sent, which claude may ignore. *)
Alive == {"alive", "told"}
Exited == {"ok", "error"}

TypeOK ==
  /\ status \in [Session -> {"none"} \cup Active \cup Ended]
  /\ who \in [Session -> Who \cup {None}]
  /\ at \in [Call -> Awaits]
  /\ by \in [Call -> Who \cup {None}]
  /\ planned \subseteq Call
  /\ mine \in [Call -> Session \cup {None}]
  /\ child \in [Call -> {"none"} \cup Alive \cup Exited]
  /\ process \in [Session -> Call \cup {None}]
  /\ pending \in [Session -> 0..MaxQuestions]
  /\ hook \in [Hook -> Session \cup {None}]

Init ==
  /\ status = [s \in Session |-> "none"]
  /\ who = [s \in Session |-> None]
  /\ at = [d \in Call |-> "idle"]
  /\ by = [d \in Call |-> None]
  /\ planned = {}
  /\ mine = [d \in Call |-> None]
  /\ child = [d \in Call |-> "none"]
  /\ process = [s \in Session |-> None]
  /\ pending = [s \in Session |-> 0]
  /\ hook = [h \in Hook |-> None]

-----------------------------------------------------------------------------
(* Small steps.                                                            *)

Goto(d, l) == at' = [at EXCEPT ![d] = l]
Child(d, c) == child' = [child EXCEPT ![d] = c]

(* create_session. *)
IsNext(s) == /\ status[s] = "none"
             /\ \A r \in Session : r < s => status[r] # "none"
Created(s, w, st) ==
  /\ IsNext(s)
  /\ status' = [status EXCEPT ![s] = st]
  /\ who' = [who EXCEPT ![s] = w]

(* QuestionStore: create; find_pending_by_session and mark_answered;       *)
(* mark_session_questions_answered.                                        *)
AddQuestion(s) == pending' = [pending EXCEPT ![s] = @ + 1]
AnswerOne(s) == pending' = [pending EXCEPT ![s] = @ - 1]
AnswerAll(s) == pending' = [pending EXCEPT ![s] = 0]

(* update_status with a final status, and no question left. *)
Close(s, st) == status' = [status EXCEPT ![s] = st] /\ AnswerAll(s)

(* The finally clause: the entry of the session leaves the process table.  *)
Unregister(s) == process' = [process EXCEPT ![s] = None]

Terminated(c) == IF c = "alive" THEN "told" ELSE c

-----------------------------------------------------------------------------
(* dispatch_task_agent                                                     *)

(* The session just made is not the one the call will take: it looks for   *)
(* a pending session of its role, user and branch, the newest first.       *)
Pending(w) == {s \in Session : status[s] = "pending" /\ who[s] = w}

(* Mutant of Matches: any session under way will do. *)
MatchesActive(s, w) ==
  /\ status[s] \in Active /\ who[s] = w
  /\ \A r \in Session : r > s /\ status[r] \in Active => who[r] # w

Matches(s, w) ==
  /\ s \in Pending(w)
  /\ \A r \in Pending(w) : r <= s

(* The endpoint: create_session and create_task. *)
Dispatch(d, w) ==
  /\ at[d] = "idle"
  /\ \E s \in Session :
       /\ Created(s, w, "pending")
       /\ mine' = [mine EXCEPT ![d] = s]
  /\ by' = [by EXCEPT ![d] = w]
  /\ Goto(d, "created")
  /\ UNCHANGED <<planned, child, process, pending, hook>>

(* Up to the first await: the session is taken, or made, and runs. *)
Take(d, w) ==
  /\ by' = [by EXCEPT ![d] = w]
  /\ \E s \in Session :
       /\ mine' = [mine EXCEPT ![d] = s]
       /\ \/ /\ Matches(s, w)
             /\ status' = [status EXCEPT ![s] = "running"] /\ UNCHANGED who
          \/ /\ Pending(w) = {}
             /\ Created(s, w, "running")
  /\ Goto(d, "spawn")
  /\ UNCHANGED <<child, process, pending, hook>>

(* mkstemp or the write of the MCP config raises, before the try: the      *)
(* session the call has taken or made stays pending.                       *)
TakeUnwritten(d, w) ==
  /\ "unwritten" \in Faults
  /\ by' = [by EXCEPT ![d] = w]
  /\ mine' = [mine EXCEPT ![d] = None]
  /\ \/ Pending(w) # {} /\ UNCHANGED <<status, who>>
     \/ Pending(w) = {} /\ \E s \in Session : Created(s, w, "pending")
  /\ Goto(d, "unwritten")
  /\ UNCHANGED <<child, process, pending, hook>>

(* The task of the endpoint gets its turn. *)
Start(d) ==
  /\ at[d] = "created"
  /\ Take(d, by[d]) \/ TakeUnwritten(d, by[d])
  /\ UNCHANGED planned

(* A plan node awaits the call directly; no session was made for it. *)
StartPlanned(d, w) ==
  /\ at[d] = "idle"
  /\ Take(d, w) \/ TakeUnwritten(d, w)
  /\ planned' = planned \cup {d}

(* create_subprocess_exec returns, whatever became of the session. *)
Spawned(d) ==
  /\ at[d] = "spawn"
  /\ Child(d, "alive")
  /\ process' = [process EXCEPT ![mine[d]] = d]
  /\ Goto(d, "stream")
  /\ UNCHANGED <<callVars, status, mine, pending, hook>>

(* Mutant of NotFound: the session is forgotten. *)
NotFoundUnmarked(d) ==
  /\ at[d] = "spawn"
  /\ Goto(d, "report")
  /\ UNCHANGED <<callVars, status, mine, child, process, pending, hook>>

(* FileNotFoundError: no claude on PATH. *)
NotFound(d) ==
  /\ at[d] = "spawn"
  /\ Close(mine[d], "failed")
  /\ Goto(d, "report")
  /\ UNCHANGED <<callVars, mine, child, process, hook>>

(* Mutant of Outcome: the status is not looked at again. *)
OutcomeOfExit(d) == IF child[d] = "ok" THEN "completed" ELSE "failed"

Outcome(d) ==
  CASE status[mine[d]] = "cancelled" -> "cancelled"
    [] status[mine[d]] # "cancelled" /\ child[d] = "ok" -> "completed"
    [] OTHER -> "failed"

(* The output is read and the process has exited. *)
Finished(d) ==
  /\ at[d] = "stream" /\ child[d] \in Exited
  /\ Close(mine[d], Outcome(d))
  /\ Goto(d, "report")
  /\ UNCHANGED <<callVars, mine, child, process, hook>>

(* The timeout; a grandchild may hold the pipe of a process that exited.   *)
TimesOut(d) ==
  /\ at[d] = "stream"
  /\ Child(d, Terminated(child[d]))
  /\ Goto(d, "term")
  /\ UNCHANGED <<callVars, status, mine, process, pending, hook>>

(* The process exited within ten seconds or is killed. *)
Killed(d) ==
  /\ at[d] = "term"
  /\ Child(d, IF child[d] \in Exited THEN child[d] ELSE "error")
  /\ Close(mine[d], "failed")
  /\ Goto(d, "report")
  /\ UNCHANGED <<callVars, mine, process, hook>>

(* The broadcast is done: the finally clause. *)
Reported(d) ==
  /\ at[d] = "report"
  /\ Unregister(mine[d])
  /\ Goto(d, "done")
  /\ UNCHANGED <<callVars, status, mine, child, pending, hook>>

(* Any other exception while the process is made or read, such as a line   *)
(* of output longer than the limit of the stream, or a cancel of the plan  *)
(* the call belongs to: only the finally clause runs.  A process that is   *)
(* being made is killed by asyncio, one that runs goes on.                 *)
Raises(d) ==
  /\ \/ "raise" \in Faults /\ at[d] \in {"spawn", "stream"}
     \/ "cancel" \in Faults /\ d \in planned /\ at[d] \in Running \cup {"report"}
  /\ Unregister(mine[d])
  /\ Goto(d, IF at[d] = "report" THEN "done" ELSE "lost")
  /\ UNCHANGED <<callVars, status, mine, child, pending, hook>>

-----------------------------------------------------------------------------
(* The claude process.                                                     *)

Exits(d) ==
  /\ child[d] \in Alive
  /\ \E c \in Exited : Child(d, c)
  /\ UNCHANGED <<callVars, status, at, mine, process, pending, hook>>

(* The ask_user tool of the process posts a question for its session. *)
Asks(d) ==
  /\ child[d] \in Alive /\ pending[mine[d]] < MaxQuestions
  /\ AddQuestion(mine[d])
  /\ UNCHANGED <<callVars, status, at, mine, child, process, hook>>

(* process_agent_hook with an ask_user event: the session is known, the    *)
(* event is broadcast ...                                                  *)
HookReceived(h, d) ==
  /\ child[d] \in Alive /\ hook[h] = None
  /\ hook' = [hook EXCEPT ![h] = mine[d]]
  /\ UNCHANGED <<callVars, status, at, mine, child, process, pending>>

(* ... and the question made, whatever became of the session meanwhile. *)
HookStored(h) ==
  /\ hook[h] # None /\ pending[hook[h]] < MaxQuestions
  /\ AddQuestion(hook[h])
  /\ hook' = [hook EXCEPT ![h] = None]
  /\ UNCHANGED <<callVars, status, at, mine, child, process>>

-----------------------------------------------------------------------------
(* The other endpoints and the server.                                     *)

(* AgentSessionManager.cancel_session: the process it knows is told.       *)
CancelSession(s) ==
  /\ child' = [d \in Call |-> IF process[s] = d THEN Terminated(child[d]) ELSE child[d]]
  /\ Close(s, "cancelled")
  /\ Unregister(s)

(* cancel_agent_session; no client knows a session before the task made    *)
(* with it has had its turn.                                               *)
Cancel(s) ==
  /\ status[s] \in Active
  /\ \A d \in Call : at[d] = "created" => mine[d] # s
  /\ CancelSession(s)
  /\ UNCHANGED <<callVars, at, mine, hook>>

(* answer_agent_question, when the session has a question. *)
Answer(s) ==
  /\ status[s] = "running" /\ pending[s] > 0
  /\ AnswerOne(s)
  /\ UNCHANGED <<callVars, status, at, mine, child, process, hook>>

(* Mutant of Restarted: only what had not begun. *)
RestartedPending(s) == IF status[s] = "pending" THEN "failed" ELSE status[s]

Restarted(s) == IF status[s] \in Active THEN "failed" ELSE status[s]

(* The server stops at any point and starts again: the sessions it knows   *)
(* as active have failed, the questions are read as they are; what was     *)
(* started as a process may live on.                                       *)
Crash ==
  /\ "crash" \in Faults
  /\ status' = [s \in Session |-> Restarted(s)]
  /\ at' = [d \in Call |->
             IF at[d] \in {"created", "report"} \cup Running THEN "dropped" ELSE at[d]]
  /\ mine' = [d \in Call |-> IF at[d] = "created" THEN None ELSE mine[d]]
  /\ process' = [s \in Session |-> None]
  /\ hook' = [h \in Hook |-> None]
  /\ UNCHANGED <<callVars, child, pending>>

-----------------------------------------------------------------------------

CallStep(d) ==
  \/ Start(d) \/ Spawned(d) \/ NotFound(d) \/ Finished(d)
  \/ TimesOut(d) \/ Killed(d) \/ Reported(d) \/ Raises(d)

Next ==
  \/ \E d \in Call, w \in Who : Dispatch(d, w) \/ StartPlanned(d, w)
  \/ \E d \in Call : CallStep(d) \/ Exits(d) \/ Asks(d)
  \/ \E h \in Hook, d \in Call : HookReceived(h, d)
  \/ \E h \in Hook : HookStored(h)
  \/ \E s \in Session : Cancel(s) \/ Answer(s)
  \/ Crash

(* The event loop gives every task its turn, create_subprocess_exec        *)
(* returns, and the timeout ends a process that does not.  Nothing is      *)
(* assumed of the process, the clients or the hooks.                       *)
Fairness == \A d \in Call : WF_vars(CallStep(d))

Spec == Init /\ [][Next]_vars /\ Fairness

-----------------------------------------------------------------------------
(* Safety.                                                                 *)

Taken(d) == at[d] # "created" /\ mine[d] # None

(* A call that has taken a session is the only one that ever does, and     *)
(* took it from its own role, user and branch: dispatches that start       *)
(* together may swap their sessions, but two processes never write to one. *)
OneCallPerSession ==
  \A d \in Call : Taken(d) =>
    /\ mine[d] \in Session /\ who[mine[d]] = by[d]
    /\ \A e \in Call \ {d} : Taken(e) => mine[e] # mine[d]

(* A pending session has a dispatch to come that will take it, however     *)
(* the tasks of the endpoint and the plan nodes take sessions from each    *)
(* other; only a call that could not write its configuration leaves one.   *)
PendingIsDue ==
  \A w \in Who :
    Cardinality(Pending(w)) <=
      Cardinality({d \in Call : by[d] = w /\ at[d] \in {"created", "unwritten"}})

(* The status the dashboard shows agrees with the call that runs it: a     *)
(* session says running only while its call is under way or was lost, and  *)
(* a call under way finds it running or cancelled, never ended otherwise.  *)
StatusAgrees ==
  /\ \A s \in Session : status[s] = "running" =>
       \E d \in Call : Taken(d) /\ mine[d] = s /\ at[d] \in Running \cup {"lost"}
  /\ \A d \in Call :
       /\ at[d] \in Running => status[mine[d]] \in {"running", "cancelled"}
       /\ at[d] \in {"report", "done"} => status[mine[d]] \in Ended

(* From the moment a process can be stopped until its call ends, a cancel  *)
(* of its running session finds it in the process table; and the table     *)
(* holds nothing else than the process of a call that still tends it.      *)
CancelFindsProcess ==
  /\ \A d \in Call : at[d] \in {"stream", "term"} /\ status[mine[d]] = "running"
       => process[mine[d]] = d
  /\ \A s \in Session : process[s] # None =>
       mine[process[s]] = s /\ at[process[s]] \in {"stream", "term", "report"}

(* A session is completed only by the process of its own call, when that   *)
(* process ended without an error.                                         *)
CompletedExited ==
  \A s \in Session : status[s] = "completed" =>
    \E d \in Call : Taken(d) /\ mine[d] = s /\ child[d] = "ok"

(* What a session came to is what it stays: nothing completed or failed    *)
(* changes again, not even by a cancel or a restart.  A cancelled session  *)
(* may still turn out to have failed, by a timeout or a missing claude.    *)
OutcomeStays ==
  [][\A s \in Session :
       /\ status[s] \in {"completed", "failed"} => status'[s] = status[s]
       /\ status[s] = "cancelled" => status'[s] \in {"cancelled", "failed"}]_vars

-----------------------------------------------------------------------------
(* Liveness.                                                               *)

(* Every session somebody asked for ends: it does not stay pending while   *)
(* others are taken in its place, nor running whatever its process does,   *)
(* unless an exception, a cancel of its plan or a full disk is met.        *)
SessionsEnd ==
  \A s \in Session :
    status[s] \in Active ~>
      \/ status[s] \in Ended
      \/ \E d \in Call : at[d] = "lost" /\ mine[d] = s
      \/ \E d \in Call : at[d] = "unwritten" /\ by[d] = who[s]

(* No process outlives the call that tends it: it exits, if need be killed *)
(* after the timeout, unless the call is lost or the server stops.         *)
ProcessesEnd ==
  \A d \in Call : child[d] \in Alive ~> child[d] \in Exited \/ at[d] \in {"lost", "dropped"}

=============================================================================
