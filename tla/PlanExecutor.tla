---------------------------- MODULE PlanExecutor ----------------------------
(***************************************************************************)
(* serve/plan_executor.py with serve/plan_schema.py and the plan           *)
(* operations of serve/conductor_ops.py, for the plans of one branch.      *)
(*                                                                         *)
(* Every executor is an asyncio task that works on a plan object of its    *)
(* own, loaded when it was started, and saves that object whole; the       *)
(* endpoints load another object from the file, change it and save it.     *)
(* The two meet only in the file, which is what the model keeps apart:     *)
(* mem[e] is the object of executor e, disk[p] the file.  An action is     *)
(* what happens between two awaits, co[e][n] the await of the coroutine    *)
(* that runs node n.                                                       *)
(***************************************************************************)
EXTENDS Integers, FiniteSets

CONSTANTS
  Plan,      \* plan ids
  Node,      \* node ids, the same DAG in every plan
  Exec,      \* pool of executor tasks
  None,
  Type,      \* [Node -> Types]
  Deps,      \* [Node -> SUBSET Node], depends_on
  IfTrue,    \* [Node -> Node \cup {None}], if_true of a condition
  IfFalse,   \* [Node -> Node \cup {None}], if_false of a condition
  OnFailure, \* the conditions worded with a failure keyword
  Requests   \* the requests of the clients, and "crash"

Types == {"task", "condition", "gate", "loop"}
AllRequests == {"execute", "pause", "delete", "answer", "crash"}

ASSUME ConstantsAssumption ==
  /\ Type \in [Node -> Types]
  /\ Deps \in [Node -> SUBSET Node]
  /\ IfTrue \in [Node -> Node \cup {None}]
  /\ IfFalse \in [Node -> Node \cup {None}]
  /\ OnFailure \subseteq Node
  /\ Requests \subseteq AllRequests
  /\ None \notin Plan \cup Node \cup Exec

(* The nodes a condition chooses between depend on it.  Nothing checks the *)
(* strategist's answer for it, so it is a premise where it is needed.      *)
BranchesDepend ==
  \A n \in Node : Type[n] = "condition" =>
    \A m \in {IfTrue[n], IfFalse[n]} \ {None} : n \in Deps[m]

VARIABLES
  disk,      \* plan -> the plan in its file, or None when there is no file
  runner,    \* _running_tasks: plan -> its executor that is not done, or None
  plan,      \* executor -> the plan it runs, or None
  mem,       \* executor -> its plan object
  main,      \* executor -> the await of execute_plan
  co,        \* executor -> node -> the await of the coroutine of the node
  gate,      \* _gate_events: plan -> node -> the executor that waits, or None
  cancelled  \* executors whose task.cancel() was called

vars == <<disk, runner, plan, mem, main, co, gate, cancelled>>

-----------------------------------------------------------------------------

NodeStatus == {"pending", "running", "waiting", "completed", "failed", "skipped"}
PlanStatus == {"pending", "running", "paused", "completed", "failed"}

(* out: the gates whose answer is stored as the output of the node. *)
Copies == [status : PlanStatus, node : [Node -> NodeStatus], out : SUBSET Node]

Fresh == [status |-> "pending", node |-> [n \in Node |-> "pending"], out |-> {}]

NoCo == [n \in Node |-> "none"]

TypeOK ==
  /\ disk \in [Plan -> Copies \cup {None}]
  /\ runner \in [Plan -> Exec \cup {None}]
  /\ plan \in [Exec -> Plan \cup {None}]
  /\ mem \in [Exec -> Copies]
  /\ main \in [Exec -> {"idle", "new", "loop", "gather", "last"}]
  /\ co \in [Exec -> [Node -> {"none", "ready", "work", "ask", "listen",
                               "answered", "save"}]]
  /\ gate \in [Plan -> [Node -> Exec \cup {None}]]
  /\ cancelled \subseteq Exec

(* Plans the strategist has made, none of them run yet. *)
Init ==
  /\ disk = [p \in Plan |-> Fresh]
  /\ runner = [p \in Plan |-> None]
  /\ plan = [e \in Exec |-> None]
  /\ mem = [e \in Exec |-> Fresh]
  /\ main = [e \in Exec |-> "idle"]
  /\ co = [e \in Exec |-> NoCo]
  /\ gate = [p \in Plan |-> [n \in Node |-> None]]
  /\ cancelled = {}

-----------------------------------------------------------------------------
(* Small steps.                                                            *)

Exists(p) == disk[p] # None
With(c, ns, s) == [c EXCEPT !.node = [n \in Node |-> IF n \in ns THEN s ELSE @[n]]]

(* save_plan of the executor's object, over whatever the file holds. *)
Save(e, c) ==
  /\ mem' = [mem EXCEPT ![e] = c]
  /\ disk' = [disk EXCEPT ![plan[e]] = c]

Keep(e, c) == mem' = [mem EXCEPT ![e] = c] /\ UNCHANGED disk

Co(e, n, l) == co' = [co EXCEPT ![e][n] = l]
Goto(e, l) == main' = [main EXCEPT ![e] = l]

(* The executor task is done; its slot of the pool is free. *)
Leave(e) ==
  /\ Goto(e, "idle")
  /\ plan' = [plan EXCEPT ![e] = None]
  /\ runner' = [p \in Plan |-> IF runner[p] = e THEN None ELSE runner[p]]
  /\ cancelled' = cancelled \ {e}
  /\ mem' = [mem EXCEPT ![e] = Fresh]

Runs(e) == e \notin cancelled

(* Mutant of Ready: a dependency that has ended is enough. *)
ReadyAfterAny(c) ==
  {n \in Node : c.node[n] = "pending"
                /\ \A d \in Deps[n] : c.node[d] \in {"completed", "failed"}}

(* ready_nodes *)
Ready(c) ==
  {n \in Node : c.node[n] = "pending" /\ \A d \in Deps[n] : c.node[d] = "completed"}

StatusIn(c, s) == {n \in Node : c.node[n] = s}

-----------------------------------------------------------------------------
(* The endpoints.                                                          *)

(* start_plan and resume_plan: refused while the file of a plan with a live *)
(* executor says "running".                                                *)
StartPlan(p, e) ==
  /\ \A q \in Plan : runner[q] # None =>
       ~(Exists(q) /\ disk[q].status = "running")
  /\ main[e] = "idle"
  /\ Goto(e, "new")
  /\ plan' = [plan EXCEPT ![e] = p]
  /\ mem' = [mem EXCEPT ![e] = disk[p]]
  /\ runner' = [runner EXCEPT ![p] = e]

(* op_execute_plan and op_resume_plan: the executor gets the object read.  *)
Execute(p, e) ==
  /\ "execute" \in Requests
  /\ Exists(p) /\ disk[p].status \in {"pending", "paused"}
  /\ StartPlan(p, e)
  /\ UNCHANGED <<disk, co, gate, cancelled>>

(* op_pause_plan: only the file is changed. *)
Pause(p) ==
  /\ "pause" \in Requests
  /\ Exists(p) /\ disk[p].status = "running"
  /\ disk' = [disk EXCEPT ![p].status = "paused"]
  /\ UNCHANGED <<runner, plan, mem, main, co, gate, cancelled>>

(* cancel_plan: the executor is told; the nodes it marks are in a file that *)
(* is removed next.                                                        *)
CancelPlan(p) ==
  /\ cancelled' = cancelled \cup ({runner[p]} \ {None})
  /\ runner' = [runner EXCEPT ![p] = None]

(* op_delete_plan: cancel_plan, then the file is removed.  No session of a *)
(* running node is cancelled: agent_session_id is stored when it has ended. *)
Delete(p) ==
  /\ "delete" \in Requests
  /\ Exists(p)
  /\ CancelPlan(p)
  /\ disk' = [disk EXCEPT ![p] = None]
  /\ UNCHANGED <<plan, mem, main, co, gate>>

(* answer_gate: the event of the gate, if there is one, is set.            *)
AnswerGate(p, n) ==
  co' = IF gate[p][n] = None THEN co ELSE [co EXCEPT ![gate[p][n]][n] = "answered"]

(* op_answer_gate: the answer goes to the file, also when there is no event *)
(* and the request fails.                                                  *)
Answer(p, n) ==
  /\ "answer" \in Requests
  /\ Exists(p) /\ Type[n] = "gate" /\ disk[p].node[n] = "waiting"
  /\ disk' = [disk EXCEPT ![p].out = @ \cup {n}]
  /\ AnswerGate(p, n)
  /\ UNCHANGED <<runner, plan, mem, main, gate, cancelled>>

-----------------------------------------------------------------------------
(* execute_plan                                                            *)

Begin(e) ==
  /\ main[e] = "new" /\ Runs(e)
  /\ Save(e, [mem[e] EXCEPT !.status = "running"])
  /\ Goto(e, "loop")
  /\ UNCHANGED <<runner, plan, co, gate, cancelled>>

(* The checks for "paused" and "failed" at the head of the loop read the   *)
(* executor's own object, which is "running" there.  A node of an unknown  *)
(* type is skipped; the others get a coroutine each.                       *)
Dispatch(e) ==
  LET ready == Ready(mem[e])
      loops == {n \in ready : Type[n] = "loop"}
  IN
  /\ main[e] = "loop" /\ Runs(e)
  /\ ready # {}
  /\ IF loops = {} THEN UNCHANGED <<mem, disk>>
                   ELSE Save(e, With(mem[e], loops, "skipped"))
  /\ co' = [co EXCEPT ![e] = [n \in Node |-> IF n \in ready \ loops
                                             THEN "ready" ELSE "none"]]
  /\ Goto(e, "gather")
  /\ UNCHANGED <<runner, plan, gate, cancelled>>

Gathered(e) ==
  /\ main[e] = "gather" /\ Runs(e)
  /\ co[e] = NoCo
  /\ Goto(e, "loop")
  /\ UNCHANGED <<disk, runner, plan, mem, co, gate, cancelled>>

(* Nothing is ready.  While a node is running or waiting the executor      *)
(* sleeps and looks again, which changes nothing; otherwise the plan ends. *)
Conclude(e) ==
  /\ main[e] = "loop" /\ Runs(e)
  /\ Ready(mem[e]) = {}
  /\ StatusIn(mem[e], "running") \cup StatusIn(mem[e], "waiting") = {}
  /\ Save(e, [mem[e] EXCEPT !.status =
                IF StatusIn(mem[e], "pending") \cup StatusIn(mem[e], "failed") = {}
                THEN "completed" ELSE "failed"])
  /\ Goto(e, "last")
  /\ UNCHANGED <<runner, plan, co, gate, cancelled>>

(* The last broadcast is out. *)
Done(e) ==
  /\ main[e] = "last" /\ Runs(e)
  /\ Leave(e)
  /\ UNCHANGED <<disk, co, gate>>

-----------------------------------------------------------------------------
(* The coroutines of the nodes.                                            *)

NodeBegins(e, n) ==
  /\ co[e][n] = "ready" /\ Runs(e)
  /\ IF Type[n] = "gate"
     THEN Save(e, With(mem[e], {n}, "waiting")) /\ Co(e, n, "ask")
     ELSE Save(e, With(mem[e], {n}, "running")) /\ Co(e, n, "work")
  /\ UNCHANGED <<runner, plan, main, gate, cancelled>>

(* Mutant of TaskEnds: an exception of the agent is dropped. *)
TaskEndsUnmarked(e, n) ==
  /\ Type[n] = "task" /\ co[e][n] = "work" /\ Runs(e)
  /\ Save(e, mem[e]) \/ Save(e, With(mem[e], {n}, "completed"))
  /\ Co(e, n, "none")
  /\ UNCHANGED <<runner, plan, main, gate, cancelled>>

(* dispatch_task_agent returned or raised. *)
TaskEnds(e, n) ==
  /\ Type[n] = "task" /\ co[e][n] = "work" /\ Runs(e)
  /\ \E s \in {"completed", "failed"} : Save(e, With(mem[e], {n}, s))
  /\ Co(e, n, "none")
  /\ UNCHANGED <<runner, plan, main, gate, cancelled>>

(* _evaluate_condition *)
Holds(c, n) ==
  IF n \in OnFailure THEN \E d \in Deps[n] : c.node[d] = "failed"
                     ELSE \A d \in Deps[n] : c.node[d] = "completed"

(* The branch not taken is skipped if it is still pending; the file follows *)
(* after the broadcast.                                                    *)
ConditionEvaluated(e, n) ==
  LET other == IF Holds(mem[e], n) THEN IfFalse[n] ELSE IfTrue[n]
  IN
  /\ Type[n] = "condition" /\ co[e][n] = "work" /\ Runs(e)
  /\ Keep(e, With(With(mem[e], {n}, "completed"),
                  {other} \cap StatusIn(mem[e], "pending"), "skipped"))
  /\ Co(e, n, "save")
  /\ UNCHANGED <<runner, plan, main, gate, cancelled>>

ConditionSaved(e, n) ==
  /\ co[e][n] = "save" /\ Runs(e)
  /\ Save(e, mem[e])
  /\ Co(e, n, "none")
  /\ UNCHANGED <<runner, plan, main, gate, cancelled>>

(* The question is stored and the event created, after two broadcasts. *)
GateListens(e, n) ==
  /\ co[e][n] = "ask" /\ Runs(e)
  /\ gate' = [gate EXCEPT ![plan[e]][n] = e]
  /\ Co(e, n, "listen")
  /\ UNCHANGED <<disk, runner, plan, mem, main, cancelled>>

(* The answer, or 24 hours without one. *)
GateEnds(e, n) ==
  /\ co[e][n] \in {"listen", "answered"} /\ Runs(e)
  /\ Save(e, With(mem[e], {n}, IF co[e][n] = "answered" THEN "completed" ELSE "failed"))
  /\ gate' = [gate EXCEPT ![plan[e]][n] = None]
  /\ Co(e, n, "none")
  /\ UNCHANGED <<runner, plan, main, cancelled>>

-----------------------------------------------------------------------------
(* CancelledError                                                          *)

(* Mutant of NodeCancelled: every active node is marked as failed. *)
NodeCancelledFails(e, n) ==
  /\ co[e][n] # "none" /\ ~Runs(e)
  /\ Keep(e, With(mem[e], {n}, "failed"))
  /\ gate' = [gate EXCEPT ![plan[e]][n] = None]
  /\ Co(e, n, "none")
  /\ UNCHANGED <<runner, plan, main, cancelled>>

(* A coroutine of a cancelled executor ends where it stands: a task or a   *)
(* condition stays "running", a gate that listens is "skipped", one that   *)
(* does not yet stays "waiting".                                           *)
NodeCancelled(e, n) ==
  /\ co[e][n] # "none" /\ ~Runs(e)
  /\ IF co[e][n] \in {"listen", "answered"}
     THEN /\ Keep(e, With(mem[e], {n}, "skipped"))
          /\ gate' = [gate EXCEPT ![plan[e]][n] = None]
     ELSE UNCHANGED <<mem, disk, gate>>
  /\ Co(e, n, "none")
  /\ UNCHANGED <<runner, plan, main, cancelled>>

(* execute_plan itself: "paused", saved over a file that may be gone.  One *)
(* that has not begun never runs.                                          *)
ExecCancelled(e) ==
  /\ main[e] # "idle" /\ ~Runs(e)
  /\ co[e] = NoCo
  /\ disk' = IF main[e] = "new" THEN disk
             ELSE [disk EXCEPT ![plan[e]] = [mem[e] EXCEPT !.status = "paused"]]
  /\ Leave(e)
  /\ UNCHANGED <<co, gate>>

(* The server dies; the files stay as they are, and nothing reads them     *)
(* until the next request.                                                 *)
Crash ==
  /\ "crash" \in Requests
  /\ runner' = [p \in Plan |-> None]
  /\ plan' = [e \in Exec |-> None]
  /\ mem' = [e \in Exec |-> Fresh]
  /\ main' = [e \in Exec |-> "idle"]
  /\ co' = [e \in Exec |-> NoCo]
  /\ gate' = [p \in Plan |-> [n \in Node |-> None]]
  /\ cancelled' = {}
  /\ UNCHANGED disk

-----------------------------------------------------------------------------

NodeStep(e, n) ==
  \/ NodeBegins(e, n) \/ TaskEnds(e, n)
  \/ ConditionEvaluated(e, n) \/ ConditionSaved(e, n)
  \/ GateListens(e, n) \/ GateEnds(e, n)
  \/ NodeCancelled(e, n)

MainStep(e) ==
  Begin(e) \/ Dispatch(e) \/ Gathered(e) \/ Conclude(e) \/ Done(e) \/ ExecCancelled(e)

Next ==
  \/ \E p \in Plan, e \in Exec : Execute(p, e)
  \/ \E p \in Plan : Pause(p) \/ Delete(p)
  \/ \E p \in Plan, n \in Node : Answer(p, n)
  \/ \E e \in Exec : MainStep(e)
  \/ \E e \in Exec, n \in Node : NodeStep(e, n)
  \/ Crash

Spec == Init /\ [][Next]_vars

(* The loop runs what is ready; agents and gates have timeouts.            *)
FairSpec ==
  /\ Spec
  /\ \A e \in Exec : WF_vars(MainStep(e))
  /\ \A e \in Exec, n \in Node : WF_vars(NodeStep(e, n))

-----------------------------------------------------------------------------
(* Properties                                                              *)

(* Every version of a plan there is: the files and the executors' objects. *)
Versions == {mem[e] : e \in Exec} \cup ({disk[p] : p \in Plan} \ {None})

(* A node that was started has all of its dependencies completed, in every *)
(* version of the plan, whatever overwrote what.                           *)
DependenciesFirst ==
  \A c \in Versions, n \in Node :
    c.node[n] \in {"running", "waiting", "completed", "failed"} =>
      \A d \in Deps[n] : c.node[d] = "completed"

(* A plan that says "completed" has nothing left open and nothing failed.  *)
CompletedIsComplete ==
  \A c \in Versions : c.status = "completed" =>
    \A n \in Node : c.node[n] \in {"completed", "skipped"}

(* A condition worded for failure never takes its if_true branch: it is    *)
(* only evaluated when everything it depends on has completed, so a failed *)
(* dependency ends the plan and the branch made for it is dead.            *)
FailureBranchIsDead ==
  BranchesDepend =>
  \A c \in Versions, n \in OnFailure :
    Type[n] = "condition" /\ IfTrue[n] # None =>
      c.node[IfTrue[n]] \in {"pending", "skipped"}

(* What a node ended with stays, in the object of an executor; a node that *)
(* could be dispatched next to its condition would run after it is skipped. *)
OutcomesStay ==
  [][BranchesDepend => \A e \in Exec, n \in Node :
       /\ main[e] # "idle" /\ main'[e] # "idle"
       /\ mem[e].node[n] \in {"completed", "failed", "skipped"}
       => mem'[e].node[n] = mem[e].node[n]]_vars

(* An executor that found no node under way in its file ends, whatever is  *)
(* requested meanwhile.  (One that did, after a cancel or a crash, polls    *)
(* for ever: nothing runs that node.)                                      *)
ExecutorsEnd ==
  \A e \in Exec :
    (main[e] = "new" /\ \A n \in Node : mem[e].node[n] \notin {"running", "waiting"})
      ~> main[e] = "idle"
=============================================================================
