------------------------- MODULE PlanExecutorProofs -------------------------
(***************************************************************************)
(* What holds of PlanExecutor for every DAG, however many plans, executors *)
(* and requests: the types, the order of the nodes, what a completed plan  *)
(* is, the branch that is never taken, and the outcomes that stay.         *)
(*                                                                         *)
(* An executor may work on a stale object and write it over any file, so   *)
(* the invariant is about single objects: Good is what every version of a  *)
(* plan satisfies by itself, and a file is always a copy of some object.   *)
(***************************************************************************)
EXTENDS PlanExecutor, TLAPS

Started == {"running", "waiting", "completed", "failed"}

(* A condition chooses IfTrue[n] and is worded for failure. *)
Chooses(n) == n \in OnFailure /\ Type[n] = "condition" /\ IfTrue[n] # None

DepsCompleted(c, n) == \A d \in Deps[n] : c.node[d] = "completed"

(* One version of a plan, by itself. *)
InOrder(c) == \A n \in Node : c.node[n] \in Started => DepsCompleted(c, n)

Finished(c) ==
  c.status = "completed" => \A n \in Node : c.node[n] \in {"completed", "skipped"}

Dead(c) ==
  BranchesDepend =>
    \A n \in Node : Chooses(n) /\ c.node[n] = "completed"
                      => c.node[IfTrue[n]] = "skipped"

Good(c) == InOrder(c) /\ Finished(c) /\ Dead(c)

(* The await of the coroutine of a node tells the status of the node. *)
Matches(c, n, l) ==
  /\ l = "ready" => /\ c.node[n] \in {"pending", "skipped"}
                    /\ BranchesDepend => c.node[n] = "pending"
                    /\ DepsCompleted(c, n)
  /\ l = "work" => c.node[n] = "running"
  /\ l \in {"ask", "listen", "answered"} => c.node[n] = "waiting" /\ Type[n] = "gate"
  /\ l = "save" => c.node[n] = "completed"

Files == \A p \in Plan : disk[p] # None => Good(disk[p])

Objects ==
  \A e \in Exec :
    /\ Good(mem[e])
    /\ main[e] # "gather" => co[e] = NoCo
    /\ main[e] \in {"loop", "gather"} => mem[e].status = "running"
    /\ main[e] # "idle" => plan[e] \in Plan

Coroutines == \A e \in Exec, n \in Node : Matches(mem[e], n, co[e][n])

(* The event of a gate belongs to a coroutine that listens to it. *)
Gates ==
  \A p \in Plan, n \in Node :
    gate[p][n] # None => /\ plan[gate[p][n]] = p
                         /\ co[gate[p][n]][n] \in {"listen", "answered"}

IInv == TypeOK /\ Files /\ Objects /\ Coroutines /\ Gates

-----------------------------------------------------------------------------
(* One object                                                              *)

Labels == {"none", "ready", "work", "ask", "listen", "answered", "save"}

LEMMA FreshIsGood == Fresh \in Copies /\ Good(Fresh)
<1>1. Fresh \in Copies /\ Fresh.status = "pending" /\ \A n \in Node : Fresh.node[n] = "pending"
  BY DEF Fresh, Copies, PlanStatus, NodeStatus
<1> QED BY <1>1 DEF Good, InOrder, Finished, Dead, Started

LEMMA WithNode ==
  ASSUME NEW c \in Copies, NEW ns \in SUBSET Node, NEW s \in NodeStatus
  PROVE  /\ With(c, ns, s) \in Copies
         /\ With(c, ns, s).status = c.status
         /\ \A n \in Node : With(c, ns, s).node[n] = IF n \in ns THEN s ELSE c.node[n]
BY DEF With, Copies

LEMMA WithStatus ==
  ASSUME NEW c \in Copies, NEW s \in PlanStatus
  PROVE  /\ [c EXCEPT !.status = s] \in Copies
         /\ [c EXCEPT !.status = s].status = s
         /\ [c EXCEPT !.status = s].node = c.node
BY DEF Copies

(* The nodes as they are, and not newly "completed". *)
LEMMA SameNodes ==
  ASSUME NEW c \in Copies, NEW d \in Copies, Good(c), d.node = c.node,
         d.status = "completed" => c.status = "completed"
  PROVE  Good(d)
BY DEF Good, InOrder, Finished, Dead, DepsCompleted

(* Nodes move on in a plan that is not completed: what has completed stays, *)
(* what starts has its dependencies, and a condition worded for failure    *)
(* that ends has its branch skipped.                                       *)
LEMMA Advance ==
  ASSUME NEW c \in Copies, NEW d \in Copies, Good(c), d.status # "completed",
         \A m \in Node : c.node[m] = "completed" => d.node[m] = "completed",
         \A m \in Node : d.node[m] \in Started =>
           c.node[m] \in Started \/ DepsCompleted(c, m),
         BranchesDepend => \A m \in Node :
           /\ c.node[m] = "skipped" => d.node[m] = "skipped"
           /\ Chooses(m) /\ d.node[m] = "completed" /\ c.node[m] # "completed"
                => d.node[IfTrue[m]] = "skipped"
  PROVE  Good(d)
<1>1. InOrder(d)
  <2> SUFFICES ASSUME NEW n \in Node, d.node[n] \in Started
               PROVE  DepsCompleted(d, n)
    BY DEF InOrder
  <2>1. DepsCompleted(c, n)
    BY DEF Good, InOrder
  <2> QED BY <2>1, ConstantsAssumption DEF DepsCompleted
<1>2. Finished(d)
  BY DEF Finished
<1>3. Dead(d)
  <2> SUFFICES ASSUME BranchesDepend, NEW n \in Node, Chooses(n),
                      d.node[n] = "completed"
               PROVE  d.node[IfTrue[n]] = "skipped"
    BY DEF Dead
  <2>1. IfTrue[n] \in Node
    BY ConstantsAssumption DEF Chooses
  <2> QED BY <2>1 DEF Good, Dead
<1> QED BY <1>1, <1>2, <1>3 DEF Good

-----------------------------------------------------------------------------
(* Kinds of step                                                           *)

LEMMA InitInvariant == Init => IInv
<1> SUFFICES ASSUME Init PROVE IInv
  OBVIOUS
<1>1. TypeOK
  BY FreshIsGood DEF Init, TypeOK, NoCo
<1>2. Files /\ Objects /\ Coroutines /\ Gates
  BY FreshIsGood DEF Init, Files, Objects, Coroutines, Gates, Matches, NoCo
<1> QED BY <1>1, <1>2 DEF IInv

(* A coroutine of e moves to l and leaves the object as c: the file is the *)
(* same, or has the same.                                                  *)
LEMMA NodeWorks ==
  ASSUME IInv, NEW e \in Exec, NEW n \in Node, NEW c \in Copies, NEW l \in Labels,
         main[e] = "gather", Good(c), c.status = mem[e].status,
         mem' = [mem EXCEPT ![e] = c],
         disk' = disk \/ disk' = [disk EXCEPT ![plan[e]] = c],
         Co(e, n, l), Matches(c, n, l),
         \A m \in Node \ {n} : Matches(c, m, co[e][m]),
         \/ gate' = gate /\ (co[e][n] \in {"listen", "answered"} => l \in {"listen", "answered"})
         \/ gate' = [gate EXCEPT ![plan[e]][n] = None]
         \/ gate' = [gate EXCEPT ![plan[e]][n] = e] /\ l = "listen",
         UNCHANGED <<runner, plan, main, cancelled>>
  PROVE  IInv'
<1>1. TypeOK'
  <2>1. plan[e] \in Plan
    BY DEF IInv, Objects
  <2>2. mem' \in [Exec -> Copies] /\ disk' \in [Plan -> Copies \cup {None}]
    BY DEF IInv, TypeOK
  <2>3. co' \in [Exec -> [Node -> Labels]]
    BY DEF IInv, TypeOK, Co, Labels
  <2>4. gate' \in [Plan -> [Node -> Exec \cup {None}]]
    BY <2>1, SMTT(20) DEF IInv, TypeOK
  <2> QED BY <2>2, <2>3, <2>4 DEF IInv, TypeOK, Labels
<1>2. Files'
  BY DEF IInv, TypeOK, Files
<1>3. Objects'
  BY DEF IInv, TypeOK, Objects, Co
<1>4. Coroutines'
  BY DEF IInv, TypeOK, Coroutines, Co
<1>5. Gates'
  <2> SUFFICES ASSUME NEW p \in Plan, NEW m \in Node, gate'[p][m] # None
               PROVE  /\ plan'[gate'[p][m]] = p
                      /\ co'[gate'[p][m]][m] \in {"listen", "answered"}
    BY DEF Gates
  <2>1. plan[e] \in Plan /\ None \notin Exec
    BY ConstantsAssumption DEF IInv, Objects
  <2>2. CASE gate'[p][m] = gate[p][m] /\ (p # plan[e] \/ m # n)
    BY <2>1, <2>2 DEF IInv, TypeOK, Gates, Co
  <2>3. CASE p = plan[e] /\ m = n
    BY <2>1, <2>3 DEF IInv, TypeOK, Gates, Co
  <2> QED BY <2>1, <2>2, <2>3 DEF IInv, TypeOK
<1> QED BY <1>1, <1>2, <1>3, <1>4, <1>5 DEF IInv

(* What a coroutine does to its own node leaves the others their awaits.   *)
LEMMA OthersMatch ==
  ASSUME IInv, NEW e \in Exec, NEW n \in Node, NEW c \in Copies,
         \A m \in Node \ {n} : c.node[m] = mem[e].node[m],
         mem[e].node[n] = "completed" => c.node[n] = "completed"
  PROVE  \A m \in Node \ {n} : Matches(c, m, co[e][m])
<1> SUFFICES ASSUME NEW m \in Node \ {n} PROVE Matches(c, m, co[e][m])
  OBVIOUS
<1>1. Matches(mem[e], m, co[e][m])
  BY DEF IInv, Coroutines
<1> QED BY <1>1, ConstantsAssumption DEF Matches, DepsCompleted

(* Only the node of a coroutine that has a status changes. *)
LEMMA OwnNode ==
  ASSUME IInv, NEW e \in Exec, NEW n \in Node, NEW s \in NodeStatus,
         main[e] = "gather",
         mem[e].node[n] \notin {"completed"},
         BranchesDepend => mem[e].node[n] # "skipped",
         s \in Started => DepsCompleted(mem[e], n),
         s = "completed" => ~Chooses(n)
  PROVE  /\ Good(With(mem[e], {n}, s))
         /\ With(mem[e], {n}, s) \in Copies
         /\ With(mem[e], {n}, s).status = mem[e].status
         /\ With(mem[e], {n}, s).node[n] = s
         /\ \A m \in Node \ {n} : Matches(With(mem[e], {n}, s), m, co[e][m])
<1> DEFINE c == With(mem[e], {n}, s)
<1>1. /\ mem[e] \in Copies /\ Good(mem[e]) /\ mem[e].status = "running"
  BY DEF IInv, TypeOK, Objects
<1>2. /\ c \in Copies /\ c.status = mem[e].status
      /\ \A m \in Node : c.node[m] = IF m = n THEN s ELSE mem[e].node[m]
  BY <1>1, WithNode
<1> HIDE DEF c
<1>3. Good(c)
  BY <1>1, <1>2, Advance
<1>4. \A m \in Node \ {n} : Matches(c, m, co[e][m])
  BY <1>2, OthersMatch
<1> QED BY <1>2, <1>3, <1>4 DEF c

-----------------------------------------------------------------------------
(* The coroutines                                                          *)

LEMMA InGather ==
  ASSUME IInv, NEW e \in Exec, NEW n \in Node, co[e][n] # "none"
  PROVE  /\ main[e] = "gather" /\ mem[e].status = "running"
         /\ plan[e] \in Plan /\ Matches(mem[e], n, co[e][n])
         /\ mem[e] \in Copies /\ Good(mem[e])
BY DEF IInv, TypeOK, Objects, Coroutines, NoCo

LEMMA NodeBeginsKeeps ==
  ASSUME IInv, NEW e \in Exec, NEW n \in Node, NodeBegins(e, n)
  PROVE  IInv'
<1>1. co[e][n] = "ready"
  BY DEF NodeBegins
<1>2. main[e] = "gather" /\ Matches(mem[e], n, "ready")
  BY <1>1, InGather
<1>3. CASE Type[n] = "gate"
  <2> DEFINE c == With(mem[e], {n}, "waiting")
  <2>0. /\ mem[e].node[n] \notin {"completed"} /\ DepsCompleted(mem[e], n)
        /\ BranchesDepend => mem[e].node[n] # "skipped"
        /\ "waiting" \in NodeStatus
    BY <1>2 DEF Matches, NodeStatus
  <2>1. /\ Good(c) /\ c \in Copies /\ c.status = mem[e].status
        /\ c.node[n] = "waiting"
        /\ \A m \in Node \ {n} : Matches(c, m, co[e][m])
    BY <1>2, <2>0, OwnNode
  <2>2. Matches(c, n, "ask")
    BY <1>3, <2>1 DEF Matches
  <2>3. /\ mem' = [mem EXCEPT ![e] = c] /\ disk' = [disk EXCEPT ![plan[e]] = c]
        /\ Co(e, n, "ask") /\ UNCHANGED <<runner, plan, main, gate, cancelled>>
    BY <1>3 DEF NodeBegins, Save
  <2> HIDE DEF c
  <2> QED BY <1>1, <1>2, <2>1, <2>2, <2>3, NodeWorks DEF Labels
<1>4. CASE Type[n] # "gate"
  <2> DEFINE c == With(mem[e], {n}, "running")
  <2>0. /\ mem[e].node[n] \notin {"completed"} /\ DepsCompleted(mem[e], n)
        /\ BranchesDepend => mem[e].node[n] # "skipped"
        /\ "running" \in NodeStatus
    BY <1>2 DEF Matches, NodeStatus
  <2>1. /\ Good(c) /\ c \in Copies /\ c.status = mem[e].status
        /\ c.node[n] = "running"
        /\ \A m \in Node \ {n} : Matches(c, m, co[e][m])
    BY <1>2, <2>0, OwnNode
  <2>2. Matches(c, n, "work")
    BY <2>1 DEF Matches
  <2>3. /\ mem' = [mem EXCEPT ![e] = c] /\ disk' = [disk EXCEPT ![plan[e]] = c]
        /\ Co(e, n, "work") /\ UNCHANGED <<runner, plan, main, gate, cancelled>>
    BY <1>4 DEF NodeBegins, Save
  <2> HIDE DEF c
  <2> QED BY <1>1, <1>2, <2>1, <2>2, <2>3, NodeWorks DEF Labels
<1> QED BY <1>3, <1>4

(* A started node has its dependencies. *)
LEMMA StartedInOrder ==
  ASSUME IInv, NEW e \in Exec, NEW n \in Node, mem[e].node[n] \in Started
  PROVE  DepsCompleted(mem[e], n)
BY DEF IInv, Objects, Good, InOrder

LEMMA TaskEndsKeeps ==
  ASSUME IInv, NEW e \in Exec, NEW n \in Node, TaskEnds(e, n)
  PROVE  IInv'
<1>1. co[e][n] = "work" /\ Type[n] = "task"
  BY DEF TaskEnds
<1>2. main[e] = "gather" /\ mem[e].node[n] = "running"
  BY <1>1, InGather DEF Matches
<1>3. PICK s \in {"completed", "failed"} : Save(e, With(mem[e], {n}, s))
  BY DEF TaskEnds
<1> DEFINE c == With(mem[e], {n}, s)
<1>0. /\ s \in NodeStatus /\ ~Chooses(n)
      /\ mem[e].node[n] \notin {"completed", "skipped"}
      /\ DepsCompleted(mem[e], n)
  BY <1>1, <1>2, StartedInOrder DEF NodeStatus, Started, Chooses
<1>4. /\ Good(c) /\ c \in Copies /\ c.status = mem[e].status
      /\ \A m \in Node \ {n} : Matches(c, m, co[e][m])
  BY <1>0, <1>2, OwnNode
<1>5. Matches(c, n, "none")
  BY DEF Matches
<1>6. /\ mem' = [mem EXCEPT ![e] = c] /\ disk' = [disk EXCEPT ![plan[e]] = c]
      /\ Co(e, n, "none") /\ UNCHANGED <<runner, plan, main, gate, cancelled>>
  BY <1>3 DEF TaskEnds, Save
<1> HIDE DEF c
<1> QED BY <1>1, <1>2, <1>4, <1>5, <1>6, NodeWorks DEF Labels

(* Everything the condition depends on has completed: worded for failure,  *)
(* it does not hold, and if_true is the branch that is skipped.  Neither   *)
(* branch has begun if it depends on the condition.                        *)
LEMMA ConditionEvaluatedKeeps ==
  ASSUME IInv, NEW e \in Exec, NEW n \in Node, ConditionEvaluated(e, n)
  PROVE  IInv'
<1> DEFINE other == IF Holds(mem[e], n) THEN IfFalse[n] ELSE IfTrue[n]
           skip == {other} \cap StatusIn(mem[e], "pending")
           b == With(mem[e], {n}, "completed")
           c == With(b, skip, "skipped")
<1>1. co[e][n] = "work" /\ Type[n] = "condition"
  BY DEF ConditionEvaluated
<1>2. /\ main[e] = "gather" /\ mem[e].node[n] = "running"
      /\ mem[e] \in Copies /\ Good(mem[e]) /\ mem[e].status = "running"
  BY <1>1, InGather DEF Matches
<1>3. DepsCompleted(mem[e], n)
  BY <1>2, StartedInOrder DEF Started
<1>4. /\ b \in Copies /\ b.status = mem[e].status
      /\ \A m \in Node : b.node[m] = IF m = n THEN "completed" ELSE mem[e].node[m]
  BY <1>2, WithNode DEF NodeStatus
<1>5. skip \in SUBSET Node /\ \A m \in skip : m = other /\ mem[e].node[m] = "pending"
  BY DEF StatusIn
<1>6. /\ c \in Copies /\ c.status = mem[e].status
      /\ \A m \in Node : c.node[m] = IF m \in skip THEN "skipped"
                                      ELSE IF m = n THEN "completed" ELSE mem[e].node[m]
  <2> HIDE DEF b, skip
  <2> QED BY <1>4, <1>5, WithNode DEF NodeStatus
<1>7. /\ mem' = [mem EXCEPT ![e] = c] /\ disk' = disk
      /\ Co(e, n, "save") /\ UNCHANGED <<runner, plan, main, gate, cancelled>>
  BY DEF ConditionEvaluated, Keep
<1>8. Chooses(n) => other = IfTrue[n]
  BY <1>3 DEF Chooses, Holds, DepsCompleted
<1>9. BranchesDepend /\ other # None => n \in Deps[other] /\ other \in Node
  BY <1>1, ConstantsAssumption DEF BranchesDepend
<1>10. BranchesDepend /\ other # None =>
         /\ mem[e].node[other] \in {"pending", "skipped"}
         /\ co[e][other] # "ready"
  <2> SUFFICES ASSUME BranchesDepend, other # None
               PROVE  /\ mem[e].node[other] \in {"pending", "skipped"}
                      /\ co[e][other] # "ready"
    OBVIOUS
  <2>1. ~DepsCompleted(mem[e], other)
    BY <1>2, <1>9 DEF DepsCompleted
  <2>2. mem[e].node[other] \notin Started /\ mem[e].node[other] \in NodeStatus
    BY <1>2, <1>9, <2>1, StartedInOrder DEF Copies
  <2>3. Matches(mem[e], other, co[e][other])
    BY <1>9 DEF IInv, Coroutines
  <2> QED BY <2>1, <2>2, <2>3 DEF Matches, Started, NodeStatus
<1> HIDE DEF other
<1>11. BranchesDepend /\ Chooses(n) => c.node[IfTrue[n]] = "skipped"
  <2> SUFFICES ASSUME BranchesDepend, Chooses(n)
               PROVE  c.node[IfTrue[n]] = "skipped"
    OBVIOUS
  <2>1. other = IfTrue[n] /\ other # None
    BY <1>8 DEF Chooses
  <2>2. CASE mem[e].node[other] = "pending"
    BY <1>6, <1>9, <2>1, <2>2 DEF StatusIn
  <2>3. CASE mem[e].node[other] = "skipped"
    BY <1>2, <1>6, <1>9, <2>1, <2>3
  <2> QED BY <1>10, <2>1, <2>2, <2>3
<1> HIDE DEF skip, b, c
<1>12. Good(c)
  <2>1. c.status # "completed"
    BY <1>2, <1>6
  <2>2. \A m \in Node : mem[e].node[m] = "completed" => c.node[m] = "completed"
    BY <1>5, <1>6
  <2>3. \A m \in Node : c.node[m] \in Started =>
          mem[e].node[m] \in Started \/ DepsCompleted(mem[e], m)
    BY <1>3, <1>6 DEF Started
  <2>4. \A m \in Node : mem[e].node[m] = "skipped" => c.node[m] = "skipped"
    BY <1>2, <1>6
  <2>5. BranchesDepend => \A m \in Node :
          Chooses(m) /\ c.node[m] = "completed" /\ mem[e].node[m] # "completed"
            => c.node[IfTrue[m]] = "skipped"
    BY <1>6, <1>11
  <2> QED BY <1>2, <1>6, <2>1, <2>2, <2>3, <2>4, <2>5, Advance
<1>13. \A m \in Node \ {n} : Matches(c, m, co[e][m])
  <2> SUFFICES ASSUME NEW m \in Node \ {n} PROVE Matches(c, m, co[e][m])
    OBVIOUS
  <2>1. Matches(mem[e], m, co[e][m])
    BY DEF IInv, Coroutines
  <2>2. DepsCompleted(mem[e], m) => DepsCompleted(c, m)
    BY <1>2, <1>5, <1>6, ConstantsAssumption DEF DepsCompleted
  <2>3. CASE m \notin skip
    BY <1>6, <2>1, <2>2, <2>3 DEF Matches
  <2>4. CASE m \in skip
    <3>1. m = other /\ mem[e].node[m] = "pending" /\ other # None
      BY <1>5, <2>4, ConstantsAssumption
    <3> QED BY <1>6, <1>10, <2>1, <2>2, <2>4, <3>1 DEF Matches
  <2> QED BY <2>3, <2>4
<1>14. Matches(c, n, "save")
  BY <1>2, <1>5, <1>6 DEF Matches
<1> QED BY <1>1, <1>2, <1>6, <1>7, <1>12, <1>13, <1>14, NodeWorks DEF Labels

(* A coroutine that leaves the object as it is. *)
LEMMA ObjectStays ==
  ASSUME IInv, NEW e \in Exec
  PROVE  /\ mem[e] \in Copies /\ Good(mem[e])
         /\ mem = [mem EXCEPT ![e] = mem[e]]
         /\ \A m \in Node : Matches(mem[e], m, co[e][m])
BY DEF IInv, TypeOK, Objects, Coroutines

LEMMA ConditionSavedKeeps ==
  ASSUME IInv, NEW e \in Exec, NEW n \in Node, ConditionSaved(e, n)
  PROVE  IInv'
<1>1. /\ co[e][n] = "save" /\ Co(e, n, "none")
      /\ mem' = [mem EXCEPT ![e] = mem[e]]
      /\ disk' = [disk EXCEPT ![plan[e]] = mem[e]]
      /\ UNCHANGED <<runner, plan, main, gate, cancelled>>
  BY DEF ConditionSaved, Save
<1>2. main[e] = "gather"
  BY <1>1, InGather
<1>3. Matches(mem[e], n, "none")
  BY DEF Matches
<1> QED BY <1>1, <1>2, <1>3, ObjectStays, NodeWorks DEF Labels

LEMMA GateListensKeeps ==
  ASSUME IInv, NEW e \in Exec, NEW n \in Node, GateListens(e, n)
  PROVE  IInv'
<1>1. /\ co[e][n] = "ask" /\ Co(e, n, "listen") /\ mem' = mem /\ disk' = disk
      /\ gate' = [gate EXCEPT ![plan[e]][n] = e]
      /\ UNCHANGED <<runner, plan, main, cancelled>>
  BY DEF GateListens
<1>2. main[e] = "gather" /\ mem[e].node[n] = "waiting"
  BY <1>1, InGather DEF Matches
<1>3. Matches(mem[e], n, "listen")
  BY <1>1, <1>2, InGather DEF Matches
<1> QED BY <1>1, <1>2, <1>3, ObjectStays, NodeWorks DEF Labels

LEMMA GateEndsKeeps ==
  ASSUME IInv, NEW e \in Exec, NEW n \in Node, GateEnds(e, n)
  PROVE  IInv'
<1> DEFINE s == IF co[e][n] = "answered" THEN "completed" ELSE "failed"
           c == With(mem[e], {n}, s)
<1>1. /\ co[e][n] \in {"listen", "answered"} /\ Co(e, n, "none")
      /\ mem' = [mem EXCEPT ![e] = c] /\ disk' = [disk EXCEPT ![plan[e]] = c]
      /\ gate' = [gate EXCEPT ![plan[e]][n] = None]
      /\ UNCHANGED <<runner, plan, main, cancelled>>
  BY DEF GateEnds, Save
<1>2. main[e] = "gather" /\ mem[e].node[n] = "waiting" /\ Type[n] = "gate"
  BY <1>1, InGather DEF Matches
<1>3. /\ s \in NodeStatus /\ ~Chooses(n)
      /\ mem[e].node[n] \notin {"completed", "skipped"}
      /\ DepsCompleted(mem[e], n)
  BY <1>2, StartedInOrder DEF NodeStatus, Started, Chooses
<1> HIDE DEF s
<1>4. /\ Good(c) /\ c \in Copies /\ c.status = mem[e].status
      /\ \A m \in Node \ {n} : Matches(c, m, co[e][m])
  BY <1>2, <1>3, OwnNode
<1>5. Matches(c, n, "none")
  BY DEF Matches
<1> HIDE DEF c
<1> QED BY <1>1, <1>2, <1>4, <1>5, NodeWorks DEF Labels

LEMMA NodeCancelledKeeps ==
  ASSUME IInv, NEW e \in Exec, NEW n \in Node, NodeCancelled(e, n)
  PROVE  IInv'
<1>1. co[e][n] # "none" /\ Co(e, n, "none") /\ UNCHANGED <<runner, plan, main, cancelled>>
  BY DEF NodeCancelled
<1>2. main[e] = "gather"
  BY <1>1, InGather
<1>3. CASE co[e][n] \in {"listen", "answered"}
  <2> DEFINE c == With(mem[e], {n}, "skipped")
  <2>1. /\ mem[e].node[n] \notin {"completed", "skipped"}
        /\ "skipped" \in NodeStatus /\ "skipped" \notin Started
    BY <1>1, <1>3, InGather DEF Matches, NodeStatus, Started
  <2>2. /\ Good(c) /\ c \in Copies /\ c.status = mem[e].status
        /\ \A m \in Node \ {n} : Matches(c, m, co[e][m])
    BY <1>2, <2>1, OwnNode
  <2>3. Matches(c, n, "none")
    BY DEF Matches
  <2>4. /\ mem' = [mem EXCEPT ![e] = c] /\ disk' = disk
        /\ gate' = [gate EXCEPT ![plan[e]][n] = None]
    BY <1>3 DEF NodeCancelled, Keep
  <2> HIDE DEF c
  <2> QED BY <1>1, <1>2, <2>2, <2>3, <2>4, NodeWorks DEF Labels
<1>4. CASE co[e][n] \notin {"listen", "answered"}
  <2>1. /\ mem' = [mem EXCEPT ![e] = mem[e]] /\ disk' = disk /\ gate' = gate
    BY <1>4, ObjectStays DEF NodeCancelled
  <2>2. Matches(mem[e], n, "none")
    BY DEF Matches
  <2> QED BY <1>1, <1>2, <1>4, <2>1, <2>2, ObjectStays, NodeWorks DEF Labels
<1> QED BY <1>3, <1>4

LEMMA NodeStepKeeps ==
  ASSUME IInv, NEW e \in Exec, NEW n \in Node, NodeStep(e, n)
  PROVE  IInv'
BY NodeBeginsKeeps, TaskEndsKeeps, ConditionEvaluatedKeeps, ConditionSavedKeeps,
   GateListensKeeps, GateEndsKeeps, NodeCancelledKeeps DEF NodeStep

-----------------------------------------------------------------------------
(* The executors                                                           *)

(* Executor e, none of whose coroutines is left, moves to l, its object to *)
(* c, and starts the coroutines of row.                                    *)
LEMMA MainWorks ==
  ASSUME IInv, NEW e \in Exec, NEW c \in Copies, NEW row \in [Node -> Labels],
         NEW l \in {"loop", "gather", "last"},
         main[e] # "idle", co[e] = NoCo, Good(c),
         mem' = [mem EXCEPT ![e] = c],
         disk' = disk \/ disk' = [disk EXCEPT ![plan[e]] = c],
         Goto(e, l), co' = [co EXCEPT ![e] = row],
         l # "gather" => row = NoCo, l # "last" => c.status = "running",
         \A n \in Node : Matches(c, n, row[n]),
         UNCHANGED <<runner, plan, gate, cancelled>>
  PROVE  IInv'
<1>1. TypeOK'
  BY DEF IInv, TypeOK, Goto, Labels
<1>2. Files'
  BY DEF IInv, TypeOK, Files
<1>3. Objects'
  BY DEF IInv, TypeOK, Objects, Goto
<1>4. Coroutines'
  BY DEF IInv, TypeOK, Coroutines
<1>5. Gates'
  BY ConstantsAssumption DEF IInv, TypeOK, Gates, NoCo
<1> QED BY <1>1, <1>2, <1>3, <1>4, <1>5 DEF IInv

LEMMA NoCoMatches ==
  ASSUME IInv, NEW e \in Exec, co[e] = NoCo
  PROVE  /\ NoCo \in [Node -> Labels] /\ co = [co EXCEPT ![e] = NoCo]
         /\ \A c, n : n \in Node => Matches(c, n, NoCo[n])
BY DEF IInv, TypeOK, NoCo, Labels, Matches

LEMMA Quiet ==
  ASSUME IInv, NEW e \in Exec, main[e] # "gather"
  PROVE  co[e] = NoCo
BY DEF IInv, Objects

LEMMA BeginKeeps ==
  ASSUME IInv, NEW e \in Exec, Begin(e)
  PROVE  IInv'
<1> DEFINE c == [mem[e] EXCEPT !.status = "running"]
<1>1. /\ main[e] = "new" /\ Goto(e, "loop") /\ mem' = [mem EXCEPT ![e] = c]
      /\ disk' = [disk EXCEPT ![plan[e]] = c]
      /\ UNCHANGED <<runner, plan, co, gate, cancelled>>
  BY DEF Begin, Save
<1>2. c \in Copies /\ c.status = "running" /\ c.node = mem[e].node
  BY ObjectStays, WithStatus DEF PlanStatus
<1> HIDE DEF c
<1>3. Good(c)
  BY <1>2, ObjectStays, SameNodes
<1>4. co[e] = NoCo
  BY <1>1, Quiet
<1>5. co' = [co EXCEPT ![e] = NoCo] /\ NoCo \in [Node -> Labels]
  BY <1>1, <1>4, NoCoMatches
<1> QED BY <1>1, <1>2, <1>3, <1>4, <1>5, NoCoMatches, MainWorks

LEMMA DispatchKeeps ==
  ASSUME IInv, NEW e \in Exec, Dispatch(e)
  PROVE  IInv'
<1> DEFINE ready == Ready(mem[e])
           loops == {n \in ready : Type[n] = "loop"}
           row == [n \in Node |-> IF n \in ready \ loops THEN "ready" ELSE "none"]
           c == With(mem[e], loops, "skipped")
<1>1. /\ main[e] = "loop" /\ Goto(e, "gather") /\ co' = [co EXCEPT ![e] = row]
      /\ UNCHANGED <<runner, plan, gate, cancelled>>
      /\ IF loops = {} THEN UNCHANGED <<mem, disk>> ELSE Save(e, c)
  BY DEF Dispatch
<1>2. co[e] = NoCo /\ mem[e].status = "running" /\ mem[e] \in Copies /\ Good(mem[e])
  BY <1>1, Quiet, ObjectStays DEF IInv, Objects
<1>3. \A n \in ready : n \in Node /\ mem[e].node[n] = "pending" /\ DepsCompleted(mem[e], n)
  BY DEF Ready, DepsCompleted
<1>4. loops \in SUBSET Node /\ loops \subseteq ready
  BY <1>3
<1>5. row \in [Node -> Labels]
  BY DEF Labels
<1>6. CASE loops = {}
  <2>1. mem' = [mem EXCEPT ![e] = mem[e]] /\ disk' = disk
    BY <1>1, <1>6, ObjectStays
  <2>2. \A n \in Node : Matches(mem[e], n, row[n])
    BY <1>3 DEF Matches
  <2> HIDE DEF row, loops
  <2> QED BY <1>1, <1>2, <1>5, <2>1, <2>2, MainWorks
<1>7. CASE loops # {}
  <2>1. /\ c \in Copies /\ c.status = mem[e].status
        /\ \A n \in Node : c.node[n] = IF n \in loops THEN "skipped" ELSE mem[e].node[n]
    <3> HIDE DEF loops
    <3> QED BY <1>2, <1>4, WithNode DEF NodeStatus
  <2>2. mem' = [mem EXCEPT ![e] = c] /\ disk' = [disk EXCEPT ![plan[e]] = c]
    BY <1>1, <1>7 DEF Save
  <2> HIDE DEF c
  <2>3. Good(c)
    <3>1. \A n \in Node : mem[e].node[n] = "completed" => c.node[n] = "completed"
      BY <1>3, <1>4, <2>1
    <3>2. \A n \in Node : c.node[n] \in Started => mem[e].node[n] \in Started
      BY <2>1 DEF Started
    <3>3. \A n \in Node :
            /\ mem[e].node[n] = "skipped" => c.node[n] = "skipped"
            /\ c.node[n] = "completed" => mem[e].node[n] = "completed"
      BY <2>1
    <3> QED BY <1>2, <2>1, <3>1, <3>2, <3>3, Advance
  <2>4. \A n \in Node : Matches(c, n, row[n])
    <3> SUFFICES ASSUME NEW n \in Node, n \in ready \ loops
                 PROVE  Matches(c, n, "ready")
      BY DEF Matches
    <3>1. c.node[n] = "pending"
      BY <1>3, <2>1
    <3>2. DepsCompleted(c, n)
      BY <1>3, <1>4, <2>1, ConstantsAssumption DEF DepsCompleted
    <3> QED BY <3>1, <3>2 DEF Matches
  <2> HIDE DEF row, loops
  <2> QED BY <1>1, <1>2, <1>5, <2>1, <2>2, <2>3, <2>4, MainWorks
<1> QED BY <1>6, <1>7

LEMMA GatheredKeeps ==
  ASSUME IInv, NEW e \in Exec, Gathered(e)
  PROVE  IInv'
<1>1. /\ main[e] = "gather" /\ co[e] = NoCo /\ Goto(e, "loop") /\ mem' = mem
      /\ UNCHANGED <<disk, runner, plan, co, gate, cancelled>>
  BY DEF Gathered
<1>2. mem[e].status = "running"
  BY <1>1 DEF IInv, Objects
<1>3. /\ mem' = [mem EXCEPT ![e] = mem[e]] /\ co' = [co EXCEPT ![e] = NoCo]
      /\ NoCo \in [Node -> Labels]
  BY <1>1, ObjectStays, NoCoMatches
<1> QED BY <1>1, <1>2, <1>3, ObjectStays, NoCoMatches, MainWorks

(* Nothing is pending, running, waiting or failed: what is left has        *)
(* completed or was skipped.                                               *)
LEMMA ConcludeKeeps ==
  ASSUME IInv, NEW e \in Exec, Conclude(e)
  PROVE  IInv'
<1> DEFINE s == IF StatusIn(mem[e], "pending") \cup StatusIn(mem[e], "failed") = {}
                THEN "completed" ELSE "failed"
           c == [mem[e] EXCEPT !.status = s]
<1>1. /\ main[e] = "loop" /\ Goto(e, "last") /\ mem' = [mem EXCEPT ![e] = c]
      /\ disk' = [disk EXCEPT ![plan[e]] = c]
      /\ UNCHANGED <<runner, plan, co, gate, cancelled>>
      /\ StatusIn(mem[e], "running") \cup StatusIn(mem[e], "waiting") = {}
  BY DEF Conclude, Save
<1>2. s = "completed" => \A n \in Node : mem[e].node[n] \in {"completed", "skipped"}
  <2> SUFFICES ASSUME s = "completed", NEW n \in Node
               PROVE  mem[e].node[n] \in {"completed", "skipped"}
    OBVIOUS
  <2>1. mem[e].node[n] \in NodeStatus
    BY ObjectStays DEF Copies
  <2>2. n \notin StatusIn(mem[e], "pending") /\ n \notin StatusIn(mem[e], "failed")
    OBVIOUS
  <2>3. n \notin StatusIn(mem[e], "running") /\ n \notin StatusIn(mem[e], "waiting")
    BY <1>1
  <2> QED BY <2>1, <2>2, <2>3 DEF StatusIn, NodeStatus
<1>3. s \in PlanStatus
  BY DEF PlanStatus
<1> HIDE DEF s
<1>4. c \in Copies /\ c.status = s /\ c.node = mem[e].node
  BY <1>3, ObjectStays, WithStatus
<1> HIDE DEF c
<1>5. Good(c)
  BY <1>2, <1>4, ObjectStays DEF Good, InOrder, Finished, Dead, DepsCompleted
<1>6. co[e] = NoCo
  BY <1>1, Quiet
<1>7. co' = [co EXCEPT ![e] = NoCo] /\ NoCo \in [Node -> Labels]
  BY <1>1, <1>6, NoCoMatches
<1> QED BY <1>1, <1>4, <1>5, <1>6, <1>7, NoCoMatches, MainWorks

(* The task of an executor is over, the last thing it wrote is c. *)
LEMMA Leaving ==
  ASSUME IInv, NEW e \in Exec, NEW c \in Copies, Good(c), co[e] = NoCo, Leave(e),
         disk' = disk \/ disk' = [disk EXCEPT ![plan[e]] = c],
         UNCHANGED <<co, gate>>
  PROVE  IInv'
<1>1. TypeOK'
  BY FreshIsGood DEF IInv, TypeOK, Leave, Goto
<1>2. Files'
  BY DEF IInv, TypeOK, Files
<1>3. Objects'
  BY FreshIsGood DEF IInv, TypeOK, Objects, Leave, Goto
<1>4. Coroutines'
  <2> SUFFICES ASSUME NEW f \in Exec, NEW n \in Node
               PROVE  Matches(mem'[f], n, co[f][n])
    BY DEF Coroutines
  <2>1. CASE f = e
    BY <2>1, NoCoMatches
  <2>2. CASE f # e
    BY <2>2 DEF IInv, TypeOK, Coroutines, Leave
  <2> QED BY <2>1, <2>2
<1>5. Gates'
  BY ConstantsAssumption DEF IInv, TypeOK, Gates, NoCo, Leave
<1> QED BY <1>1, <1>2, <1>3, <1>4, <1>5 DEF IInv

LEMMA DoneKeeps ==
  ASSUME IInv, NEW e \in Exec, Done(e)
  PROVE  IInv'
<1>1. co[e] = NoCo
  BY Quiet DEF Done
<1> QED BY <1>1, FreshIsGood, Leaving DEF Done

LEMMA ExecCancelledKeeps ==
  ASSUME IInv, NEW e \in Exec, ExecCancelled(e)
  PROVE  IInv'
<1> DEFINE c == [mem[e] EXCEPT !.status = "paused"]
<1>1. /\ co[e] = NoCo /\ Leave(e) /\ UNCHANGED <<co, gate>>
      /\ disk' = disk \/ disk' = [disk EXCEPT ![plan[e]] = c]
  BY DEF ExecCancelled
<1>2. c \in Copies /\ c.status = "paused" /\ c.node = mem[e].node
  BY ObjectStays, WithStatus DEF PlanStatus
<1> HIDE DEF c
<1>3. Good(c)
  BY <1>2, ObjectStays, SameNodes
<1> QED BY <1>1, <1>2, <1>3, Leaving

LEMMA MainStepKeeps ==
  ASSUME IInv, NEW e \in Exec, MainStep(e)
  PROVE  IInv'
BY BeginKeeps, DispatchKeeps, GatheredKeeps, ConcludeKeeps, DoneKeeps,
   ExecCancelledKeeps DEF MainStep

-----------------------------------------------------------------------------
(* The endpoints                                                           *)

LEMMA ExecuteKeeps ==
  ASSUME IInv, NEW p \in Plan, NEW e \in Exec, Execute(p, e)
  PROVE  IInv'
<1>1. /\ disk[p] # None /\ main[e] = "idle" /\ main' = [main EXCEPT ![e] = "new"]
      /\ plan' = [plan EXCEPT ![e] = p] /\ mem' = [mem EXCEPT ![e] = disk[p]]
      /\ runner' = [runner EXCEPT ![p] = e] /\ UNCHANGED <<disk, co, gate, cancelled>>
  BY DEF Execute, StartPlan, Exists, Goto
<1>2. disk[p] \in Copies /\ Good(disk[p]) /\ co[e] = NoCo
  BY <1>1, Quiet DEF IInv, TypeOK, Files
<1>3. TypeOK'
  BY <1>1, <1>2 DEF IInv, TypeOK
<1>4. Files'
  BY <1>1 DEF IInv, Files
<1>5. Objects'
  BY <1>1, <1>2 DEF IInv, TypeOK, Objects
<1>6. Coroutines'
  <2> SUFFICES ASSUME NEW f \in Exec, NEW n \in Node
               PROVE  Matches(mem'[f], n, co[f][n])
    BY <1>1 DEF Coroutines
  <2>1. CASE f = e
    BY <1>2, <2>1, NoCoMatches
  <2>2. CASE f # e
    BY <1>1, <2>2 DEF IInv, TypeOK, Coroutines
  <2> QED BY <2>1, <2>2
<1>7. Gates'
  BY <1>1, <1>2, ConstantsAssumption DEF IInv, TypeOK, Gates, NoCo
<1> QED BY <1>3, <1>4, <1>5, <1>6, <1>7 DEF IInv

LEMMA PauseKeeps ==
  ASSUME IInv, NEW p \in Plan, Pause(p)
  PROVE  IInv'
<1> DEFINE c == [disk[p] EXCEPT !.status = "paused"]
<1>1. /\ disk[p] # None /\ disk' = [disk EXCEPT ![p] = c]
      /\ UNCHANGED <<runner, plan, mem, main, co, gate, cancelled>>
  BY DEF Pause, Exists
<1>2. disk[p] \in Copies /\ Good(disk[p])
  BY <1>1 DEF IInv, TypeOK, Files
<1>3. c \in Copies /\ c.status = "paused" /\ c.node = disk[p].node
  BY <1>2, WithStatus DEF PlanStatus
<1> HIDE DEF c
<1>4. Good(c)
  BY <1>2, <1>3, SameNodes
<1>5. TypeOK' /\ Files'
  BY <1>1, <1>3, <1>4 DEF IInv, TypeOK, Files
<1> QED BY <1>1, <1>5 DEF IInv, Objects, Coroutines, Gates

LEMMA DeleteKeeps ==
  ASSUME IInv, NEW p \in Plan, Delete(p)
  PROVE  IInv'
<1>1. TypeOK' /\ Files'
  BY DEF Delete, CancelPlan, IInv, TypeOK, Files
<1> QED BY <1>1 DEF Delete, CancelPlan, IInv, Objects, Coroutines, Gates

LEMMA AnswerKeeps ==
  ASSUME IInv, NEW p \in Plan, NEW n \in Node, Answer(p, n)
  PROVE  IInv'
<1> DEFINE c == [disk[p] EXCEPT !.out = @ \cup {n}]
           g == gate[p][n]
<1>1. /\ disk[p] # None /\ disk' = [disk EXCEPT ![p] = c]
      /\ co' = IF g = None THEN co ELSE [co EXCEPT ![g][n] = "answered"]
      /\ UNCHANGED <<runner, plan, mem, main, gate, cancelled>>
  BY DEF Answer, AnswerGate, Exists
<1>2. disk[p] \in Copies /\ Good(disk[p])
  BY <1>1 DEF IInv, TypeOK, Files
<1>3. c \in Copies /\ c.status = disk[p].status /\ c.node = disk[p].node
  BY <1>2 DEF Copies
<1> HIDE DEF c
<1>4. Good(c)
  BY <1>2, <1>3, SameNodes
<1>5. g # None => g \in Exec /\ co[g][n] \in {"listen", "answered"}
  BY DEF IInv, TypeOK, Gates
<1>6. g # None => /\ main[g] = "gather" /\ Matches(mem[g], n, co[g][n])
  BY <1>5, InGather
<1> HIDE DEF g
<1>7. TypeOK'
  BY <1>1, <1>3, <1>5 DEF IInv, TypeOK
<1>8. Files'
  BY <1>1, <1>4 DEF IInv, TypeOK, Files
<1>9. Objects'
  BY <1>1, <1>5, <1>6 DEF IInv, TypeOK, Objects
<1>10. Coroutines'
  BY <1>1, <1>5, <1>6 DEF IInv, TypeOK, Coroutines, Matches
<1>11. Gates'
  BY <1>1, <1>5 DEF IInv, TypeOK, Gates
<1> QED BY <1>7, <1>8, <1>9, <1>10, <1>11 DEF IInv

LEMMA CrashKeeps ==
  ASSUME IInv, Crash
  PROVE  IInv'
<1>1. TypeOK' /\ Files'
  BY FreshIsGood DEF Crash, IInv, TypeOK, Files, NoCo
<1>2. Objects' /\ Coroutines' /\ Gates'
  BY FreshIsGood DEF Crash, Objects, Coroutines, Gates, Matches, NoCo
<1> QED BY <1>1, <1>2 DEF IInv

LEMMA NextInvariant == IInv /\ [Next]_vars => IInv'
<1> SUFFICES ASSUME IInv, [Next]_vars PROVE IInv'
  OBVIOUS
<1>1. CASE UNCHANGED vars
  BY <1>1 DEF vars, IInv, TypeOK, Files, Objects, Coroutines, Gates
<1>2. CASE Next
  BY <1>2, ExecuteKeeps, PauseKeeps, DeleteKeeps, AnswerKeeps, MainStepKeeps,
     NodeStepKeeps, CrashKeeps DEF Next
<1> QED BY <1>1, <1>2

-----------------------------------------------------------------------------
(* The theorems                                                            *)

(* Every version of a plan is Good by itself, an executor's awaits tell the *)
(* status of its nodes, and the event of a gate has its listener.          *)
THEOREM Invariant == Spec => []IInv
BY InitInvariant, NextInvariant, PTL DEF Spec

(* Types, for every DAG and every number of plans and executors. *)
THEOREM TypeCorrect == Spec => []TypeOK
<1>1. IInv => TypeOK
  BY DEF IInv
<1> QED BY <1>1, Invariant, PTL

LEMMA VersionsAreGood == ASSUME IInv PROVE \A c \in Versions : c \in Copies /\ Good(c)
BY DEF IInv, TypeOK, Files, Objects, Versions

(* execute_plan: no node runs, waits or has ended while something it       *)
(* depends on has not completed, in any file or object.                    *)
THEOREM InOrderOfDependencies == Spec => []DependenciesFirst
<1>1. IInv => DependenciesFirst
  BY VersionsAreGood DEF DependenciesFirst, Good, InOrder, Started, DepsCompleted
<1> QED BY <1>1, Invariant, PTL

(* A plan that says "completed" has nothing open and nothing failed. *)
THEOREM Completed == Spec => []CompletedIsComplete
<1>1. IInv => CompletedIsComplete
  BY VersionsAreGood DEF CompletedIsComplete, Good, Finished
<1> QED BY <1>1, Invariant, PTL

(* The branch that a condition keeps for a failure is never taken. *)
THEOREM FailureBranch == Spec => []FailureBranchIsDead
<1>1. ASSUME IInv PROVE FailureBranchIsDead
  <2> SUFFICES ASSUME BranchesDepend, NEW c \in Versions, NEW n \in OnFailure,
                      Type[n] = "condition", IfTrue[n] # None
               PROVE  c.node[IfTrue[n]] \in {"pending", "skipped"}
    BY DEF FailureBranchIsDead
  <2>1. c \in Copies /\ Good(c)
    BY <1>1, VersionsAreGood
  <2>2. n \in Node /\ IfTrue[n] \in Node /\ n \in Deps[IfTrue[n]]
    BY ConstantsAssumption DEF BranchesDepend
  <2>3. c.node[IfTrue[n]] \notin Started
    BY <2>1, <2>2 DEF Good, InOrder, Dead, DepsCompleted, Chooses, Started
  <2>4. c.node[IfTrue[n]] \in NodeStatus
    BY <2>1, <2>2 DEF Copies
  <2> QED BY <2>3, <2>4 DEF Started, NodeStatus
<1> QED BY <1>1, Invariant, PTL

-----------------------------------------------------------------------------
(* Outcomes                                                                *)

Ended == {"completed", "failed", "skipped"}

LEMMA NodeStepKeepsOutcomes ==
  ASSUME IInv, BranchesDepend, NEW f \in Exec, NEW m \in Node, NodeStep(f, m),
         NEW e \in Exec, NEW n \in Node, mem[e].node[n] \in Ended
  PROVE  mem'[e].node[n] = mem[e].node[n]
<1>1. mem \in [Exec -> Copies] /\ mem[f] \in Copies
  BY DEF IInv, TypeOK
<1>2. \A ns \in SUBSET Node, s \in NodeStatus :
        n \notin ns => With(mem[f], ns, s).node[n] = mem[f].node[n]
  BY <1>1, WithNode
<1>3. co[f][m] # "none" /\ Matches(mem[f], m, co[f][m])
  <2>1. co[f][m] # "none"
    BY DEF NodeStep, NodeBegins, TaskEnds, ConditionEvaluated, ConditionSaved,
           GateListens, GateEnds, NodeCancelled
  <2> QED BY <2>1 DEF IInv, Coroutines
<1>4. CASE NodeBegins(f, m)
  <2>1. mem[f].node[m] = "pending"
    BY <1>3, <1>4 DEF NodeBegins, Matches
  <2>2. \E s \in NodeStatus : mem' = [mem EXCEPT ![f] = With(mem[f], {m}, s)]
    BY <1>4 DEF NodeBegins, Save, NodeStatus
  <2> QED BY <1>1, <1>2, <2>1, <2>2 DEF Ended
<1>5. CASE TaskEnds(f, m) \/ GateEnds(f, m)
  <2>1. mem[f].node[m] \in {"running", "waiting"}
    BY <1>3, <1>5 DEF TaskEnds, GateEnds, Matches
  <2>2. \E s \in {"completed", "failed"} : mem' = [mem EXCEPT ![f] = With(mem[f], {m}, s)]
    <3>1. CASE TaskEnds(f, m)
      BY <3>1 DEF TaskEnds, Save
    <3>2. CASE GateEnds(f, m)
      <4> DEFINE s == IF co[f][m] = "answered" THEN "completed" ELSE "failed"
      <4>1. mem' = [mem EXCEPT ![f] = With(mem[f], {m}, s)]
        BY <3>2 DEF GateEnds, Save
      <4> QED BY <4>1
    <3> QED BY <1>5, <3>1, <3>2
  <2>3. {"completed", "failed"} \subseteq NodeStatus
    BY DEF NodeStatus
  <2>4. PICK s \in NodeStatus : mem' = [mem EXCEPT ![f] = With(mem[f], {m}, s)]
    BY <2>2, <2>3
  <2>5. CASE e = f /\ n # m
    BY <1>1, <1>2, <2>4, <2>5
  <2>6. CASE e # f
    BY <1>1, <2>4, <2>6
  <2> QED BY <2>1, <2>5, <2>6 DEF Ended
<1>6. CASE ConditionEvaluated(f, m)
  <2> DEFINE other == IF Holds(mem[f], m) THEN IfFalse[m] ELSE IfTrue[m]
             skip == {other} \cap StatusIn(mem[f], "pending")
             b == With(mem[f], {m}, "completed")
  <2>1. mem[f].node[m] = "running"
    BY <1>3, <1>6 DEF ConditionEvaluated, Matches
  <2>2. mem' = [mem EXCEPT ![f] = With(b, skip, "skipped")]
    BY <1>6 DEF ConditionEvaluated, Keep
  <2>3. skip \in SUBSET Node /\ \A k \in skip : mem[f].node[k] = "pending"
    BY DEF StatusIn
  <2> HIDE DEF skip
  <2>4. /\ b \in Copies
        /\ \A k \in Node : b.node[k] = IF k = m THEN "completed" ELSE mem[f].node[k]
    BY <1>1, WithNode DEF NodeStatus
  <2> HIDE DEF b
  <2>5. \A k \in Node : With(b, skip, "skipped").node[k] = IF k \in skip THEN "skipped" ELSE b.node[k]
    BY <2>3, <2>4, WithNode DEF NodeStatus
  <2>6. CASE e = f
    BY <1>1, <2>1, <2>2, <2>3, <2>4, <2>5, <2>6 DEF Ended
  <2>7. CASE e # f
    BY <1>1, <2>2, <2>7
  <2> QED BY <2>6, <2>7
<1>7. CASE ConditionSaved(f, m) \/ GateListens(f, m)
  BY <1>1, <1>7 DEF ConditionSaved, GateListens, Save
<1>8. CASE NodeCancelled(f, m)
  <2>1. CASE co[f][m] \in {"listen", "answered"}
    <3>1. mem[f].node[m] = "waiting"
      BY <1>3, <2>1 DEF Matches
    <3>2. mem' = [mem EXCEPT ![f] = With(mem[f], {m}, "skipped")] /\ "skipped" \in NodeStatus
      BY <1>8, <2>1 DEF NodeCancelled, Keep, NodeStatus
    <3> QED BY <1>1, <1>2, <3>1, <3>2 DEF Ended
  <2>2. CASE co[f][m] \notin {"listen", "answered"}
    BY <1>8, <2>2 DEF NodeCancelled
  <2> QED BY <2>1, <2>2
<1> QED BY <1>4, <1>5, <1>6, <1>7, <1>8 DEF NodeStep

LEMMA MainStepKeepsOutcomes ==
  ASSUME IInv, NEW f \in Exec, MainStep(f), NEW e \in Exec, NEW n \in Node,
         mem[e].node[n] \in Ended, main'[e] # "idle"
  PROVE  mem'[e].node[n] = mem[e].node[n]
<1>1. /\ mem \in [Exec -> Copies] /\ mem[f] \in Copies
      /\ main \in [Exec -> {"idle", "new", "loop", "gather", "last"}]
  BY DEF IInv, TypeOK
<1>2. CASE Begin(f) \/ Gathered(f) \/ Conclude(f)
  <2>1. mem' = mem \/ \E s \in PlanStatus : mem' = [mem EXCEPT ![f] = [mem[f] EXCEPT !.status = s]]
    <3>1. CASE Begin(f)
      BY <3>1 DEF Begin, Save, PlanStatus
    <3>2. CASE Gathered(f)
      BY <3>2 DEF Gathered
    <3>3. CASE Conclude(f)
      <4> DEFINE s == IF StatusIn(mem[f], "pending") \cup StatusIn(mem[f], "failed") = {}
                      THEN "completed" ELSE "failed"
      <4>1. mem' = [mem EXCEPT ![f] = [mem[f] EXCEPT !.status = s]]
        BY <3>3 DEF Conclude, Save
      <4>2. s \in PlanStatus
        BY DEF PlanStatus
      <4> QED BY <4>1, <4>2
    <3> QED BY <1>2, <3>1, <3>2, <3>3
  <2>2. CASE mem' = mem
    BY <2>2
  <2>3. CASE \E s \in PlanStatus : mem' = [mem EXCEPT ![f] = [mem[f] EXCEPT !.status = s]]
    <3>1. PICK s \in PlanStatus : mem' = [mem EXCEPT ![f] = [mem[f] EXCEPT !.status = s]]
      BY <2>3
    <3>2. [mem[f] EXCEPT !.status = s].node = mem[f].node
      BY <1>1, WithStatus
    <3> QED BY <1>1, <3>1, <3>2
  <2> QED BY <2>1, <2>2, <2>3
<1>3. CASE Dispatch(f)
  <2> DEFINE loops == {k \in Ready(mem[f]) : Type[k] = "loop"}
  <2>1. mem' = mem \/ mem' = [mem EXCEPT ![f] = With(mem[f], loops, "skipped")]
    BY <1>3 DEF Dispatch, Save
  <2>2. loops \in SUBSET Node /\ \A k \in loops : mem[f].node[k] = "pending"
    BY DEF Ready
  <2> HIDE DEF loops
  <2>3. \A k \in Node : With(mem[f], loops, "skipped").node[k]
                          = IF k \in loops THEN "skipped" ELSE mem[f].node[k]
    BY <1>1, <2>2, WithNode DEF NodeStatus
  <2> QED BY <1>1, <2>1, <2>2, <2>3 DEF Ended
<1>4. CASE Done(f) \/ ExecCancelled(f)
  <2>1. main' = [main EXCEPT ![f] = "idle"] /\ mem' = [mem EXCEPT ![f] = Fresh]
    BY <1>4 DEF Done, ExecCancelled, Leave, Goto
  <2> QED BY <1>1, <2>1
<1> QED BY <1>2, <1>3, <1>4 DEF MainStep

LEMMA NextKeepsOutcomes ==
  ASSUME IInv, [Next]_vars, BranchesDepend, NEW e \in Exec, NEW n \in Node,
         main[e] # "idle", main'[e] # "idle", mem[e].node[n] \in Ended
  PROVE  mem'[e].node[n] = mem[e].node[n]
<1>1. CASE \E p \in Plan, f \in Exec : Execute(p, f)
  BY <1>1 DEF Execute, StartPlan, IInv, TypeOK
<1>2. CASE \E p \in Plan : Pause(p) \/ Delete(p) \/ \E m \in Node : Answer(p, m)
  BY <1>2 DEF Pause, Delete, CancelPlan, Answer, AnswerGate
<1>3. CASE Crash
  BY <1>3 DEF Crash
<1>4. CASE UNCHANGED vars
  BY <1>4 DEF vars
<1> QED BY <1>1, <1>2, <1>3, <1>4, MainStepKeepsOutcomes, NodeStepKeepsOutcomes DEF Next

(* While an executor works, no node of its object leaves "completed",      *)
(* "failed" or "skipped": a node is not run again, and one that a          *)
(* condition has skipped does not run, if it depends on the condition.     *)
THEOREM Outcomes == Spec => OutcomesStay
<1>1. ASSUME IInv, [Next]_vars
      PROVE  [BranchesDepend => \A e \in Exec, n \in Node :
                /\ main[e] # "idle" /\ main'[e] # "idle"
                /\ mem[e].node[n] \in {"completed", "failed", "skipped"}
                => mem'[e].node[n] = mem[e].node[n]]_vars
  BY <1>1, NextKeepsOutcomes DEF Ended
<1> QED BY <1>1, Invariant, PTL DEF Spec, OutcomesStay
=============================================================================
