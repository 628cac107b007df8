------------------------------ MODULE MCPlans ------------------------------
(* A plan that tests, repairs what failed or asks before it goes on, and   *)
(* has a node of a type the executor does not know.                        *)
EXTENDS PlanExecutor, TLC

CONSTANTS test, failing, passing, fix, approve, extra

MCNode == {test, failing, passing, fix, approve, extra}
MCType == [n \in Node |->
  CASE n \in {failing, passing} -> "condition" [] n = approve -> "gate"
    [] n = extra -> "loop" [] OTHER -> "task"]
MCDeps == [n \in Node |->
  CASE n \in {failing, passing} -> {test} [] n = fix -> {failing, passing}
    [] n = approve -> {passing} [] OTHER -> {}]
MCIfTrue == [n \in Node |->
  CASE n = failing -> fix [] n = passing -> approve [] OTHER -> None]
MCIfFalse == [n \in Node |-> IF n = passing THEN fix ELSE None]

Symmetric == Permutations(Exec)
=============================================================================
