----------------------------- MODULE MCTestRuns -----------------------------
(* Devices and events of the small instance of TestRuns.                    *)
EXTENDS TestRuns, TLC

CONSTANTS ann, phone, laptop, rules

MCOwner == [d \in Device |-> ann]
MCSubscribed == [p \in Plugin |-> {"tests.run.DONE"}]
MCOtherEvents == {[type |-> "service.state", status |-> "stopped"]}
Symmetric == Permutations(Delivery) \cup Permutations(Device)
=============================================================================
