------------------------------ MODULE MCStores ------------------------------
(* The symmetries of Stores, and small configuration files.                 *)
EXTENDS Stores, TLC

Symmetric ==
    Permutations(Thread) \cup Permutations(Service) \cup Permutations(Branch)

MCLines == {Header("api"), Header("db"), Header("auth"), Number("port", 1), Number("shadow_port", 1),
            Text("port", "env"), Text("project_id", "main"), Blank}
MCConfigFiles == SeqOf(MCLines, 5)

MCSlotPorts ==
  [p \in {"api_port", "db_port", "shadow_port"} |->
     IF p = "api_port" THEN 2 ELSE IF p = "db_port" THEN 3 ELSE 4]
=============================================================================
