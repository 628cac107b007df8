------------------------------ MODULE MCAgents ------------------------------
(* Calls of dispatch_task_agent by the endpoint and by a plan.             *)
EXTENDS AgentSessions
=============================================================================
