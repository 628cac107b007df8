-------------------------- MODULE SerializedService --------------------------
(***************************************************************************)
(* What serve/services.py promises of one ServiceInstance, whatever the    *)
(* operations are made of: its state follows _TRANSITIONS, only the task   *)
(* that holds its lock ("guards state transitions") moves it, and no task  *)
(* leaves the lock while the service is STARTING.  A server restart is the *)
(* one step that is exempt: discovery makes RUNNING instances directly.    *)
(***************************************************************************)
CONSTANTS Task, None,
          Transitions   \* the table, [States -> SUBSET States]

VARIABLES owner,   \* the task that holds the lock, or None
          state    \* its State, or "absent" when nothing refers to it

vars == <<owner, state>>

Init == owner = None /\ state = "absent"

Follow == state' = state \/ state' \in Transitions[state]

Create ==
  /\ state = "absent"
  /\ state' = "stopped"
  /\ UNCHANGED owner

Drop ==
  /\ owner = None
  /\ state' = "absent"
  /\ UNCHANGED owner

Acquire ==
  /\ owner = None /\ state # "absent"
  /\ owner' \in Task
  /\ Follow

Work ==
  /\ owner # None
  /\ Follow
  /\ UNCHANGED owner

(* The last task that refers to an unregistered service takes it along. *)
Release ==
  /\ owner # None
  /\ owner' = None
  /\ \/ Follow /\ state' # "starting"
     \/ state' = "absent"

Recover ==
  /\ owner' = None
  /\ state' \in {"absent", "running"}

Next == Create \/ Drop \/ Acquire \/ Work \/ Release \/ Recover

Spec == Init /\ [][Next]_vars
=============================================================================
