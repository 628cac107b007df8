-------------------------- MODULE ServiceLifecycle --------------------------
(***************************************************************************)
(* The services of a codehome server: serve/services.py (the per-service   *)
(* state machine and its registry), serve/service_lifecycle.py (start,     *)
(* stop, reinstall, cleanup), serve/routers/services.py (the HTTP handlers *)
(* and the background tasks they spawn) and serve/discovery.py (recovery   *)
(* of the registry when the server starts again).                          *)
(*                                                                         *)
(* Everything runs on one asyncio loop, so an action is what happens       *)
(* between two awaits; pc[t] names the await a task is suspended at.       *)
(* Awaits that follow each other with no shared state touched in between   *)
(* are one label.  A ServiceInstance is a Python object with a lock of its *)
(* own: registering a key again makes another object, which is why a task  *)
(* refers to an instance and the registry maps a key to one.               *)
(***************************************************************************)
EXTENDS Integers, FiniteSets

CONSTANTS
  Key,        \* service keys, "branch/name"
  Branch,     \* qualified branches
  Inst,       \* pool of ServiceInstance objects
  Task,       \* pool of asyncio tasks that take a service lock
  Sweep,      \* pool of branch cleanups (bounds how many overlap)
  None,
  Kind,       \* [Key -> Kinds]
  BranchOf,   \* [Key -> Branch]
  Needs,      \* [Key -> SUBSET Key], depends_on of the service template
  KeyOf,      \* [Inst -> Key], the key an object of the pool is made for
  MaxStacks,  \* MAX_SUPABASE_STACKS
  Requests,   \* the requests the clients of this instance of the model issue
  Faults      \* what may go wrong around the server: see AllFaults

Kinds == {"supabase", "compose", "native"}

AllRequests == {"start", "stop", "force", "restart", "reinstall", "migrate",
                "unregister", "cleanup"}

(* "fail": an external command returns an error; "raise": the call around  *)
(* it raises (docker missing, subprocess timeout); "crash": the server     *)
(* dies and is started again; "torn": it dies inside a save of the port    *)
(* file, which truncates before it fills.                                  *)
AllFaults == {"fail", "raise", "crash", "torn"}

ASSUME ConstantsAssumption ==
  /\ Kind \in [Key -> Kinds]
  /\ BranchOf \in [Key -> Branch]
  /\ Needs \in [Key -> SUBSET Key]
  /\ KeyOf \in [Inst -> Key]
  /\ MaxStacks \in Nat
  /\ Requests \subseteq AllRequests
  /\ Faults \subseteq AllFaults
  /\ None \notin Inst \cup Task \cup Branch \cup Sweep

(* The supabase service of a branch has the key "branch/supabase". *)
ASSUME OneStackPerBranch ==
  \A k, l \in Key : /\ Kind[k] = "supabase" /\ Kind[l] = "supabase"
                    /\ BranchOf[k] = BranchOf[l]
                    => k = l

VARIABLES
  reg,    \* ServiceManager._services: key -> instance or None
  st,     \* instance -> State
  deps,   \* instance -> depends_on
  lock,   \* instance -> the task holding svc.lock, or None
  pc,     \* task -> the await it is suspended at
  op,     \* task -> the operation it runs
  on,     \* task -> the instance it operates on, or None
  par,    \* task -> the cleanup that gathers it, or None
  sweep,  \* cleanup -> the await it is suspended at
  br,     \* cleanup -> the branch it cleans, or None
  held,   \* keys with an allocation in PortAllocator (saved on each change)
  up,     \* keys whose container or stack runs on the host
  forgotten \* keys whose allocation a torn port file lost, and without one since

taskVars == <<pc, op, on, par>>
sweepVars == <<sweep, br>>
vars == <<reg, st, deps, lock, pc, op, on, par, sweep, br, held, up, forgotten>>

-----------------------------------------------------------------------------

States == {"stopped", "starting", "running", "stopping", "failed"}

(* _TRANSITIONS; transition() raises ValueError on every other pair. *)
Transitions ==
  [s \in States |->
     CASE s = "stopped"  -> {"starting"}
       [] s = "starting" -> {"running", "failed", "stopped"}
       [] s = "running"  -> {"stopping", "failed"}
       [] s = "stopping" -> {"stopped", "failed"}
       [] s = "failed"   -> {"starting", "stopped"}]

Legal(s, n) == n \in Transitions[s]

(* Labels at which a task holds the lock of on[t]. *)
StartLabels == {"alloc", "launch", "probe", "undo"}
StopLabels  == {"halting", "restore", "rstop", "rrm", "clean", "cleanrestore"}
LockedLabels == StartLabels \cup StopLabels \cup
  {"begin", "stopbegin", "recheck", "stale", "rrel", "rvol", "verify",
   "migrate", "free"}
Labels == LockedLabels \cup {"idle", "wait"}

Ops == {"start", "stop", "force", "restart", "reinstall", "migrate", "reap"}

TypeOK ==
  /\ reg \in [Key -> Inst \cup {None}]
  /\ st \in [Inst -> States]
  /\ deps \in [Inst -> SUBSET Key]
  /\ lock \in [Inst -> Task \cup {None}]
  /\ pc \in [Task -> Labels]
  /\ op \in [Task -> Ops \cup {None}]
  /\ on \in [Task -> Inst \cup {None}]
  /\ par \in [Task -> Sweep \cup {None}]
  /\ sweep \in [Sweep -> {"idle", "gather", "volumes"}]
  /\ br \in [Sweep -> Branch \cup {None}]
  /\ held \subseteq Key
  /\ up \subseteq Key
  /\ forgotten \subseteq Key

(* The server starts with an empty registry. *)
Init ==
  /\ reg = [k \in Key |-> None]
  /\ st = [i \in Inst |-> "stopped"]
  /\ deps = [i \in Inst |-> {}]
  /\ lock = [i \in Inst |-> None]
  /\ pc = [t \in Task |-> "idle"]
  /\ op = [t \in Task |-> None]
  /\ on = [t \in Task |-> None]
  /\ par = [t \in Task |-> None]
  /\ sweep = [c \in Sweep |-> "idle"]
  /\ br = [c \in Sweep |-> None]
  /\ held = {}
  /\ up = {}
  /\ forgotten = {}

-----------------------------------------------------------------------------
(* Registry and small steps. *)

Registered(k) == reg[k] # None

(* ServiceManager.can_start: looks the service up by key. *)
CanStart(k) ==
  /\ Registered(k)
  /\ st[reg[k]] \in {"stopped", "failed"}
  /\ \A d \in deps[reg[k]] : Registered(d) /\ st[reg[d]] = "running"

(* resolve_supabase_env: the branch's supabase is registered and RUNNING. *)
EnvReady(b) ==
  \E k \in Key : /\ Kind[k] = "supabase" /\ BranchOf[k] = b
                 /\ Registered(k) /\ st[reg[k]] = "running"

(* An object nothing refers to any more: it stands for the next new one. *)
Unreferenced(i) == /\ \A k \in Key : reg[k] # i
                   /\ \A t \in Task : on[t] # i

Stacks == {k \in held : Kind[k] = "supabase"}

Goto(t, l) == pc' = [pc EXCEPT ![t] = l]
SetState(i, s) == st' = [st EXCEPT ![i] = s]
Of(t) == KeyOf[on[t]]

(* A task ends: the pool slot is free again. *)
End(t) ==
  /\ pc' = [pc EXCEPT ![t] = "idle"]
  /\ op' = [op EXCEPT ![t] = None]
  /\ on' = [on EXCEPT ![t] = None]
  /\ par' = [par EXCEPT ![t] = None]

KeepTask == UNCHANGED <<op, on, par, sweepVars>>
KeepRegistry == UNCHANGED <<reg, deps, forgotten>>

-----------------------------------------------------------------------------
(* HTTP handlers.  Each validates, then spawns a background task that      *)
(* queues on the lock of the instance it looked up.                        *)

Spawn(t, o, i) ==
  /\ pc[t] = "idle"
  /\ pc' = [pc EXCEPT ![t] = "wait"]
  /\ op' = [op EXCEPT ![t] = o]
  /\ on' = [on EXCEPT ![t] = i]
  /\ UNCHANGED <<reg, st, deps, lock, par, sweepVars, held, up, forgotten>>

(* POST /start, /stop, /stop?force, /restart: state and lock are checked   *)
(* before the task is created; /reinstall-deps and /retry-migrations wait  *)
(* for the lock and check then.                                            *)
Accepts(o, k) ==
  LET i == reg[k]
      free == lock[i] = None
  IN CASE o = "start"     -> CanStart(k) /\ free
       [] o = "stop"      -> st[i] = "running" /\ free
       [] o = "force"     -> st[i] # "stopped" /\ free
       [] o = "restart"   -> st[i] = "running" /\ free
       [] o = "reinstall" -> Kind[k] = "compose"
       [] o = "migrate"   -> Kind[k] = "supabase"

Request(t, o, k) ==
  /\ o \in Requests \ {"unregister", "cleanup"}
  /\ Registered(k)
  /\ Accepts(o, k)
  /\ Spawn(t, o, reg[k])

(* POST /register and the loop of setup_branch_services: a new instance,   *)
(* refused (or skipped) when the key is taken.                             *)
Register(k, i) ==
  /\ ~Registered(k)
  /\ KeyOf[i] = k /\ Unreferenced(i)
  /\ reg' = [reg EXCEPT ![k] = i]
  /\ SetState(i, "stopped")
  /\ deps' = [deps EXCEPT ![i] = Needs[k]]
  /\ UNCHANGED <<lock, taskVars, sweepVars, held, up, forgotten>>

(* unregister_service_ports releases nothing for a compose-native service: *)
(* ports.release does not know its allocation.                             *)
Unallocated(k) == IF Kind[k] = "native" THEN held ELSE held \ {k}

(* DELETE: only RUNNING is refused and the lock is not looked at.          *)
Unregister(k) ==
  /\ "unregister" \in Requests
  /\ Registered(k)
  /\ st[reg[k]] # "running"
  /\ held' = Unallocated(k)
  /\ reg' = [reg EXCEPT ![k] = None]
  /\ UNCHANGED <<st, deps, lock, taskVars, sweepVars, up, forgotten>>

(* cleanup_branch_services: one _stop_one task for each instance of the    *)
(* branch, gathered by cleanup c.                                          *)
Cleanup(c, b) ==
  LET mine == {reg[k] : k \in {l \in Key : BranchOf[l] = b /\ Registered(l)}}
  IN
  /\ "cleanup" \in Requests
  /\ sweep[c] = "idle"
  /\ sweep' = [sweep EXCEPT ![c] = "gather"]
  /\ br' = [br EXCEPT ![c] = b]
  /\ \E f \in [mine -> {t \in Task : pc[t] = "idle"}] :
       LET reapers == {f[i] : i \in mine}
       IN
       /\ \A i, j \in mine : f[i] = f[j] => i = j
       /\ pc' = [t \in Task |-> IF t \in reapers THEN "wait" ELSE pc[t]]
       /\ op' = [t \in Task |-> IF t \in reapers THEN "reap" ELSE op[t]]
       /\ on' = [t \in Task |-> IF t \in reapers
                                THEN CHOOSE i \in mine : f[i] = t ELSE on[t]]
       /\ par' = [t \in Task |-> IF t \in reapers THEN c ELSE par[t]]
  /\ UNCHANGED <<reg, st, deps, lock, held, up, forgotten>>

-----------------------------------------------------------------------------
(* Taking and giving back svc.lock.                                        *)

Take(t, o) ==
  /\ pc[t] = "wait"
  /\ op[t] = o
  /\ lock[on[t]] = None

Lock(t, l) ==
  /\ lock' = [lock EXCEPT ![on[t]] = t]
  /\ Goto(t, l)
  /\ KeepTask

(* _run_start re-checks can_start, by key, inside the lock. *)
LockStart(t) ==
  /\ Take(t, "start")
  /\ Lock(t, IF CanStart(Of(t)) THEN "begin" ELSE "free")
  /\ UNCHANGED <<reg, st, deps, held, up, forgotten>>

(* _run_stop re-checks the state inside the lock, unless forced;           *)
(* _run_restart always does.                                               *)
LockStop(t) ==
  /\ \E o \in {"stop", "force", "restart"} : Take(t, o)
  /\ Lock(t, IF op[t] = "force" \/ st[on[t]] = "running"
             THEN "stopbegin" ELSE "free")
  /\ UNCHANGED <<reg, st, deps, held, up, forgotten>>

(* Mutant of LockRunning: the state is not checked again under the lock. *)
LockUnchecked(t) ==
  /\ \E o \in {"reinstall", "migrate"} : Take(t, o)
  /\ Lock(t, IF op[t] = "reinstall" THEN "stale" ELSE "migrate")
  /\ UNCHANGED <<reg, st, deps, held, up, forgotten>>

(* reinstall_deps and retry_migrations: anything but RUNNING is a 409. *)
LockRunning(t) ==
  /\ \E o \in {"reinstall", "migrate"} : Take(t, o)
  /\ Lock(t, IF st[on[t]] # "running" THEN "free"
             ELSE IF op[t] = "reinstall" THEN "stale" ELSE "migrate")
  /\ UNCHANGED <<reg, st, deps, held, up, forgotten>>

(* _stop_one on a service that is neither up nor changing: unregister the  *)
(* key, and leave the lock at once.                                        *)
LockReapIdle(t) ==
  /\ Take(t, "reap")
  /\ st[on[t]] \in {"stopped", "failed"}
  /\ reg' = [reg EXCEPT ![Of(t)] = None]
  /\ End(t)
  /\ UNCHANGED <<st, deps, lock, sweepVars, held, up, forgotten>>

(* _stop_one otherwise.  STARTING cannot be seen here: the lock is free. *)
LockReap(t) ==
  /\ Take(t, "reap")
  /\ st[on[t]] \in {"running", "starting", "stopping"}
  /\ IF st[on[t]] = "running" THEN SetState(on[t], "stopping")
                              ELSE UNCHANGED st
  /\ Lock(t, "clean")
  /\ UNCHANGED <<reg, deps, held, up, forgotten>>

(* Mutant of Unlock: the lock is not given back. *)
LeaveLocked(t) == UNCHANGED lock /\ End(t)

Unlock(t) ==
  /\ lock' = [lock EXCEPT ![on[t]] = None]
  /\ End(t)

(* The last events of the operation are out: the lock is released. *)
Finish(t) ==
  /\ pc[t] = "free"
  /\ Unlock(t)
  /\ UNCHANGED <<reg, st, deps, sweepVars, held, up, forgotten>>

-----------------------------------------------------------------------------
(* start_service                                                           *)

(* transition(STARTING) raises when the instance is in no state to start:  *)
(* the caller fails the operation and leaves.                              *)
ToStarting(t) ==
  IF Legal(st[on[t]], "starting")
  THEN SetState(on[t], "starting") /\ Goto(t, "alloc")
  ELSE UNCHANGED st /\ Goto(t, "free")

BeginStart(t) ==
  /\ pc[t] = "begin"
  /\ ToStarting(t)
  /\ KeepTask /\ KeepRegistry /\ UNCHANGED <<lock, held, up>>

(* A start that ends FAILED, with the allocation kept or given back. *)
StartFails(t, h) ==
  /\ SetState(on[t], "failed")
  /\ held' = h
  /\ Goto(t, "free")

(* restart and start end after RUNNING; reinstall-deps verifies. *)
StartEnds(t) ==
  /\ SetState(on[t], "running")
  /\ Goto(t, IF op[t] = "reinstall" THEN "verify" ELSE "free")

(* The prologue of _start_supabase, _start_compose, _start_compose_native  *)
(* finds what it needs: the allocation is made or found.                   *)
CanAllocate(k) ==
  CASE Kind[k] = "supabase" -> k \in held \/ Cardinality(Stacks) < MaxStacks
    [] Kind[k] = "compose"  -> EnvReady(BranchOf[k])
    [] Kind[k] = "native"   -> TRUE

(* Mutant of Allocate: the allocation is not recorded. *)
AllocateUnsaved(t) ==
  /\ pc[t] = "alloc"
  /\ CanAllocate(Of(t))
  /\ Goto(t, "launch")
  /\ KeepTask /\ KeepRegistry /\ UNCHANGED <<st, lock, held, up>>

Allocate(t) ==
  /\ pc[t] = "alloc"
  /\ CanAllocate(Of(t))
  /\ held' = held \cup {Of(t)}
  /\ forgotten' = forgotten \ {Of(t)}
  /\ Goto(t, "launch")
  /\ KeepTask /\ UNCHANGED <<reg, deps, st, lock, up>>

(* No slot left, no Supabase environment (or no connection details in it), *)
(* or an exception of the prologue, before or after the allocation.        *)
AllocateFails(t) ==
  /\ pc[t] = "alloc"
  /\ \/ ~CanAllocate(Of(t)) /\ StartFails(t, held)
     \/ "fail" \in Faults /\ Kind[Of(t)] = "compose" /\ StartFails(t, held)
     \/ "raise" \in Faults /\ CanAllocate(Of(t))
        /\ \E h \in {held, held \cup {Of(t)}} : StartFails(t, h)
  /\ forgotten' = forgotten \ held'
  /\ KeepTask /\ UNCHANGED <<reg, deps, lock, up>>

(* docker compose up or supabase start succeeds. *)
Launched(t) ==
  /\ pc[t] = "launch"
  /\ up' = up \cup {Of(t)}
  /\ IF Kind[Of(t)] = "supabase" THEN Goto(t, "probe") /\ UNCHANGED st
                                 ELSE StartEnds(t)
  /\ KeepTask /\ KeepRegistry /\ UNCHANGED <<lock, held>>

(* It reports an error, perhaps with containers left up. *)
LaunchFails(t) ==
  /\ pc[t] = "launch"
  /\ "fail" \in Faults
  /\ up' \in {up, up \cup {Of(t)}}
  /\ IF Kind[Of(t)] = "supabase"
     THEN Goto(t, "undo") /\ UNCHANGED <<st, held>>
     ELSE StartFails(t, held \ {Of(t)})
  /\ KeepTask /\ KeepRegistry /\ UNCHANGED lock

(* sb.status answered, with or without connection details. *)
Probed(t) ==
  /\ pc[t] = "probe"
  /\ StartEnds(t)
  /\ KeepTask /\ KeepRegistry /\ UNCHANGED <<lock, held, up>>

(* restore_config after a failed supabase start, then the slot is free. *)
Undone(t) ==
  /\ pc[t] = "undo"
  /\ StartFails(t, held \ {Of(t)})
  /\ KeepTask /\ KeepRegistry /\ UNCHANGED <<lock, up>>

(* An exception anywhere in the starter: start_service records FAILED and  *)
(* the allocation stays.                                                   *)
StartRaises(t) ==
  /\ pc[t] \in {"launch", "probe", "undo"}
  /\ "raise" \in Faults
  /\ StartFails(t, held)
  /\ KeepTask /\ KeepRegistry /\ UNCHANGED <<lock, up>>

-----------------------------------------------------------------------------
(* stop_service                                                            *)

(* Mutant of BeginStop: force clears the state whatever it is. *)
BeginStopAnyway(t) ==
  /\ pc[t] = "stopbegin"
  /\ SetState(on[t], IF op[t] = "force" THEN "stopped" ELSE "stopping")
  /\ Goto(t, IF op[t] = "force" THEN "free" ELSE "halting")
  /\ KeepTask /\ KeepRegistry /\ UNCHANGED <<lock, held, up>>

(* A forced stop of a FAILED or stuck service only clears the state (the   *)
(* STARTING case needs a free lock in STARTING, which never happens); on a *)
(* service that is already STOPPED transition(STOPPING) raises.            *)
BeginStop(t) ==
  /\ pc[t] = "stopbegin"
  /\ IF op[t] = "force" /\ st[on[t]] \in {"failed", "stopping"}
     THEN SetState(on[t], "stopped") /\ Goto(t, "free")
     ELSE IF Legal(st[on[t]], "stopping")
     THEN SetState(on[t], "stopping") /\ Goto(t, "halting")
     ELSE UNCHANGED st /\ Goto(t, "free")
  /\ KeepTask /\ KeepRegistry /\ UNCHANGED <<lock, held, up>>

(* STOPPED and released; a restart goes on to its start phase. *)
StopEnds(t) ==
  /\ SetState(on[t], "stopped")
  /\ held' = held \ {Of(t)}
  /\ Goto(t, IF op[t] = "restart" THEN "recheck" ELSE "free")

(* The stop command ends; a forced stop takes its failure for success. *)
Halted(t) ==
  /\ pc[t] = "halting"
  /\ \/ up' = up \ {Of(t)}
     \/ /\ "fail" \in Faults /\ op[t] = "force"
        /\ UNCHANGED up
  /\ IF Kind[Of(t)] = "supabase" THEN Goto(t, "restore") /\ UNCHANGED <<st, held>>
                                 ELSE StopEnds(t)
  /\ KeepTask /\ KeepRegistry /\ UNCHANGED lock

(* restore_config after a supabase stop. *)
Restored(t) ==
  /\ pc[t] = "restore"
  /\ StopEnds(t)
  /\ KeepTask /\ KeepRegistry /\ UNCHANGED <<lock, up>>

HaltFails(t) ==
  /\ pc[t] = "halting"
  /\ "fail" \in Faults /\ op[t] # "force"
  /\ up' \in {up, up \ {Of(t)}}
  /\ SetState(on[t], "failed")
  /\ Goto(t, "free")
  /\ KeepTask /\ KeepRegistry /\ UNCHANGED <<lock, held>>

(* Mutant of StopRaises: the exception leaves the service STOPPING. *)
StopRaisesUncaught(t) ==
  /\ pc[t] \in {"halting", "restore"}
  /\ "raise" \in Faults
  /\ Goto(t, "free")
  /\ KeepTask /\ KeepRegistry /\ UNCHANGED <<st, lock, held, up>>

(* Any exception: stop_service records FAILED, even when forced. *)
StopRaises(t) ==
  /\ pc[t] \in {"halting", "restore"}
  /\ "raise" \in Faults
  /\ SetState(on[t], "failed")
  /\ Goto(t, "free")
  /\ KeepTask /\ KeepRegistry /\ UNCHANGED <<lock, held, up>>

(* _run_restart, start phase: can_start by key, then start_service. *)
Recheck(t) ==
  /\ pc[t] = "recheck"
  /\ IF CanStart(Of(t)) THEN ToStarting(t) ELSE UNCHANGED st /\ Goto(t, "free")
  /\ KeepTask /\ KeepRegistry /\ UNCHANGED <<lock, held, up>>

-----------------------------------------------------------------------------
(* reinstall_deps: stop and remove the container, remove the volume, start *)
(* again, all under one lock.                                              *)

(* The lockfile check says up to date, or raises: nothing to do. *)
UpToDate(t) ==
  /\ pc[t] = "stale"
  /\ Goto(t, "free")
  /\ KeepTask /\ KeepRegistry /\ UNCHANGED <<st, lock, held, up>>

Stale(t) ==
  /\ pc[t] = "stale"
  /\ SetState(on[t], "stopping")
  /\ Goto(t, "rstop")
  /\ KeepTask /\ KeepRegistry /\ UNCHANGED <<lock, held, up>>

ContainerStopped(t) ==
  /\ pc[t] = "rstop"
  /\ up' = up \ {Of(t)}
  /\ Goto(t, "rrm")
  /\ KeepTask /\ KeepRegistry /\ UNCHANGED <<st, lock, held>>

ContainerRemoved(t) ==
  /\ pc[t] = "rrm"
  /\ SetState(on[t], "stopped")
  /\ Goto(t, "rrel")
  /\ KeepTask /\ KeepRegistry /\ UNCHANGED <<lock, held, up>>

(* docker compose stop or rm returns an error. *)
ReinstallFails(t) ==
  /\ pc[t] \in {"rstop", "rrm"}
  /\ "fail" \in Faults
  /\ SetState(on[t], "failed")
  /\ Goto(t, "free")
  /\ KeepTask /\ KeepRegistry /\ UNCHANGED <<lock, held, up>>

(* subprocess.run(timeout=...) raises TimeoutExpired, which nothing here   *)
(* catches: the service is left STOPPING.                                  *)
ReinstallRaises(t) ==
  /\ pc[t] \in {"rstop", "rrm"}
  /\ "raise" \in Faults
  /\ Goto(t, "free")
  /\ KeepTask /\ KeepRegistry /\ UNCHANGED <<st, lock, held, up>>

(* ports.release comes after the await of the STOPPED event. *)
ReleaseForReinstall(t) ==
  /\ pc[t] = "rrel"
  /\ held' = held \ {Of(t)}
  /\ Goto(t, "rvol")
  /\ KeepTask /\ KeepRegistry /\ UNCHANGED <<st, lock, up>>

VolumeRemoved(t) ==
  /\ pc[t] = "rvol"
  /\ ToStarting(t)
  /\ KeepTask /\ KeepRegistry /\ UNCHANGED <<lock, held, up>>

(* The volume cannot be removed: the code asks for STOPPED -> FAILED, no   *)
(* transition of the table, and the ValueError leaves the service STOPPED. *)
VolumeFails(t) ==
  /\ pc[t] = "rvol"
  /\ "fail" \in Faults
  /\ IF Legal(st[on[t]], "failed") THEN SetState(on[t], "failed")
                                   ELSE UNCHANGED st
  /\ Goto(t, "free")
  /\ KeepTask /\ KeepRegistry /\ UNCHANGED <<lock, held, up>>

(* The second staleness check is only reported. *)
Verified(t) ==
  /\ pc[t] = "verify"
  /\ Goto(t, "free")
  /\ KeepTask /\ KeepRegistry /\ UNCHANGED <<st, lock, held, up>>

(* retry_migrations changes nothing but the migration error of the instance. *)
Migrated(t) ==
  /\ pc[t] = "migrate"
  /\ Goto(t, "free")
  /\ KeepTask /\ KeepRegistry /\ UNCHANGED <<st, lock, held, up>>

-----------------------------------------------------------------------------
(* cleanup_branch_services                                                 *)

(* _stop_one, last part: released, STOPPED, the key unregistered, the lock *)
(* left, in one go.                                                        *)
ReapEnds(t) ==
  /\ held' = held \ {Of(t)}
  /\ SetState(on[t], "stopped")
  /\ reg' = [reg EXCEPT ![Of(t)] = None]
  /\ Unlock(t)
  /\ UNCHANGED <<deps, sweepVars, forgotten>>

(* compose_down or sb.stop returned; what it returned is not looked at. *)
Reaped(t) ==
  /\ pc[t] = "clean"
  /\ \/ up' = up \ {Of(t)}
     \/ "fail" \in Faults /\ UNCHANGED up
  /\ IF Kind[Of(t)] = "supabase"
     THEN Goto(t, "cleanrestore") /\ KeepTask /\ KeepRegistry /\ UNCHANGED <<st, lock, held>>
     ELSE ReapEnds(t)

ReapRestored(t) ==
  /\ pc[t] = "cleanrestore"
  /\ ReapEnds(t)
  /\ UNCHANGED up

(* An exception in _stop_one leaves the service STOPPING and registered;   *)
(* gather returns it and cleanup only logs it.                             *)
ReapRaises(t) ==
  /\ pc[t] \in {"clean", "cleanrestore"}
  /\ "raise" \in Faults
  /\ Unlock(t)
  /\ KeepRegistry /\ UNCHANGED <<st, sweepVars, held, up>>

(* Every _stop_one has returned: with remove_volumes, compose down of the  *)
(* whole project follows, under no lock; then the operation completes.     *)
Gathered(c) ==
  /\ sweep[c] = "gather"
  /\ \A t \in Task : par[t] # c
  /\ \E s \in {"volumes", "idle"} : sweep' = [sweep EXCEPT ![c] = s]
  /\ br' = IF sweep'[c] = "idle" THEN [br EXCEPT ![c] = None] ELSE br
  /\ UNCHANGED <<reg, st, deps, lock, taskVars, held, up, forgotten>>

ComposeOf(b) == {k \in Key : Kind[k] = "compose" /\ BranchOf[k] = b}

VolumesRemoved(c) ==
  /\ sweep[c] = "volumes"
  /\ \/ up' = up \ ComposeOf(br[c])
     \/ "fail" \in Faults /\ UNCHANGED up
  /\ sweep' = [sweep EXCEPT ![c] = "idle"]
  /\ br' = [br EXCEPT ![c] = None]
  /\ UNCHANGED <<reg, st, deps, lock, taskVars, held, forgotten>>

-----------------------------------------------------------------------------
(* The allocations discover_running keeps: those something runs behind. *)
RecoveredAll(running) == held   \* mutant: stale ones are not released
Recovered(running) == held \cap running

(* The labels before a statement that saves the port file, if it changes.  *)
SaveLabels ==
  {"alloc", "launch", "undo", "halting", "restore", "rrel", "clean", "cleanrestore"}

(* A save is or may be under way: in a task, in a DELETE, or in the restart *)
(* itself, when it releases what nothing runs behind.                      *)
Saving(running) ==
  \/ \E t \in Task : pc[t] \in SaveLabels
  \/ "unregister" \in Requests
  \/ ~(held \subseteq running)

(* The server dies and is started again: memory is gone, the allocations   *)
(* are on disk, and a docker command that was running may have taken       *)
(* effect.  discover_running releases the allocations nothing runs behind  *)
(* and registers the others as RUNNING, with no dependencies unless the    *)
(* service is a compose one that its branch's template still names.  A     *)
(* port file that the death has left truncated reads as an empty one.      *)
Crash ==
  /\ "crash" \in Faults
  /\ \E started \in SUBSET {Of(t) : t \in {u \in Task : pc[u] = "launch"}},
        gone \in SUBSET ({Of(t) : t \in {u \in Task : pc[u] \in
                                           {"halting", "rstop", "clean"}}}
                         \cup UNION {ComposeOf(br[c]) : c \in
                                       {d \in Sweep : sweep[d] = "volumes"}}) :
       up' = (up \cup started) \ gone
  /\ \/ held' = Recovered(up') /\ UNCHANGED forgotten
     \/ /\ "torn" \in Faults /\ Saving(up')
        /\ held' = {} /\ forgotten' = forgotten \cup held
  /\ \E new \in [held' -> Inst] :
       /\ \A k \in held' : KeyOf[new[k]] = k
       /\ reg' = [k \in Key |-> IF k \in held' THEN new[k] ELSE None]
       /\ st' = [i \in Inst |-> IF \E k \in held' : new[k] = i
                                THEN "running" ELSE "stopped"]
       /\ \E templated \in SUBSET {k \in held' : Kind[k] = "compose"} :
            deps' = [i \in Inst |-> IF \E k \in templated : new[k] = i
                                    THEN Needs[KeyOf[i]] ELSE {}]
  /\ lock' = [i \in Inst |-> None]
  /\ pc' = [t \in Task |-> "idle"]
  /\ op' = [t \in Task |-> None]
  /\ on' = [t \in Task |-> None]
  /\ par' = [t \in Task |-> None]
  /\ sweep' = [c \in Sweep |-> "idle"]
  /\ br' = [c \in Sweep |-> None]

-----------------------------------------------------------------------------

StartStep(t) ==
  \/ LockStart(t) \/ BeginStart(t)
  \/ Allocate(t) \/ AllocateFails(t)
  \/ Launched(t) \/ LaunchFails(t) \/ Probed(t) \/ Undone(t) \/ StartRaises(t)

StopStep(t) ==
  \/ LockStop(t) \/ BeginStop(t) \/ Recheck(t)
  \/ Halted(t) \/ Restored(t) \/ HaltFails(t) \/ StopRaises(t)

ReinstallStep(t) ==
  \/ LockRunning(t) \/ UpToDate(t) \/ Stale(t)
  \/ ContainerStopped(t) \/ ContainerRemoved(t)
  \/ ReinstallFails(t) \/ ReinstallRaises(t)
  \/ ReleaseForReinstall(t) \/ VolumeRemoved(t) \/ VolumeFails(t) \/ Verified(t)
  \/ Migrated(t)

CleanupStep(t) ==
  \/ LockReap(t) \/ LockReapIdle(t) \/ Reaped(t) \/ ReapRestored(t) \/ ReapRaises(t)

TaskStep(t) ==
  StartStep(t) \/ StopStep(t) \/ ReinstallStep(t) \/ CleanupStep(t) \/ Finish(t)

Next ==
  \/ \E t \in Task : TaskStep(t)
  \/ \E t \in Task, o \in Requests, k \in Key : Request(t, o, k)
  \/ \E c \in Sweep, b \in Branch : Cleanup(c, b)
  \/ \E c \in Sweep : Gathered(c) \/ VolumesRemoved(c)
  \/ \E k \in Key : Unregister(k)
  \/ \E k \in Key, i \in Inst : Register(k, i)
  \/ Crash

Spec == Init /\ [][Next]_vars

(* Subprocesses end (they have timeouts) and the loop is fair, so a task   *)
(* that can go on does; asyncio.Lock wakes its waiters first come first    *)
(* served, so one that can take the lock again and again gets it.          *)
TakeStep(t) ==
  LockStart(t) \/ LockStop(t) \/ LockRunning(t) \/ LockReap(t) \/ LockReapIdle(t)

FairSpec ==
  /\ Spec
  /\ \A t \in Task : WF_vars(TaskStep(t)) /\ SF_vars(TakeStep(t))

-----------------------------------------------------------------------------
(* Properties *)

(* A label at which a task works on a service is reached only with that    *)
(* service's lock, which no second task has, and the instance is in the    *)
(* state the code at that label was written for: a starter finds STARTING  *)
(* when its subprocess returns, a stopper STOPPING, reinstall-deps STOPPED *)
(* after the removal.  transition() would raise otherwise.                 *)
StateAt(l) ==
  {s \in States :
     /\ l \in StartLabels <=> s = "starting"
     /\ l \in StopLabels => s = "stopping"
     /\ l \in {"recheck", "rrel", "rvol"} => s = "stopped"
     /\ l \in {"stale", "verify", "migrate"} => s = "running"}

HolderFindsItsState ==
  \A t \in Task : pc[t] \in LockedLabels =>
    /\ on[t] \in Inst
    /\ lock[on[t]] = t
    /\ st[on[t]] \in StateAt(pc[t])

(* STOPPING, and no task that holds the lock is at a stop.                 *)
Stranded(i) ==
  /\ st[i] = "stopping"
  /\ lock[i] = None \/ pc[lock[i]] \notin StopLabels

(* A service is STARTING only while its lock holder is inside a start, and *)
(* STOPPING only while it is inside a stop, but for the two ways by which  *)
(* an exception leaves it STOPPING: out of the docker commands of          *)
(* reinstall-deps (service_lifecycle.py:290) and out of the _stop_one of a *)
(* cleanup (433, 443).  Every other path out of a change ends it.          *)
Attended ==
  /\ [](\A i \in Inst : st[i] = "starting" => lock[i] # None /\ pc[lock[i]] \in StartLabels)
  /\ [][\A i \in Inst : Stranded(i)' =>
         \/ Stranded(i)
         \/ \E t \in Task : on[t] = i /\ (ReinstallRaises(t) \/ ReapRaises(t))]_vars

(* The lock protocol and the transition table, seen from outside, of every *)
(* instance: serve/services.py keeps its promise through all operations.   *)
Serialized(i) == INSTANCE SerializedService WITH
  owner <- lock[i],
  state <- IF Unreferenced(i) THEN "absent" ELSE st[i]

SerializedSpec ==
  /\ \A i \in Inst : Serialized(i)!Init
  /\ [][\A i \in Inst : [Serialized(i)!Next]_(Serialized(i)!vars)]_vars

(* A registered service that runs has its port or slot recorded, and the   *)
(* container it stands for is up.                                          *)
RunningIsBacked ==
  \A k \in Key : Registered(k) /\ st[reg[k]] = "running" => k \in held \cap up

(* Nothing runs on the host that the port file does not know, so nothing   *)
(* runs that a restarted server would not find, but for what a crash       *)
(* inside a save of that file made it forget (file_lock.py:84).            *)
UpIsRecorded == up \subseteq held \cup forgotten

(* Two tasks are never inside operations on the same key.                  *)
SingleFlight ==
  \A t, u \in Task : /\ pc[t] \in LockedLabels /\ pc[u] \in LockedLabels
                     /\ Of(t) = Of(u)
                     => t = u

(* A restarted server registers exactly what runs, but for what a crash    *)
(* inside a save of the port file has made it forget, now or at an earlier *)
(* restart, and no start has allocated again.                              *)
RecoversAll ==
  [][Crash => \A k \in Key : k \in up' \ forgotten' <=> reg'[k] # None]_vars

(* An accepted request ends, whatever it queued behind.                    *)
RequestsEnd == \A t \in Task : pc[t] = "wait" ~> pc[t] = "idle"

=============================================================================
