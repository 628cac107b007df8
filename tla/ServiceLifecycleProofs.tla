----------------------- MODULE ServiceLifecycleProofs -----------------------
(***************************************************************************)
(* Proofs about ServiceLifecycle, for any set of keys, instances, tasks    *)
(* and cleanups, any requests and any faults.  The inductive invariant     *)
(* ties the lock of an instance, the label of its holder and the state of  *)
(* the instance together; each kind of step (within the lock, taking it,   *)
(* giving it back) preserves it for one reason, stated once as a lemma.    *)
(***************************************************************************)
EXTENDS ServiceLifecycle, TLAPS

(* The holder of a lock works on that instance. *)
LockOfHolder ==
  \A i \in Inst : lock[i] # None => on[lock[i]] = i /\ pc[lock[i]] \in LockedLabels

(* STARTING is attended: its half of the property.                         *)
StartsAttended ==
  \A i \in Inst : st[i] = "starting" => lock[i] # None /\ pc[lock[i]] \in StartLabels

(* A queued task knows the instance whose lock it wants. *)
WaiterHasInstance == \A t \in Task : pc[t] = "wait" => on[t] \in Inst

IInv ==
  /\ TypeOK
  /\ HolderFindsItsState
  /\ StartsAttended
  /\ LockOfHolder
  /\ WaiterHasInstance

USE DEF Labels, LockedLabels, StartLabels, StopLabels, States

-----------------------------------------------------------------------------
(* A step of the holder that keeps the lock.                               *)
LEMMA WithinLock ==
  ASSUME IInv,
         NEW t \in Task, pc[t] \in LockedLabels,
         NEW l \in LockedLabels, NEW s \in StateAt(l),
         pc' = [pc EXCEPT ![t] = l],
         st' = [st EXCEPT ![on[t]] = s],
         held' \subseteq Key, up' \subseteq Key, forgotten' \subseteq Key,
         UNCHANGED <<reg, deps, lock, op, on, par, sweep, br>>
  PROVE  IInv'
<1> USE ConstantsAssumption
<1> DEFINE i == on[t]
<1>1. i \in Inst /\ lock[i] = t
  BY DEF IInv, HolderFindsItsState
<1>2. s \in States
  BY DEF StateAt
<1>3. TypeOK'
  BY <1>1, <1>2 DEF IInv, TypeOK
<1>4. \A u \in Task : u # t /\ pc[u] \in LockedLabels => on[u] # i
  BY <1>1 DEF IInv, HolderFindsItsState
<1>5. HolderFindsItsState'
  <2> SUFFICES ASSUME NEW u \in Task, pc'[u] \in LockedLabels
               PROVE  on[u] \in Inst /\ lock[on[u]] = u /\ st'[on[u]] \in StateAt(pc'[u])
    BY DEF HolderFindsItsState, StateAt
  <2>1. CASE u = t
    BY <1>1, <2>1 DEF IInv, TypeOK
  <2>2. CASE u # t
    BY <1>1, <1>4, <2>2 DEF IInv, TypeOK, HolderFindsItsState
  <2> QED BY <2>1, <2>2
<1>6. StartsAttended'
  <2> SUFFICES ASSUME NEW j \in Inst
               PROVE  st'[j] = "starting" => lock[j] # None /\ pc'[lock[j]] \in StartLabels
    BY DEF StartsAttended
  <2>1. CASE j = i
    <3>1. pc'[lock[j]] = l /\ st'[j] = s /\ t # None
      BY <1>1, <2>1 DEF IInv, TypeOK
    <3>2. s = "starting" => l \in StartLabels
      BY DEF StateAt
    <3> QED BY <1>1, <2>1, <3>1, <3>2
  <2>2. CASE j # i
    <3>1. st'[j] = st[j] /\ lock[j] # t
      BY <1>1, <2>2 DEF IInv, TypeOK, LockOfHolder
    <3>2. lock[j] # None => pc'[lock[j]] = pc[lock[j]]
      BY <3>1 DEF IInv, TypeOK
    <3> QED BY <3>1, <3>2 DEF IInv, StartsAttended
  <2> QED BY <2>1, <2>2
<1>7. LockOfHolder'
  BY <1>1 DEF IInv, TypeOK, LockOfHolder
<1>8. WaiterHasInstance'
  BY DEF IInv, TypeOK, WaiterHasInstance
<1> QED BY <1>3, <1>5, <1>6, <1>7, <1>8 DEF IInv

(* The same, when the state does not change either.                        *)
LEMMA WithinLockSameState ==
  ASSUME IInv,
         NEW t \in Task, pc[t] \in LockedLabels,
         NEW l \in LockedLabels, st[on[t]] \in StateAt(l),
         pc' = [pc EXCEPT ![t] = l],
         held' \subseteq Key, up' \subseteq Key, forgotten' \subseteq Key,
         UNCHANGED <<reg, st, deps, lock, op, on, par, sweep, br>>
  PROVE  IInv'
<1>1. st' = [st EXCEPT ![on[t]] = st[on[t]]]
  BY DEF IInv, TypeOK
<1> QED BY <1>1, WithinLock

(* A queued task takes the free lock of its instance.                      *)
LEMMA TakingLock ==
  ASSUME IInv,
         NEW t \in Task, pc[t] = "wait", lock[on[t]] = None,
         NEW l \in LockedLabels, NEW s \in StateAt(l),
         lock' = [lock EXCEPT ![on[t]] = t],
         pc' = [pc EXCEPT ![t] = l],
         st' = [st EXCEPT ![on[t]] = s],
         UNCHANGED <<reg, deps, op, on, par, sweep, br, held, up, forgotten>>
  PROVE  IInv'
<1> USE ConstantsAssumption
<1> DEFINE i == on[t]
<1>1. i \in Inst
  BY DEF IInv, WaiterHasInstance
<1>2. s \in States
  BY DEF StateAt
<1>3. TypeOK'
  BY <1>1, <1>2 DEF IInv, TypeOK
<1>4. \A u \in Task : pc[u] \in LockedLabels => on[u] # i
  BY <1>1 DEF IInv, HolderFindsItsState
<1>5. HolderFindsItsState'
  <2> SUFFICES ASSUME NEW u \in Task, pc'[u] \in LockedLabels
               PROVE  on[u] \in Inst /\ lock'[on[u]] = u /\ st'[on[u]] \in StateAt(pc'[u])
    BY DEF HolderFindsItsState, StateAt
  <2>1. CASE u = t
    BY <1>1, <2>1 DEF IInv, TypeOK
  <2>2. CASE u # t
    BY <1>1, <1>4, <2>2 DEF IInv, TypeOK, HolderFindsItsState
  <2> QED BY <2>1, <2>2
<1>6. StartsAttended'
  <2> SUFFICES ASSUME NEW j \in Inst
               PROVE  st'[j] = "starting" => lock'[j] # None /\ pc'[lock'[j]] \in StartLabels
    BY DEF StartsAttended
  <2>1. CASE j = i
    <3>1. lock'[j] = t /\ pc'[t] = l /\ st'[j] = s /\ t # None
      BY <1>1, <2>1 DEF IInv, TypeOK
    <3>2. s = "starting" => l \in StartLabels
      BY DEF StateAt
    <3> QED BY <3>1, <3>2
  <2>2. CASE j # i
    <3>1. st'[j] = st[j] /\ lock'[j] = lock[j] /\ lock[j] # t
      BY <1>1, <2>2 DEF IInv, TypeOK, LockOfHolder
    <3>2. lock[j] # None => pc'[lock[j]] = pc[lock[j]]
      BY <3>1 DEF IInv, TypeOK
    <3> QED BY <3>1, <3>2 DEF IInv, StartsAttended
  <2> QED BY <2>1, <2>2
<1>7. LockOfHolder'
  BY <1>1 DEF IInv, TypeOK, LockOfHolder
<1>8. WaiterHasInstance'
  BY DEF IInv, TypeOK, WaiterHasInstance
<1> QED BY <1>3, <1>5, <1>6, <1>7, <1>8 DEF IInv

(* The same, when the task only looks at the state: a free lock is never   *)
(* on a STARTING service.                                                  *)
LEMMA TakingLockSameState ==
  ASSUME IInv,
         NEW t \in Task, pc[t] = "wait", lock[on[t]] = None,
         NEW l \in LockedLabels \ (StartLabels \cup StopLabels),
         st[on[t]] # "starting" => st[on[t]] \in StateAt(l),
         Lock(t, l),
         UNCHANGED <<reg, st, deps, held, up, forgotten>>
  PROVE  IInv'
<1>1. on[t] \in Inst
  BY DEF IInv, WaiterHasInstance
<1>2. st[on[t]] # "starting"
  BY <1>1 DEF IInv, StartsAttended
<1>3. st' = [st EXCEPT ![on[t]] = st[on[t]]]
  BY <1>1 DEF IInv, TypeOK
<1> DEFINE s == st[on[t]]
<1>4. s \in StateAt(l)
  BY <1>2
<1>5. /\ lock' = [lock EXCEPT ![on[t]] = t]
      /\ pc' = [pc EXCEPT ![t] = l]
      /\ UNCHANGED <<op, on, par, sweep, br>>
  BY DEF Lock, Goto, KeepTask, sweepVars
<1> HIDE DEF s
<1> QED BY <1>2, <1>3, <1>4, <1>5, TakingLock DEF s

(* The holder leaves the lock and ends.                                    *)
LEMMA LeavingLock ==
  ASSUME IInv,
         NEW t \in Task, pc[t] \in LockedLabels,
         NEW s \in States \ {"starting"},
         lock' = [lock EXCEPT ![on[t]] = None],
         End(t),
         st' = [st EXCEPT ![on[t]] = s],
         reg' \in [Key -> Inst \cup {None}],
         held' \subseteq Key, up' \subseteq Key, forgotten' \subseteq Key,
         UNCHANGED <<deps, sweep, br>>
  PROVE  IInv'
<1> USE ConstantsAssumption DEF End
<1> DEFINE i == on[t]
<1>1. i \in Inst /\ lock[i] = t
  BY DEF IInv, HolderFindsItsState
<1>2. TypeOK'
  BY <1>1 DEF IInv, TypeOK
<1>3. \A u \in Task : u # t /\ pc[u] \in LockedLabels => on[u] # i
  BY <1>1 DEF IInv, HolderFindsItsState
<1>4. HolderFindsItsState'
  <2> SUFFICES ASSUME NEW u \in Task, pc'[u] \in LockedLabels
               PROVE  /\ on'[u] \in Inst /\ lock'[on'[u]] = u
                      /\ st'[on'[u]] \in StateAt(pc'[u])
    BY DEF HolderFindsItsState, StateAt
  <2>1. u # t /\ pc'[u] = pc[u] /\ on'[u] = on[u]
    BY DEF IInv, TypeOK
  <2> QED BY <1>1, <1>3, <2>1 DEF IInv, TypeOK, HolderFindsItsState
<1>5. StartsAttended'
  <2> SUFFICES ASSUME NEW j \in Inst
               PROVE  st'[j] = "starting" => lock'[j] # None /\ pc'[lock'[j]] \in StartLabels
    BY DEF StartsAttended
  <2>1. CASE j = i
    BY <1>1, <2>1 DEF IInv, TypeOK
  <2>2. CASE j # i
    <3>1. st'[j] = st[j] /\ lock'[j] = lock[j] /\ lock[j] # t
      BY <1>1, <2>2 DEF IInv, TypeOK, LockOfHolder
    <3>2. lock[j] # None => pc'[lock[j]] = pc[lock[j]]
      BY <3>1 DEF IInv, TypeOK
    <3> QED BY <3>1, <3>2 DEF IInv, StartsAttended
  <2> QED BY <2>1, <2>2
<1>6. LockOfHolder'
  BY <1>1 DEF IInv, TypeOK, LockOfHolder
<1>7. WaiterHasInstance'
  BY DEF IInv, TypeOK, WaiterHasInstance
<1> QED BY <1>2, <1>4, <1>5, <1>6, <1>7 DEF IInv

-----------------------------------------------------------------------------
(* Steps that are not one task's work on its instance.                     *)

LEMMA InitIInv == Init => IInv
BY ConstantsAssumption
   DEF Init, IInv, TypeOK, HolderFindsItsState, StartsAttended, LockOfHolder,
       WaiterHasInstance

(* A new queued task.                                                      *)
LEMMA RequestIInv ==
  ASSUME IInv, NEW t \in Task, NEW o \in Requests, NEW k \in Key, Request(t, o, k)
  PROVE  IInv'
<1> USE ConstantsAssumption
<1> USE DEF Request, Spawn, Registered
<1>1. pc[t] = "idle" /\ reg[k] \in Inst /\ o \in Ops
  BY DEF IInv, TypeOK, Ops, AllRequests
<1>2. TypeOK'
  BY <1>1 DEF IInv, TypeOK, sweepVars
<1>3. \A i \in Inst : lock[i] # t
  BY <1>1 DEF IInv, TypeOK, LockOfHolder
<1>4. HolderFindsItsState'
  BY <1>1 DEF IInv, TypeOK, HolderFindsItsState, StateAt
<1>5. StartsAttended'
  BY <1>3 DEF IInv, TypeOK, StartsAttended
<1>6. LockOfHolder'
  BY <1>3 DEF IInv, TypeOK, LockOfHolder
<1>7. WaiterHasInstance'
  BY <1>1 DEF IInv, TypeOK, WaiterHasInstance
<1> QED BY <1>2, <1>4, <1>5, <1>6, <1>7 DEF IInv

(* A new instance is one no task refers to.                                *)
LEMMA RegisterIInv ==
  ASSUME IInv, NEW k \in Key, NEW i \in Inst, Register(k, i)
  PROVE  IInv'
<1> USE ConstantsAssumption
<1> USE DEF Register, Unreferenced, SetState, taskVars, sweepVars
<1>1. TypeOK'
  BY DEF IInv, TypeOK
<1>2. HolderFindsItsState'
  BY DEF IInv, TypeOK, HolderFindsItsState, StateAt
<1>3. StartsAttended'
  BY DEF IInv, TypeOK, StartsAttended
<1>4. LockOfHolder' /\ WaiterHasInstance'
  BY DEF IInv, TypeOK, LockOfHolder, WaiterHasInstance
<1> QED BY <1>1, <1>2, <1>3, <1>4 DEF IInv

(* The reapers a cleanup spawns are idle tasks.                            *)
LEMMA CleanupIInv ==
  ASSUME IInv, NEW c \in Sweep, NEW b \in Branch, Cleanup(c, b)
  PROVE  IInv'
<1> USE ConstantsAssumption
<1> DEFINE mine == {reg[k] : k \in {l \in Key : BranchOf[l] = b /\ Registered(l)}}
<1>1. mine \subseteq Inst
  BY DEF IInv, TypeOK, Registered
<1>2. PICK f \in [mine -> {t \in Task : pc[t] = "idle"}] :
        LET reapers == {f[i] : i \in mine}
        IN /\ pc' = [t \in Task |-> IF t \in reapers THEN "wait" ELSE pc[t]]
           /\ op' = [t \in Task |-> IF t \in reapers THEN "reap" ELSE op[t]]
           /\ on' = [t \in Task |-> IF t \in reapers
                                    THEN CHOOSE i \in mine : f[i] = t ELSE on[t]]
           /\ par' = [t \in Task |-> IF t \in reapers THEN c ELSE par[t]]
  BY DEF Cleanup
<1> DEFINE reapers == {f[i] : i \in mine}
<1>3. \A t \in reapers : pc[t] = "idle" /\ pc'[t] = "wait" /\ on'[t] \in Inst
  <2> SUFFICES ASSUME NEW t \in reapers
               PROVE  pc[t] = "idle" /\ pc'[t] = "wait" /\ on'[t] \in Inst
    OBVIOUS
  <2>1. t \in Task /\ pc[t] = "idle" /\ \E i \in mine : f[i] = t
    OBVIOUS
  <2>2. (CHOOSE i \in mine : f[i] = t) \in mine
    BY <2>1
  <2>3. on'[t] = (CHOOSE i \in mine : f[i] = t) /\ pc'[t] = "wait"
    BY <1>2, <2>1
  <2> QED BY <1>1, <2>1, <2>2, <2>3
<1>4. \A t \in Task \ reapers : pc'[t] = pc[t] /\ on'[t] = on[t]
  BY <1>2
<1>5. UNCHANGED <<reg, st, deps, lock, held, up, forgotten>>
  BY DEF Cleanup
<1>6. TypeOK'
  <2>1. on' \in [Task -> Inst \cup {None}]
    <3>1. on' = [t \in Task |-> on'[t]]
      BY <1>2
    <3> QED BY <1>3, <1>4, <3>1 DEF IInv, TypeOK
  <2>2. pc' \in [Task -> Labels] /\ op' \in [Task -> Ops \cup {None}]
        /\ par' \in [Task -> Sweep \cup {None}]
    BY <1>2 DEF IInv, TypeOK, Ops
  <2>3. sweep' \in [Sweep -> {"idle", "gather", "volumes"}]
        /\ br' \in [Sweep -> Branch \cup {None}]
    BY DEF Cleanup, IInv, TypeOK
  <2> QED BY <1>5, <2>1, <2>2, <2>3 DEF IInv, TypeOK
<1>7. \A t \in Task : pc'[t] \in LockedLabels => pc'[t] = pc[t] /\ on'[t] = on[t]
  BY <1>3, <1>4
<1>8. \A t \in Task : pc[t] \in LockedLabels => pc'[t] = pc[t] /\ on'[t] = on[t]
  BY <1>3, <1>4
<1>9. HolderFindsItsState'
  BY <1>5, <1>7 DEF IInv, HolderFindsItsState, StateAt
<1>10. \A i \in Inst : lock[i] # None =>
          /\ pc'[lock[i]] = pc[lock[i]] /\ on'[lock[i]] = on[lock[i]]
  BY <1>8 DEF IInv, TypeOK, LockOfHolder
<1>11. StartsAttended' /\ LockOfHolder'
  BY <1>5, <1>10 DEF IInv, StartsAttended, LockOfHolder
<1>12. WaiterHasInstance'
  BY <1>3, <1>4 DEF IInv, WaiterHasInstance
<1> QED BY <1>6, <1>9, <1>11, <1>12 DEF IInv

(* A restart: no task, no lock, and only RUNNING instances in the registry. *)
LEMMA CrashIInv ==
  ASSUME IInv, Crash
  PROVE  IInv'
<1> USE ConstantsAssumption
<1>1. held' \subseteq Key
  BY DEF Crash, Recovered, IInv, TypeOK
<1>2. up' \subseteq Key /\ forgotten' \subseteq Key
  <2>1. \A t \in Task : pc[t] = "launch" => Of(t) \in Key
    BY DEF IInv, HolderFindsItsState, Of
  <2> QED BY <2>1 DEF Crash, IInv, TypeOK
<1>3. PICK new \in [held' -> Inst] :
        /\ reg' = [k \in Key |-> IF k \in held' THEN new[k] ELSE None]
        /\ st' = [i \in Inst |-> IF \E k \in held' : new[k] = i
                                 THEN "running" ELSE "stopped"]
        /\ \E templated \in SUBSET {k \in held' : Kind[k] = "compose"} :
             deps' = [i \in Inst |-> IF \E k \in templated : new[k] = i
                                     THEN Needs[KeyOf[i]] ELSE {}]
  BY DEF Crash
<1>4. deps' \in [Inst -> SUBSET Key]
  BY <1>3
<1>5. /\ lock' = [i \in Inst |-> None]
      /\ pc' = [t \in Task |-> "idle"]
      /\ op' = [t \in Task |-> None]
      /\ on' = [t \in Task |-> None]
      /\ par' = [t \in Task |-> None]
      /\ sweep' = [c \in Sweep |-> "idle"]
      /\ br' = [c \in Sweep |-> None]
  BY DEF Crash
<1>6. TypeOK'
  BY <1>1, <1>2, <1>3, <1>4, <1>5 DEF TypeOK
<1>7. \A i \in Inst : st'[i] \in {"running", "stopped"}
  BY <1>3
<1>8. HolderFindsItsState' /\ StartsAttended' /\ LockOfHolder' /\ WaiterHasInstance'
  BY <1>5, <1>7 DEF HolderFindsItsState, StartsAttended, LockOfHolder, WaiterHasInstance
<1> QED BY <1>6, <1>8 DEF IInv

-----------------------------------------------------------------------------
(* The steps of one task.                                                  *)

(* What the invariant says of a task that holds a lock.                    *)
LEMMA HolderFacts ==
  ASSUME IInv, NEW t \in Task, pc[t] \in LockedLabels
  PROVE  /\ on[t] \in Inst /\ lock[on[t]] = t /\ Of(t) \in Key
         /\ st[on[t]] \in StateAt(pc[t])
         /\ held \subseteq Key /\ up \subseteq Key /\ forgotten \subseteq Key
BY ConstantsAssumption
   DEF IInv, TypeOK, HolderFindsItsState, StartsAttended, Of

(* transition(STARTING) or the early return.                               *)
LEMMA ToStartingIInv ==
  ASSUME IInv, NEW t \in Task, pc[t] \in {"begin", "recheck", "rvol"},
         ToStarting(t),
         UNCHANGED <<reg, deps, lock, op, on, par, sweep, br, held, up, forgotten>>
  PROVE  IInv'
<1> USE HolderFacts DEF ToStarting, Legal, Transitions, Goto, SetState, StateAt
<1>1. CASE Legal(st[on[t]], "starting")
  BY <1>1, WithinLock
<1>2. CASE ~Legal(st[on[t]], "starting")
  BY <1>2, WithinLockSameState
<1> QED BY <1>1, <1>2

(* A start that ends FAILED, wherever it was.                              *)
LEMMA StartFailsIInv ==
  ASSUME IInv, NEW t \in Task, pc[t] \in LockedLabels,
         NEW h, h \subseteq Key, StartFails(t, h),
         up' \subseteq Key, forgotten' \subseteq Key,
         KeepTask, UNCHANGED <<reg, deps, lock>>
  PROVE  IInv'
<1>1. st' = [st EXCEPT ![on[t]] = "failed"] /\ pc' = [pc EXCEPT ![t] = "free"]
      /\ held' \subseteq Key
  BY DEF StartFails, SetState, Goto
<1>2. UNCHANGED <<reg, deps, lock, op, on, par, sweep, br>>
  BY DEF KeepTask, sweepVars
<1>3. "free" \in LockedLabels /\ "failed" \in StateAt("free")
  BY DEF StateAt
<1> QED BY <1>1, <1>2, <1>3, WithinLock

LEMMA StartStepIInv ==
  ASSUME IInv, NEW t \in Task, StartStep(t)
  PROVE  IInv'
<1> USE DEF Goto, SetState, KeepTask, KeepRegistry, sweepVars, StateAt
<1>1. CASE LockStart(t)
  <2> DEFINE l == IF CanStart(Of(t)) THEN "begin" ELSE "free"
  <2>1. pc[t] = "wait" /\ lock[on[t]] = None /\ on[t] \in Inst
    BY <1>1 DEF LockStart, Take, IInv, WaiterHasInstance
  <2>2. l \in LockedLabels \ (StartLabels \cup StopLabels)
    OBVIOUS
  <2>3. st[on[t]] # "starting" => st[on[t]] \in StateAt(l)
    BY <2>1 DEF IInv, TypeOK
  <2>4. Lock(t, l) /\ UNCHANGED <<reg, st, deps, held, up, forgotten>>
    BY <1>1 DEF LockStart
  <2> HIDE DEF l
  <2> QED BY <2>1, <2>2, <2>3, <2>4, TakingLockSameState
<1>2. CASE BeginStart(t)
  BY <1>2, ToStartingIInv DEF BeginStart
<1>3. CASE Allocate(t)
  <2>1. /\ pc[t] \in LockedLabels /\ pc' = [pc EXCEPT ![t] = "launch"]
        /\ held' = held \cup {Of(t)} /\ up' = up /\ forgotten' \subseteq forgotten
        /\ UNCHANGED <<reg, st, deps, lock, op, on, par, sweep, br>>
    BY <1>3 DEF Allocate
  <2>2. st[on[t]] = "starting" /\ held' \subseteq Key /\ up' \subseteq Key /\ forgotten' \subseteq Key
    BY <1>3, <2>1, HolderFacts DEF Allocate
  <2>3. "launch" \in LockedLabels /\ "starting" \in StateAt("launch")
    OBVIOUS
  <2> HIDE DEF Goto, SetState, KeepTask, KeepRegistry, sweepVars, StateAt
  <2> QED BY <2>1, <2>2, <2>3, WithinLockSameState
<1>4. CASE AllocateFails(t)
  <2>1. pc[t] \in LockedLabels /\ KeepTask /\ UNCHANGED <<reg, deps, lock>>
    BY <1>4 DEF AllocateFails
  <2>2. held \subseteq Key /\ held \cup {Of(t)} \subseteq Key /\ up' \subseteq Key
        /\ forgotten' \subseteq Key
    BY <1>4, <2>1, HolderFacts DEF AllocateFails
  <2>3. \E h \in {held, held \cup {Of(t)}} : StartFails(t, h)
    BY <1>4 DEF AllocateFails
  <2> HIDE DEF Goto, SetState, KeepTask, KeepRegistry, sweepVars, StateAt
  <2> QED BY <2>1, <2>2, <2>3, StartFailsIInv
<1>5. CASE Launched(t)
  <2>1. CASE Kind[Of(t)] = "supabase"
    BY <1>5, <2>1, HolderFacts, WithinLockSameState DEF Launched
  <2>2. CASE Kind[Of(t)] # "supabase"
    BY <1>5, <2>2, HolderFacts, WithinLock DEF Launched, StartEnds
  <2> QED BY <2>1, <2>2
<1>6. CASE LaunchFails(t)
  <2>1. CASE Kind[Of(t)] = "supabase"
    BY <1>6, <2>1, HolderFacts, WithinLockSameState DEF LaunchFails
  <2>2. CASE Kind[Of(t)] # "supabase"
    <3>1. /\ pc[t] \in LockedLabels /\ StartFails(t, held \ {Of(t)})
          /\ KeepTask /\ UNCHANGED <<reg, deps, lock, forgotten>>
      BY <1>6, <2>2 DEF LaunchFails
    <3>2. held \ {Of(t)} \subseteq Key /\ up' \subseteq Key /\ forgotten' \subseteq Key
      BY <1>6, <3>1, HolderFacts DEF LaunchFails
    <3> HIDE DEF Goto, SetState, KeepTask, KeepRegistry, sweepVars, StateAt
    <3> QED BY <3>1, <3>2, StartFailsIInv
  <2> QED BY <2>1, <2>2
<1>7. CASE Probed(t)
  <2>1. CASE op[t] = "reinstall"
    BY <1>7, <2>1, HolderFacts, WithinLock DEF Probed, StartEnds
  <2>2. CASE op[t] # "reinstall"
    BY <1>7, <2>2, HolderFacts, WithinLock DEF Probed, StartEnds
  <2> QED BY <2>1, <2>2
<1>8. CASE Undone(t)
  <2>1. pc[t] \in LockedLabels /\ held \ {Of(t)} \subseteq Key /\ up' \subseteq Key
        /\ forgotten' \subseteq Key /\ UNCHANGED <<reg, deps, lock>>
    BY <1>8, HolderFacts DEF Undone
  <2> HIDE DEF Goto, SetState, KeepTask, KeepRegistry, sweepVars, StateAt
  <2> QED BY <1>8, <2>1, StartFailsIInv DEF Undone
<1>9. CASE StartRaises(t)
  <2>1. pc[t] \in LockedLabels /\ held \subseteq Key /\ up' \subseteq Key
        /\ forgotten' \subseteq Key /\ UNCHANGED <<reg, deps, lock>>
    BY <1>9, HolderFacts DEF StartRaises
  <2> HIDE DEF Goto, SetState, KeepTask, KeepRegistry, sweepVars, StateAt
  <2> QED BY <1>9, <2>1, StartFailsIInv DEF StartRaises
<1> QED BY <1>1, <1>2, <1>3, <1>4, <1>5, <1>6, <1>7, <1>8, <1>9 DEF StartStep

LEMMA StopStepIInv ==
  ASSUME IInv, NEW t \in Task, StopStep(t)
  PROVE  IInv'
<1> USE DEF Goto, SetState, KeepTask, KeepRegistry, sweepVars, StateAt
<1>1. CASE LockStop(t)
  <2> DEFINE l == IF op[t] = "force" \/ st[on[t]] = "running" THEN "stopbegin" ELSE "free"
  <2>1. pc[t] = "wait" /\ lock[on[t]] = None /\ on[t] \in Inst
    BY <1>1 DEF LockStop, Take, IInv, WaiterHasInstance
  <2>2. l \in LockedLabels \ (StartLabels \cup StopLabels)
    OBVIOUS
  <2>3. st[on[t]] # "starting" => st[on[t]] \in StateAt(l)
    BY <2>1 DEF IInv, TypeOK
  <2>4. Lock(t, l) /\ UNCHANGED <<reg, st, deps, held, up, forgotten>>
    BY <1>1 DEF LockStop
  <2> HIDE DEF l
  <2> QED BY <2>1, <2>2, <2>3, <2>4, TakingLockSameState
<1>2. CASE BeginStop(t)
  <2> USE <1>2, HolderFacts DEF BeginStop, Legal, Transitions
  <2>1. CASE op[t] = "force" /\ st[on[t]] \in {"failed", "stopping"}
    BY <2>1, WithinLock
  <2>2. CASE ~(op[t] = "force" /\ st[on[t]] \in {"failed", "stopping"})
             /\ Legal(st[on[t]], "stopping")
    BY <2>2, WithinLock
  <2>3. CASE ~(op[t] = "force" /\ st[on[t]] \in {"failed", "stopping"})
             /\ ~Legal(st[on[t]], "stopping")
    BY <2>3, WithinLockSameState
  <2> QED BY <2>1, <2>2, <2>3
<1>3. CASE Recheck(t)
  <2>1. CASE CanStart(Of(t))
    BY <1>3, <2>1, ToStartingIInv DEF Recheck
  <2>2. CASE ~CanStart(Of(t))
    BY <1>3, <2>2, HolderFacts, WithinLockSameState DEF Recheck
  <2> QED BY <2>1, <2>2
<1>4. CASE Halted(t)
  <2>1. CASE Kind[Of(t)] = "supabase"
    BY <1>4, <2>1, HolderFacts, WithinLockSameState DEF Halted
  <2>2. CASE Kind[Of(t)] # "supabase"
    BY <1>4, <2>2, HolderFacts, WithinLock DEF Halted, StopEnds
  <2> QED BY <2>1, <2>2
<1>5. CASE Restored(t)
  <2>1. CASE op[t] = "restart"
    BY <1>5, <2>1, HolderFacts, WithinLock DEF Restored, StopEnds
  <2>2. CASE op[t] # "restart"
    BY <1>5, <2>2, HolderFacts, WithinLock DEF Restored, StopEnds
  <2> QED BY <2>1, <2>2
<1>6. CASE HaltFails(t)
  BY <1>6, HolderFacts, WithinLock DEF HaltFails
<1>7. CASE StopRaises(t)
  BY <1>7, HolderFacts, WithinLock DEF StopRaises
<1> QED BY <1>1, <1>2, <1>3, <1>4, <1>5, <1>6, <1>7 DEF StopStep

LEMMA ReinstallStepIInv ==
  ASSUME IInv, NEW t \in Task, ReinstallStep(t)
  PROVE  IInv'
<1> USE DEF Goto, SetState, KeepTask, KeepRegistry, sweepVars, StateAt
<1>1. CASE LockRunning(t)
  <2> DEFINE l == IF st[on[t]] # "running" THEN "free"
                ELSE IF op[t] = "reinstall" THEN "stale" ELSE "migrate"
  <2>1. pc[t] = "wait" /\ lock[on[t]] = None /\ on[t] \in Inst
    BY <1>1 DEF LockRunning, Take, IInv, WaiterHasInstance
  <2>2. l \in LockedLabels \ (StartLabels \cup StopLabels)
    OBVIOUS
  <2>3. st[on[t]] # "starting" => st[on[t]] \in StateAt(l)
    BY <2>1 DEF IInv, TypeOK
  <2>4. Lock(t, l) /\ UNCHANGED <<reg, st, deps, held, up, forgotten>>
    BY <1>1 DEF LockRunning
  <2> HIDE DEF l
  <2> QED BY <2>1, <2>2, <2>3, <2>4, TakingLockSameState
<1>2. CASE UpToDate(t)
  BY <1>2, HolderFacts, WithinLockSameState DEF UpToDate
<1>3. CASE Stale(t)
  BY <1>3, HolderFacts, WithinLock DEF Stale
<1>4. CASE ContainerStopped(t)
  BY <1>4, HolderFacts, WithinLockSameState DEF ContainerStopped
<1>5. CASE ContainerRemoved(t)
  BY <1>5, HolderFacts, WithinLock DEF ContainerRemoved
<1>6. CASE ReinstallFails(t)
  BY <1>6, HolderFacts, WithinLock DEF ReinstallFails
<1>7. CASE ReinstallRaises(t)
  BY <1>7, HolderFacts, WithinLockSameState DEF ReinstallRaises
<1>8. CASE ReleaseForReinstall(t)
  BY <1>8, HolderFacts, WithinLockSameState DEF ReleaseForReinstall
<1>9. CASE VolumeRemoved(t)
  BY <1>9, ToStartingIInv DEF VolumeRemoved
<1>10. CASE VolumeFails(t)
  BY <1>10, HolderFacts, WithinLockSameState DEF VolumeFails, Legal, Transitions
<1>11. CASE Verified(t)
  BY <1>11, HolderFacts, WithinLockSameState DEF Verified
<1>12. CASE Migrated(t)
  BY <1>12, HolderFacts, WithinLockSameState DEF Migrated
<1> QED BY <1>1, <1>2, <1>3, <1>4, <1>5, <1>6, <1>7, <1>8, <1>9, <1>10, <1>11, <1>12
        DEF ReinstallStep

LEMMA CleanupStepIInv ==
  ASSUME IInv, NEW t \in Task, CleanupStep(t)
  PROVE  IInv'
<1> USE DEF Goto, SetState, KeepTask, KeepRegistry, sweepVars, StateAt
<1>1. CASE LockReap(t)
  <2>1. pc[t] = "wait" /\ lock[on[t]] = None /\ on[t] \in Inst
    BY <1>1 DEF LockReap, Take, IInv, WaiterHasInstance
  <2>2. st[on[t]] \in {"running", "stopping"}
    BY <1>1, <2>1 DEF LockReap, IInv, StartsAttended
  <2>3. st' = [st EXCEPT ![on[t]] = "stopping"]
    BY <1>1, <2>1, <2>2 DEF LockReap, IInv, TypeOK
  <2> QED BY <1>1, <2>1, <2>3, TakingLock DEF LockReap, Lock
<1>2. CASE LockReapIdle(t)
  <2> USE ConstantsAssumption DEF LockReapIdle, Take, End
  <2>1. pc[t] = "wait" /\ on[t] \in Inst /\ Of(t) \in Key
    BY <1>2 DEF IInv, WaiterHasInstance, Of
  <2>2. \A i \in Inst : lock[i] # t
    BY <2>1 DEF IInv, TypeOK, LockOfHolder
  <2>3. TypeOK'
    BY <1>2, <2>1 DEF IInv, TypeOK
  <2>4. HolderFindsItsState'
    BY <1>2, <2>1 DEF IInv, TypeOK, HolderFindsItsState
  <2>5. StartsAttended' /\ LockOfHolder' /\ WaiterHasInstance'
    BY <1>2, <2>2 DEF IInv, TypeOK, StartsAttended, LockOfHolder, WaiterHasInstance
  <2> QED BY <2>3, <2>4, <2>5 DEF IInv
<1>3. ReapEnds(t) /\ pc[t] \in StopLabels /\ up' \subseteq Key => IInv'
  <2> SUFFICES ASSUME ReapEnds(t), pc[t] \in StopLabels, up' \subseteq Key
               PROVE  IInv'
    OBVIOUS
  <2>1. reg' \in [Key -> Inst \cup {None}]
    BY HolderFacts DEF ReapEnds, IInv, TypeOK
  <2> QED BY <2>1, HolderFacts, LeavingLock DEF ReapEnds, Unlock
<1>4. CASE Reaped(t)
  <2>1. CASE Kind[Of(t)] = "supabase"
    BY <1>4, <2>1, HolderFacts, WithinLockSameState DEF Reaped
  <2>2. CASE Kind[Of(t)] # "supabase"
    BY <1>3, <1>4, <2>2, HolderFacts DEF Reaped
  <2> QED BY <2>1, <2>2
<1>5. CASE ReapRestored(t)
  BY <1>3, <1>5, HolderFacts DEF ReapRestored
<1>6. CASE ReapRaises(t)
  <2>1. st' = [st EXCEPT ![on[t]] = "stopping"]
    BY <1>6, HolderFacts DEF ReapRaises, IInv, TypeOK
  <2>2. reg' \in [Key -> Inst \cup {None}]
    BY <1>6 DEF ReapRaises, IInv, TypeOK
  <2> QED BY <1>6, <2>1, <2>2, HolderFacts, LeavingLock DEF ReapRaises, Unlock
<1> QED BY <1>1, <1>2, <1>4, <1>5, <1>6 DEF CleanupStep

LEMMA FinishIInv ==
  ASSUME IInv, NEW t \in Task, Finish(t)
  PROVE  IInv'
<1> DEFINE s == st[on[t]]
<1>1. pc[t] = "free" /\ pc[t] \in LockedLabels
  BY DEF Finish
<1>2. s \in States \ {"starting"}
  BY <1>1, HolderFacts DEF StateAt
<1>3. st' = [st EXCEPT ![on[t]] = s]
  BY DEF Finish, IInv, TypeOK
<1>4. reg' \in [Key -> Inst \cup {None}] /\ held' \subseteq Key /\ up' \subseteq Key
      /\ forgotten' \subseteq Key
  BY DEF Finish, IInv, TypeOK
<1>5. /\ lock' = [lock EXCEPT ![on[t]] = None]
      /\ End(t)
      /\ UNCHANGED <<deps, sweep, br>>
  BY DEF Finish, Unlock, sweepVars
<1> HIDE DEF s
<1> QED BY <1>1, <1>2, <1>3, <1>4, <1>5, LeavingLock

-----------------------------------------------------------------------------
(* The invariant.                                                          *)

LEMMA NextIInv ==
  ASSUME IInv, [Next]_vars
  PROVE  IInv'
<1>1. ASSUME NEW t \in Task, TaskStep(t) PROVE IInv'
  BY <1>1, StartStepIInv, StopStepIInv, ReinstallStepIInv, CleanupStepIInv, FinishIInv
     DEF TaskStep
<1>2. ASSUME NEW t \in Task, NEW o \in Requests, NEW k \in Key, Request(t, o, k)
      PROVE  IInv'
  BY <1>2, RequestIInv
<1>3. ASSUME NEW c \in Sweep, NEW b \in Branch, Cleanup(c, b) PROVE IInv'
  BY <1>3, CleanupIInv
<1>4. ASSUME NEW c \in Sweep, Gathered(c) PROVE IInv'
  BY <1>4, ConstantsAssumption
     DEF Gathered, taskVars, IInv, TypeOK, HolderFindsItsState, StartsAttended,
         LockOfHolder, WaiterHasInstance, StateAt
<1>5. ASSUME NEW c \in Sweep, VolumesRemoved(c) PROVE IInv'
  BY <1>5, ConstantsAssumption
     DEF VolumesRemoved, taskVars, IInv, TypeOK, HolderFindsItsState, StartsAttended,
         LockOfHolder, WaiterHasInstance, StateAt
<1>6. ASSUME NEW k \in Key, Unregister(k) PROVE IInv'
  BY <1>6, ConstantsAssumption
     DEF Unregister, Unallocated, taskVars, sweepVars, IInv, TypeOK, HolderFindsItsState, StartsAttended,
         LockOfHolder, WaiterHasInstance, StateAt
<1>7. ASSUME NEW k \in Key, NEW i \in Inst, Register(k, i) PROVE IInv'
  BY <1>7, RegisterIInv
<1>8. CASE Crash
  BY <1>8, CrashIInv
<1>9. CASE UNCHANGED vars
  BY <1>9 DEF vars, IInv, TypeOK, HolderFindsItsState, StartsAttended,
              LockOfHolder, WaiterHasInstance, StateAt
<1> QED BY <1>1, <1>2, <1>3, <1>4, <1>5, <1>6, <1>7, <1>8, <1>9 DEF Next

(* The lock of a service, the label of its holder and the state of the     *)
(* service agree in every reachable state.                                 *)
THEOREM Invariant == Spec => []IInv
BY InitIInv, NextIInv, PTL DEF Spec

(* Every variable keeps its type.                                          *)
THEOREM TypeCorrect == Spec => []TypeOK
BY Invariant, PTL DEF IInv

(* A task at work holds the lock of its service, alone, and finds it in    *)
(* the state it was written for, whatever was requested and whatever fails *)
(* around it: no transition() inside an operation raises because another   *)
(* task moved the service.                                                 *)
THEOREM HoldersFindTheirState == Spec => []HolderFindsItsState
BY Invariant, PTL DEF IInv

-----------------------------------------------------------------------------
(* The refinement: ServiceLifecycle implements SerializedService for every *)
(* instance; the lock protocol and the transition table hold through every *)
(* operation.  A task's step on its instance is Acquire, Work or Release   *)
(* of that instance; what it does to any other instance is at most to let  *)
(* go of the last reference to it, which is Drop.                          *)

(* The step of the abstract specification, or a stutter, for instance i.   *)
Implements(i) == [Serialized(i)!Next]_(Serialized(i)!vars)

Follows(i) == st'[i] = st[i] \/ st'[i] \in Transitions[st[i]]

(* A step of task t that changes no state but that of its own instance, by *)
(* the table.                                                              *)
Moves(t) ==
  /\ \A j \in Inst : j # on[t] => st'[j] = st[j]
  /\ Follows(on[t])

(* The three kinds of step a task makes with respect to its lock.          *)
Works(t) == /\ pc[t] \in LockedLabels
            /\ Moves(t)
            /\ UNCHANGED <<reg, on, lock>>

Takes(t) == /\ pc[t] = "wait" /\ lock[on[t]] = None
            /\ Moves(t)
            /\ lock' = [lock EXCEPT ![on[t]] = t]
            /\ UNCHANGED <<reg, on>>

Leaves(t) == /\ pc[t] \in LockedLabels
             /\ Moves(t) /\ st'[on[t]] # "starting"
             /\ lock' = [lock EXCEPT ![on[t]] = None]
             /\ on' = [on EXCEPT ![t] = None]
             /\ \A k \in Key : reg'[k] \in {reg[k], None}

-----------------------------------------------------------------------------
(* The kinds of step.                                                      *)

LEMMA InitImplements ==
  ASSUME Init, NEW i \in Inst
  PROVE  Serialized(i)!Init
BY ConstantsAssumption DEF Init, Serialized!Init, Unreferenced

(* What nobody makes a reference to may lose its last one: only when no    *)
(* task holds its lock, because the holder refers to it.                   *)
LEMMA Letting ==
  ASSUME IInv', NEW i \in Inst,
         lock'[i] = lock[i], st'[i] = st[i],
         Unreferenced(i) => Unreferenced(i)'
  PROVE  Implements(i)
<1>1. CASE Unreferenced(i) <=> Unreferenced(i)'
  BY <1>1 DEF Implements, Serialized!vars
<1>2. CASE ~Unreferenced(i) /\ Unreferenced(i)'
  <2>1. lock'[i] = None
    BY <1>2 DEF IInv, TypeOK, LockOfHolder, Unreferenced
  <2>2. Serialized(i)!Drop
    BY <1>2, <2>1 DEF Serialized!Drop
  <2> QED BY <2>2 DEF Implements, Serialized!Next
<1> QED BY <1>1, <1>2

LEMMA WorksImplements ==
  ASSUME IInv, NEW t \in Task, Works(t), NEW i \in Inst
  PROVE  Implements(i)
<1>1. on[t] \in Inst /\ lock[on[t]] = t /\ t # None
  BY HolderFacts, ConstantsAssumption DEF Works
<1>2. Unreferenced(i)' <=> Unreferenced(i)
  BY DEF Works, Unreferenced
<1>3. CASE i = on[t]
  <2>1. ~Unreferenced(i)
    BY <1>3 DEF Unreferenced
  <2>2. Serialized(i)!Follow /\ lock[i] # None /\ UNCHANGED lock[i]
    BY <1>1, <1>2, <1>3, <2>1 DEF Works, Moves, Follows, Serialized!Follow
  <2>3. Serialized(i)!Work
    BY <2>2 DEF Serialized!Work
  <2> QED BY <2>3 DEF Implements, Serialized!Next
<1>4. CASE i # on[t]
  BY <1>2, <1>4 DEF Works, Moves, Implements, Serialized!vars
<1> QED BY <1>3, <1>4

LEMMA TakesImplements ==
  ASSUME IInv, NEW t \in Task, Takes(t), NEW i \in Inst
  PROVE  Implements(i)
<1>1. on[t] \in Inst /\ lock \in [Inst -> Task \cup {None}]
  BY DEF Takes, IInv, TypeOK, WaiterHasInstance
<1>2. Unreferenced(i)' <=> Unreferenced(i)
  BY DEF Takes, Unreferenced
<1>3. CASE i = on[t]
  <2>1. ~Unreferenced(i)
    BY <1>3 DEF Unreferenced
  <2>2. st[i] # "absent"
    BY DEF IInv, TypeOK
  <2>3. Serialized(i)!Follow /\ lock[i] = None /\ lock'[i] \in Task
    BY <1>1, <1>2, <1>3, <2>1 DEF Takes, Moves, Follows, Serialized!Follow
  <2>4. Serialized(i)!Acquire
    BY <2>1, <2>2, <2>3 DEF Serialized!Acquire
  <2> QED BY <2>4 DEF Implements, Serialized!Next
<1>4. CASE i # on[t]
  BY <1>1, <1>2, <1>4 DEF Takes, Moves, Implements, Serialized!vars
<1> QED BY <1>3, <1>4

LEMMA LeavesImplements ==
  ASSUME IInv, IInv', NEW t \in Task, Leaves(t), NEW i \in Inst
  PROVE  Implements(i)
<1>1. on[t] \in Inst /\ lock[on[t]] = t /\ t # None /\ None \notin Inst
  BY HolderFacts, ConstantsAssumption DEF Leaves
<1>2. Unreferenced(i) => Unreferenced(i)'
  <2>1. \A u \in Task : on'[u] \in {on[u], None}
    BY DEF Leaves, IInv, TypeOK
  <2> QED BY <1>1, <2>1 DEF Leaves, Unreferenced
<1>3. CASE i = on[t]
  <2>1. ~Unreferenced(i)
    BY <1>3 DEF Unreferenced
  <2>2. lock[i] # None /\ lock'[i] = None
    BY <1>1, <1>3 DEF Leaves, IInv, TypeOK
  <2>3. CASE Unreferenced(i)'
    <3>1. Serialized(i)!Release
      BY <2>2, <2>3 DEF Serialized!Release
    <3> QED BY <3>1 DEF Implements, Serialized!Next
  <2>4. CASE ~Unreferenced(i)'
    <3>1. Serialized(i)!Follow /\ st'[i] # "starting"
      BY <1>3, <2>1, <2>4 DEF Leaves, Moves, Follows, Serialized!Follow
    <3>2. Serialized(i)!Release
      BY <2>2, <2>4, <3>1 DEF Serialized!Release
    <3> QED BY <3>2 DEF Implements, Serialized!Next
  <2> QED BY <2>3, <2>4
<1>4. CASE i # on[t]
  <2>1. lock'[i] = lock[i] /\ st'[i] = st[i]
    BY <1>4 DEF Leaves, Moves, IInv, TypeOK
  <2> QED BY <1>2, <2>1, Letting
<1> QED BY <1>3, <1>4

-----------------------------------------------------------------------------
(* The steps of one task.                                                  *)

(* A state set by transition() or by one of its two exceptions.            *)
LEMMA WorksAlone ==
  ASSUME IInv, NEW t \in Task, pc[t] \in LockedLabels,
         KeepTask, UNCHANGED <<reg, lock>>,
         \/ UNCHANGED st
         \/ \E s \in Transitions[st[on[t]]] : SetState(on[t], s)
  PROVE  Works(t)
<1>1. UNCHANGED <<reg, on, lock>>
  BY DEF KeepTask
<1>2. Moves(t)
  BY HolderFacts DEF Moves, Follows, SetState, IInv, TypeOK
<1> QED BY <1>1, <1>2 DEF Works

LEMMA WorksBy ==
  ASSUME IInv, NEW t \in Task, pc[t] \in LockedLabels,
         KeepTask, KeepRegistry, UNCHANGED lock,
         \/ UNCHANGED st
         \/ \E s \in Transitions[st[on[t]]] : SetState(on[t], s)
  PROVE  Works(t)
BY WorksAlone DEF KeepRegistry

LEMMA ToStartingWorks ==
  ASSUME IInv, NEW t \in Task, pc[t] \in LockedLabels, ToStarting(t),
         KeepTask, KeepRegistry, UNCHANGED lock
  PROVE  Works(t)
BY WorksBy DEF ToStarting, Legal

LEMMA StartStepKind ==
  ASSUME IInv, NEW t \in Task, StartStep(t)
  PROVE  Works(t) \/ Takes(t)
<1>1. CASE LockStart(t)
  BY <1>1 DEF LockStart, Take, Lock, KeepTask, Takes, Moves, Follows
<1>2. CASE BeginStart(t)
  BY <1>2, ToStartingWorks DEF BeginStart
<1>3. CASE \/ Allocate(t) \/ AllocateFails(t) \/ Launched(t) \/ LaunchFails(t)
           \/ Probed(t) \/ Undone(t) \/ StartRaises(t)
  <2>1. pc[t] \in StartLabels
    BY <1>3 DEF Allocate, AllocateFails, Launched, LaunchFails, Probed, Undone, StartRaises
  <2>2. {"running", "failed"} \subseteq Transitions[st[on[t]]]
    BY <2>1, HolderFacts DEF StateAt, Transitions
  <2>3. KeepTask /\ UNCHANGED <<reg, lock>>
    BY <1>3 DEF Allocate, AllocateFails, Launched, LaunchFails, Probed, Undone, StartRaises,
                KeepRegistry
  <2>4. UNCHANGED st \/ SetState(on[t], "running") \/ SetState(on[t], "failed")
    BY <1>3 DEF Allocate, AllocateFails, Launched, LaunchFails, Probed, Undone, StartRaises,
                StartEnds, StartFails
  <2>5. UNCHANGED st \/ \E s \in Transitions[st[on[t]]] : SetState(on[t], s)
    BY <2>2, <2>4 DEF SetState
  <2> QED BY <2>1, <2>3, <2>5, WorksAlone
<1> QED BY <1>1, <1>2, <1>3 DEF StartStep

LEMMA StopStepKind ==
  ASSUME IInv, NEW t \in Task, StopStep(t)
  PROVE  Works(t) \/ Takes(t)
<1>1. CASE LockStop(t)
  BY <1>1 DEF LockStop, Take, Lock, KeepTask, Takes, Moves, Follows
<1>2. CASE BeginStop(t)
  <2>1. pc[t] \in LockedLabels /\ KeepTask /\ KeepRegistry /\ UNCHANGED lock
    BY <1>2 DEF BeginStop
  <2>2. st[on[t]] \in {"failed", "stopping"} => "stopped" \in Transitions[st[on[t]]]
    BY DEF Transitions
  <2>3. UNCHANGED st \/ \E s \in Transitions[st[on[t]]] : SetState(on[t], s)
    BY <1>2, <2>2 DEF BeginStop, Legal
  <2> QED BY <2>1, <2>3, WorksBy
<1>3. CASE Recheck(t)
  <2>1. pc[t] \in LockedLabels /\ KeepTask /\ KeepRegistry /\ UNCHANGED lock
    BY <1>3 DEF Recheck
  <2>2. ToStarting(t) \/ UNCHANGED st
    BY <1>3 DEF Recheck
  <2> QED BY <2>1, <2>2, ToStartingWorks, WorksBy
<1>4. CASE Halted(t) \/ Restored(t) \/ HaltFails(t) \/ StopRaises(t)
  <2>1. pc[t] \in StopLabels /\ KeepTask /\ KeepRegistry /\ UNCHANGED lock
    BY <1>4 DEF Halted, Restored, HaltFails, StopRaises
  <2>2. {"stopped", "failed"} \subseteq Transitions[st[on[t]]]
    BY <2>1, HolderFacts DEF StateAt, Transitions
  <2>3. UNCHANGED st \/ SetState(on[t], "stopped") \/ SetState(on[t], "failed")
    BY <1>4 DEF Halted, Restored, HaltFails, StopRaises, StopEnds
  <2> QED BY <2>1, <2>2, <2>3, WorksBy
<1> QED BY <1>1, <1>2, <1>3, <1>4 DEF StopStep

LEMMA ReinstallStepKind ==
  ASSUME IInv, NEW t \in Task, ReinstallStep(t)
  PROVE  Works(t) \/ Takes(t)
<1>1. CASE LockRunning(t)
  BY <1>1 DEF LockRunning, Take, Lock, KeepTask, Takes, Moves, Follows
<1>2. CASE \/ UpToDate(t) \/ ContainerStopped(t) \/ ReinstallRaises(t)
           \/ ReleaseForReinstall(t) \/ Verified(t) \/ Migrated(t)
  BY <1>2, WorksBy DEF UpToDate, ContainerStopped, ReinstallRaises, ReleaseForReinstall,
                       Verified, Migrated
<1>3. CASE Stale(t)
  <2>1. pc[t] \in LockedLabels /\ KeepTask /\ KeepRegistry /\ UNCHANGED lock
        /\ SetState(on[t], "stopping") /\ pc[t] = "stale"
    BY <1>3 DEF Stale
  <2>2. "stopping" \in Transitions[st[on[t]]]
    BY <2>1, HolderFacts DEF StateAt, Transitions
  <2> QED BY <2>1, <2>2, WorksBy
<1>4. CASE ContainerRemoved(t) \/ ReinstallFails(t)
  <2>1. pc[t] \in StopLabels /\ KeepTask /\ KeepRegistry /\ UNCHANGED lock
        /\ (SetState(on[t], "stopped") \/ SetState(on[t], "failed"))
    BY <1>4 DEF ContainerRemoved, ReinstallFails
  <2>2. {"stopped", "failed"} \subseteq Transitions[st[on[t]]]
    BY <2>1, HolderFacts DEF StateAt, Transitions
  <2> QED BY <2>1, <2>2, WorksBy
<1>5. CASE VolumeRemoved(t)
  BY <1>5, ToStartingWorks DEF VolumeRemoved
<1>6. CASE VolumeFails(t)
  BY <1>6, WorksBy DEF VolumeFails, Legal
<1> QED BY <1>1, <1>2, <1>3, <1>4, <1>5, <1>6 DEF ReinstallStep

(* _stop_one: the last part unregisters the key and leaves the lock.       *)
LEMMA CleanupStepKind ==
  ASSUME IInv, NEW t \in Task, CleanupStep(t), ~LockReapIdle(t)
  PROVE  Works(t) \/ Takes(t) \/ Leaves(t)
<1>1. CASE LockReap(t)
  <2>1. on[t] \in Inst
    BY <1>1 DEF LockReap, Take, IInv, WaiterHasInstance
  <2>2. Moves(t)
    BY <1>1, <2>1 DEF LockReap, SetState, Moves, Follows, Transitions, IInv, TypeOK
  <2> QED BY <1>1, <2>2 DEF LockReap, Take, Lock, KeepTask, KeepRegistry, Takes
<1>2. ASSUME pc[t] \in StopLabels, ReapEnds(t) PROVE Leaves(t)
  <2>1. on[t] \in Inst /\ st[on[t]] = "stopping" /\ Of(t) \in Key
    BY <1>2, HolderFacts DEF StateAt
  <2>2. st' = [st EXCEPT ![on[t]] = "stopped"] /\ "stopped" \in Transitions["stopping"]
    BY <1>2 DEF ReapEnds, SetState, Transitions
  <2>3. Moves(t) /\ st'[on[t]] # "starting"
    BY <2>1, <2>2 DEF Moves, Follows, IInv, TypeOK
  <2>4. \A k \in Key : reg'[k] \in {reg[k], None}
    BY <1>2 DEF ReapEnds, IInv, TypeOK
  <2> QED BY <1>2, <2>3, <2>4 DEF ReapEnds, Unlock, End, Leaves
<1>3. CASE Reaped(t)
  <2>1. CASE Kind[Of(t)] = "supabase"
    BY <1>3, <2>1, WorksBy DEF Reaped
  <2>2. CASE Kind[Of(t)] # "supabase"
    BY <1>2, <1>3, <2>2 DEF Reaped
  <2> QED BY <2>1, <2>2
<1>4. CASE ReapRestored(t)
  BY <1>2, <1>4 DEF ReapRestored
<1>5. CASE ReapRaises(t)
  <2>1. pc[t] \in StopLabels
    BY <1>5 DEF ReapRaises
  <2>2. st[on[t]] = "stopping"
    BY <2>1, HolderFacts DEF StateAt
  <2> QED BY <1>5, <2>1, <2>2
          DEF ReapRaises, Unlock, End, KeepRegistry, Leaves, Moves, Follows
<1> QED BY <1>1, <1>3, <1>4, <1>5 DEF CleanupStep

LEMMA FinishKind ==
  ASSUME IInv, NEW t \in Task, Finish(t)
  PROVE  Leaves(t)
<1>1. pc[t] = "free" /\ st[on[t]] # "starting"
  BY HolderFacts DEF Finish, StateAt
<1> QED BY <1>1 DEF Finish, Unlock, End, Leaves, Moves, Follows

-----------------------------------------------------------------------------
(* The steps of handlers, cleanups and the server.                         *)

(* Those after which nothing has a reference that had none.                *)
LEMMA Losing ==
  ASSUME IInv', NEW i \in Inst,
         \/ \E t \in Task : LockReapIdle(t)
         \/ \E t \in Task, o \in Requests, k \in Key : Request(t, o, k)
         \/ \E c \in Sweep : Gathered(c) \/ VolumesRemoved(c)
         \/ \E k \in Key : Unregister(k),
         IInv
  PROVE  Implements(i)
<1> USE ConstantsAssumption
<1>1. lock'[i] = lock[i] /\ st'[i] = st[i]
  BY DEF LockReapIdle, Request, Spawn, Gathered, VolumesRemoved, Unregister
<1>2. Unreferenced(i) => Unreferenced(i)'
  BY DEF LockReapIdle, End, Request, Spawn, Gathered, VolumesRemoved, Unregister, taskVars,
         Unreferenced, IInv, TypeOK, Registered
<1> QED BY <1>1, <1>2, Letting

(* The reapers refer to what the registry refers to.                       *)
LEMMA CleanupImplements ==
  ASSUME IInv, IInv', NEW c \in Sweep, NEW b \in Branch, Cleanup(c, b), NEW i \in Inst
  PROVE  Implements(i)
<1> DEFINE mine == {reg[k] : k \in {l \in Key : BranchOf[l] = b /\ Registered(l)}}
<1>1. PICK f \in [mine -> {t \in Task : pc[t] = "idle"}] :
        on' = [t \in Task |-> IF t \in {f[j] : j \in mine}
                              THEN CHOOSE j \in mine : f[j] = t ELSE on[t]]
  BY DEF Cleanup
<1>2. \A t \in Task : on'[t] \in mine \/ on'[t] = on[t]
  <2> SUFFICES ASSUME NEW t \in Task, t \in {f[j] : j \in mine} PROVE on'[t] \in mine
    BY <1>1
  <2>1. \E j \in mine : f[j] = t
    OBVIOUS
  <2>2. (CHOOSE j \in mine : f[j] = t) \in mine
    BY <2>1
  <2> QED BY <1>1, <2>2
<1>3. UNCHANGED <<reg, st, lock>>
  BY DEF Cleanup
<1>4. Unreferenced(i) => Unreferenced(i)'
  BY <1>2, <1>3 DEF Unreferenced
<1> QED BY <1>3, <1>4, Letting

(* A new instance is the object nothing referred to.                       *)
LEMMA RegisterImplements ==
  ASSUME IInv, IInv', NEW k \in Key, NEW n \in Inst, Register(k, n), NEW i \in Inst
  PROVE  Implements(i)
<1>1. reg' = [reg EXCEPT ![k] = n] /\ st' = [st EXCEPT ![n] = "stopped"]
      /\ UNCHANGED <<lock, on>> /\ Unreferenced(n)
  BY DEF Register, SetState, taskVars
<1>2. CASE i = n
  <2>1. Unreferenced(i) /\ ~Unreferenced(i)' /\ st'[i] = "stopped"
    BY <1>1, <1>2 DEF Unreferenced, IInv, TypeOK
  <2>2. Serialized(i)!Create
    BY <1>1, <2>1 DEF Serialized!Create
  <2> QED BY <2>2 DEF Implements, Serialized!Next
<1>3. CASE i # n
  <2>1. st'[i] = st[i] /\ (Unreferenced(i) => Unreferenced(i)')
    BY <1>1, <1>3 DEF Unreferenced, IInv, TypeOK
  <2> QED BY <1>1, <2>1, Letting
<1> QED BY <1>2, <1>3

(* After a restart an instance is RUNNING in the registry, or nobody's.    *)
LEMMA CrashImplements ==
  ASSUME Crash, NEW i \in Inst
  PROVE  Implements(i)
<1>1. lock'[i] = None /\ \A t \in Task : on'[t] = None
  BY DEF Crash
<1>2. PICK new \in [held' -> Inst] :
        /\ reg' = [k \in Key |-> IF k \in held' THEN new[k] ELSE None]
        /\ st' = [j \in Inst |-> IF \E k \in held' : new[k] = j
                                 THEN "running" ELSE "stopped"]
  BY DEF Crash
<1>3. ~Unreferenced(i)' => st'[i] = "running"
  BY <1>1, <1>2, ConstantsAssumption DEF Unreferenced
<1>4. Serialized(i)!Recover
  BY <1>1, <1>3 DEF Serialized!Recover
<1> QED BY <1>4 DEF Implements, Serialized!Next

-----------------------------------------------------------------------------

LEMMA NextImplements ==
  ASSUME IInv, IInv', Next, NEW i \in Inst
  PROVE  Implements(i)
<1>1. ASSUME NEW t \in Task, TaskStep(t), ~LockReapIdle(t) PROVE Implements(i)
  <2>1. Works(t) \/ Takes(t) \/ Leaves(t)
    BY <1>1, StartStepKind, StopStepKind, ReinstallStepKind, CleanupStepKind, FinishKind
       DEF TaskStep
  <2> QED BY <2>1, WorksImplements, TakesImplements, LeavesImplements
<1>2. CASE \E c \in Sweep, b \in Branch : Cleanup(c, b)
  BY <1>2, CleanupImplements
<1>3. CASE \E k \in Key, n \in Inst : Register(k, n)
  BY <1>3, RegisterImplements
<1>4. CASE Crash
  BY <1>4, CrashImplements
<1> QED BY <1>1, <1>2, <1>3, <1>4, Losing DEF Next

(* Whatever is requested, fails, is registered again or restarted: of each *)
(* ServiceInstance a client sees the table of services.py, followed by one *)
(* task at a time, and no task that leaves the lock in STARTING.           *)
THEOREM Refinement == Spec => SerializedSpec
<1>1. Init => \A i \in Inst : Serialized(i)!Init
  BY InitImplements
<1>2. IInv /\ IInv' /\ [Next]_vars =>
        [\A i \in Inst : [Serialized(i)!Next]_(Serialized(i)!vars)]_vars
  BY NextImplements DEF Implements
<1> QED BY <1>1, <1>2, Invariant, PTL DEF Spec, SerializedSpec

-----------------------------------------------------------------------------
(* What runs, what is recorded and what is registered.  A service that is  *)
(* deleted or cleaned up can be registered again while a task still has    *)
(* its old instance, and that task then releases what the new one uses; so *)
(* these facts are about servers on which no service leaves the registry.  *)

NothingLeaves == Requests \cap {"unregister", "cleanup"} = {}

(* A task that is not idle works on the instance its key is registered as. *)
Permanent ==
  /\ \A c \in Sweep : sweep[c] = "idle"
  /\ \A t \in Task : pc[t] # "idle" => op[t] # "reap" /\ on[t] \in Inst /\ reg[Of(t)] = on[t]
  /\ \A t \in Task : pc[t] \notin {"clean", "cleanrestore"}
  /\ \A k \in Key : reg[k] # None => KeyOf[reg[k]] = k

(* A start under way has its allocation, and its container once it is up.  *)
Backed ==
  /\ RunningIsBacked
  /\ \A t \in Task : pc[t] \in {"launch", "probe"} => Of(t) \in held
  /\ \A t \in Task : pc[t] = "probe" => Of(t) \in up

(* A task gives an allocation back only when its container is down; "undo" *)
(* follows the failure of a command.  What is forgotten is not recorded.   *)
Recorded ==
  /\ UpIsRecorded
  /\ held \cap forgotten = {}
  /\ \A t \in Task : pc[t] \in {"restore", "rrm", "rrel"} => Of(t) \notin up
  /\ \A t \in Task : pc[t] # "undo"

LEMMA OneWorker ==
  ASSUME IInv, Permanent, NEW t \in Task, NEW u \in Task,
         pc[t] \in LockedLabels, pc[u] \in LockedLabels, Of(t) = Of(u)
  PROVE  t = u
<1>1. on[t] = on[u]
  BY DEF Permanent
<1> QED BY <1>1, HolderFacts

(* A step of the task at work on key Of(t) takes care of that key only.    *)
LEMMA WorkBacked ==
  ASSUME IInv, Permanent, Backed,
         NEW t \in Task, pc[t] \in LockedLabels,
         NEW l \in Labels, pc' = [pc EXCEPT ![t] = l],
         \A u \in Task \ {t} : on'[u] = on[u],
         l # "idle" => on'[t] = on[t],
         \A j \in Inst \ {on[t]} : st'[j] = st[j],
         held \ {Of(t)} \subseteq held', up \ {Of(t)} \subseteq up', reg' = reg,
         st'[on[t]] = "running" => Of(t) \in held' /\ Of(t) \in up',
         l \in {"launch", "probe"} => Of(t) \in held',
         l = "probe" => Of(t) \in up'
  PROVE  Backed'
<1>1. ASSUME NEW k \in Key, Registered(k), st'[reg[k]] = "running"
      PROVE  k \in held' /\ k \in up'
  <2>1. reg[k] \in Inst /\ KeyOf[reg[k]] = k
    BY <1>1 DEF Registered, Permanent, IInv, TypeOK
  <2>2. CASE k = Of(t)
    <3>1. reg[k] = on[t]
      BY <2>2 DEF Permanent
    <3> QED BY <1>1, <2>2, <3>1
  <2>3. CASE k # Of(t)
    <3>1. reg[k] # on[t]
      BY <2>1, <2>3 DEF Of
    <3>2. st[reg[k]] = "running"
      BY <1>1, <2>1, <3>1
    <3> QED BY <1>1, <2>3, <3>2 DEF Backed, RunningIsBacked
  <2> QED BY <2>2, <2>3
<1>2. ASSUME NEW u \in Task, pc'[u] \in {"launch", "probe"}
      PROVE  Of(u)' \in held' /\ (pc'[u] = "probe" => Of(u)' \in up')
  <2>1. CASE u = t
    <3>1. pc'[u] = l /\ Of(u)' = Of(t)
      BY <1>2, <2>1 DEF IInv, TypeOK, Of
    <3> QED BY <1>2, <3>1
  <2>2. CASE u # t
    <3>1. pc'[u] = pc[u] /\ Of(u)' = Of(u)
      BY <2>2 DEF IInv, TypeOK, Of
    <3>2. Of(u) # Of(t)
      BY <1>2, <2>2, <3>1, OneWorker
    <3> QED BY <1>2, <3>1, <3>2 DEF Backed
  <2> QED BY <2>1, <2>2
<1> QED BY <1>1, <1>2 DEF Backed, RunningIsBacked, Registered

LEMMA WorkRecorded ==
  ASSUME IInv, Permanent, Recorded,
         NEW t \in Task, pc[t] \in LockedLabels,
         NEW l \in Labels \ {"undo"}, pc' = [pc EXCEPT ![t] = l],
         \A u \in Task \ {t} : on'[u] = on[u],
         l # "idle" => on'[t] = on[t],
         held \ {Of(t)} \subseteq held', up' \ {Of(t)} \subseteq up,
         forgotten \ {Of(t)} \subseteq forgotten', held' \cap forgotten' = {},
         Of(t) \in up' =>
           Of(t) \in held' \cup forgotten' /\ l \notin {"restore", "rrm", "rrel"}
  PROVE  Recorded'
<1>1. UpIsRecorded' /\ (held \cap forgotten = {})'
  BY DEF Recorded, UpIsRecorded
<1>2. ASSUME NEW u \in Task, pc'[u] \in {"restore", "rrm", "rrel"}
      PROVE  Of(u)' \notin up'
  <2>1. CASE u = t
    <3>1. pc'[u] = l /\ Of(u)' = Of(t)
      BY <1>2, <2>1 DEF IInv, TypeOK, Of
    <3> QED BY <1>2, <3>1
  <2>2. CASE u # t
    <3>1. pc'[u] = pc[u] /\ Of(u)' = Of(u)
      BY <2>2 DEF IInv, TypeOK, Of
    <3>2. Of(u) # Of(t)
      BY <1>2, <2>2, <3>1, OneWorker
    <3> QED BY <1>2, <3>1, <3>2 DEF Recorded
  <2> QED BY <2>1, <2>2
<1>3. \A u \in Task : pc'[u] # "undo"
  BY DEF Recorded, IInv, TypeOK
<1> QED BY <1>1, <1>2, <1>3 DEF Recorded

(* What a step of a task at work, or of one that takes its lock, leaves.   *)
Stays(t) ==
  /\ pc[t] # "idle"
  /\ \E l \in LockedLabels \ {"clean", "cleanrestore"} : pc' = [pc EXCEPT ![t] = l]
  /\ reg' = reg /\ on' = on /\ op' = op /\ sweep' = sweep

LEMMA StartStays ==
  ASSUME IInv, NEW t \in Task, StartStep(t)
  PROVE  Stays(t)
<1> USE DEF Stays, KeepTask, KeepRegistry, sweepVars, Goto, SetState
<1>1. CASE LockStart(t)
  BY <1>1 DEF LockStart, Take, Lock
<1>2. CASE BeginStart(t)
  BY <1>2 DEF BeginStart, ToStarting
<1>3. CASE Allocate(t) \/ AllocateFails(t)
  BY <1>3 DEF Allocate, AllocateFails, StartFails
<1>4. CASE Launched(t) \/ Probed(t)
  BY <1>4 DEF Launched, Probed, StartEnds
<1>5. CASE LaunchFails(t)
  BY <1>5 DEF LaunchFails, StartFails
<1>6. CASE Undone(t) \/ StartRaises(t)
  BY <1>6 DEF Undone, StartRaises, StartFails
<1> QED BY <1>1, <1>2, <1>3, <1>4, <1>5, <1>6 DEF StartStep

LEMMA StopStays ==
  ASSUME IInv, NEW t \in Task, StopStep(t)
  PROVE  Stays(t)
<1> USE DEF Stays, KeepTask, KeepRegistry, sweepVars, Goto, SetState
<1>1. CASE LockStop(t)
  BY <1>1 DEF LockStop, Take, Lock
<1>2. CASE BeginStop(t) \/ Recheck(t)
  BY <1>2 DEF BeginStop, Recheck, ToStarting
<1>3. CASE Halted(t) \/ Restored(t)
  BY <1>3 DEF Halted, Restored, StopEnds
<1>4. CASE HaltFails(t) \/ StopRaises(t)
  BY <1>4 DEF HaltFails, StopRaises
<1> QED BY <1>1, <1>2, <1>3, <1>4 DEF StopStep

LEMMA ReinstallStays ==
  ASSUME IInv, NEW t \in Task, ReinstallStep(t)
  PROVE  Stays(t)
<1> USE DEF Stays, KeepTask, KeepRegistry, sweepVars, Goto, SetState
<1>1. CASE LockRunning(t)
  BY <1>1 DEF LockRunning, Take, Lock
<1>2. CASE UpToDate(t) \/ Stale(t) \/ ContainerStopped(t) \/ ContainerRemoved(t)
  BY <1>2 DEF UpToDate, Stale, ContainerStopped, ContainerRemoved
<1>3. CASE ReinstallFails(t) \/ ReinstallRaises(t) \/ ReleaseForReinstall(t)
  BY <1>3 DEF ReinstallFails, ReinstallRaises, ReleaseForReinstall
<1>4. CASE VolumeRemoved(t) \/ VolumeFails(t) \/ Verified(t) \/ Migrated(t)
  BY <1>4 DEF VolumeRemoved, VolumeFails, Verified, Migrated, ToStarting
<1> QED BY <1>1, <1>2, <1>3, <1>4 DEF ReinstallStep

-----------------------------------------------------------------------------
(* Who leaves a service STOPPING.                                          *)

(* What a step of task t leaves STOPPING without attending to it was so    *)
(* before, but for the two exceptions.                                     *)
LeavesNoneStopping(t) ==
  st'[on[t]] = "stopping" /\ pc'[t] \notin StopLabels =>
    \/ st[on[t]] = "stopping" /\ pc[t] \notin StopLabels
    \/ ReinstallRaises(t) \/ ReapRaises(t)

LEMMA StartLeaves ==
  ASSUME IInv, NEW t \in Task, StartStep(t)
  PROVE  LeavesNoneStopping(t)
<1> USE DEF LeavesNoneStopping, Goto, SetState, StateAt, IInv, TypeOK
<1>1. CASE LockStart(t)
  BY <1>1 DEF LockStart, Take
<1>2. CASE BeginStart(t)
  BY <1>2, HolderFacts DEF BeginStart, ToStarting
<1>3. CASE Allocate(t)
  BY <1>3, HolderFacts DEF Allocate
<1>4. CASE AllocateFails(t) \/ Undone(t) \/ StartRaises(t)
  BY <1>4, HolderFacts DEF AllocateFails, Undone, StartRaises, StartFails
<1>5. CASE Launched(t) \/ Probed(t)
  BY <1>5, HolderFacts DEF Launched, Probed, StartEnds
<1>6. CASE LaunchFails(t)
  BY <1>6, HolderFacts DEF LaunchFails, StartFails
<1> QED BY <1>1, <1>2, <1>3, <1>4, <1>5, <1>6 DEF StartStep

LEMMA StopLeaves ==
  ASSUME IInv, NEW t \in Task, StopStep(t)
  PROVE  LeavesNoneStopping(t)
<1> USE DEF LeavesNoneStopping, Goto, SetState, StateAt, IInv, TypeOK
<1>1. CASE LockStop(t)
  BY <1>1 DEF LockStop, Take
<1>2. CASE BeginStop(t)
  BY <1>2, HolderFacts DEF BeginStop
<1>3. CASE Recheck(t)
  BY <1>3, HolderFacts DEF Recheck, ToStarting
<1>4. CASE Halted(t) \/ Restored(t)
  BY <1>4, HolderFacts DEF Halted, Restored, StopEnds
<1>5. CASE HaltFails(t) \/ StopRaises(t)
  BY <1>5, HolderFacts DEF HaltFails, StopRaises
<1> QED BY <1>1, <1>2, <1>3, <1>4, <1>5 DEF StopStep

LEMMA ReinstallLeaves ==
  ASSUME IInv, NEW t \in Task, ReinstallStep(t)
  PROVE  LeavesNoneStopping(t)
<1> USE DEF LeavesNoneStopping, Goto, SetState, StateAt, IInv, TypeOK
<1>1. CASE LockRunning(t)
  BY <1>1 DEF LockRunning, Take
<1>2. CASE UpToDate(t) \/ Stale(t) \/ Verified(t) \/ Migrated(t)
  BY <1>2, HolderFacts DEF UpToDate, Stale, Verified, Migrated
<1>3. CASE ContainerStopped(t) \/ ContainerRemoved(t) \/ ReinstallFails(t)
  BY <1>3, HolderFacts DEF ContainerStopped, ContainerRemoved, ReinstallFails
<1>4. CASE ReleaseForReinstall(t) \/ VolumeRemoved(t) \/ VolumeFails(t)
  BY <1>4, HolderFacts DEF ReleaseForReinstall, VolumeRemoved, VolumeFails, ToStarting
<1> QED BY <1>1, <1>2, <1>3, <1>4 DEF ReinstallStep

LEMMA CleanupLeaves ==
  ASSUME IInv, NEW t \in Task, CleanupStep(t)
  PROVE  LeavesNoneStopping(t)
<1> USE DEF LeavesNoneStopping, Goto, SetState, StateAt, IInv, TypeOK
<1>1. CASE LockReap(t)
  BY <1>1, HolderFacts DEF LockReap, Take, Lock
<1>2. CASE LockReapIdle(t)
  BY <1>2 DEF LockReapIdle, Take
<1>3. CASE Reaped(t) \/ ReapRestored(t)
  BY <1>3, HolderFacts DEF Reaped, ReapRestored, ReapEnds
<1> QED BY <1>1, <1>2, <1>3 DEF CleanupStep

(* A step of a task changes its own label and the state of its instance,   *)
(* and what it does to the lock concerns that instance.                    *)
LEMMA TaskTouches ==
  ASSUME IInv, NEW t \in Task, TaskStep(t)
  PROVE  /\ on[t] \in Inst
         /\ \A u \in Task \ {t} : pc'[u] = pc[u]
         /\ \A j \in Inst \ {on[t]} : st'[j] = st[j] /\ lock'[j] = lock[j]
         /\ \/ pc[t] = "wait" /\ (lock[on[t]] = None \/ LockReapIdle(t))
            \/ lock[on[t]] = t
<1>1. on[t] \in Inst /\ (pc[t] = "wait" \/ lock[on[t]] = t)
  BY HolderFacts
     DEF TaskStep, StartStep, StopStep, ReinstallStep, CleanupStep, IInv, WaiterHasInstance,
         LockStart, BeginStart, Allocate, AllocateFails, Launched, LaunchFails, Probed, Undone,
         StartRaises, LockStop, BeginStop, Recheck, Halted, Restored, HaltFails, StopRaises,
         LockRunning, UpToDate, Stale, ContainerStopped, ContainerRemoved, ReinstallFails,
         ReinstallRaises, ReleaseForReinstall, VolumeRemoved, VolumeFails, Verified, Migrated,
         LockReap, LockReapIdle, Reaped, ReapRestored, ReapRaises, Finish, Take
<1>2. CASE LockReapIdle(t)
  BY <1>1, <1>2 DEF LockReapIdle, Take, End, IInv, TypeOK
<1>3. CASE ~LockReapIdle(t)
  <2>1. Works(t) \/ Takes(t) \/ Leaves(t)
    BY <1>3, StartStepKind, StopStepKind, ReinstallStepKind, CleanupStepKind, FinishKind
       DEF TaskStep
  <2>2. \A j \in Inst \ {on[t]} : st'[j] = st[j] /\ lock'[j] = lock[j]
    BY <2>1 DEF Works, Takes, Leaves, Moves, IInv, TypeOK
  <2>3. \E l \in Labels : pc' = [pc EXCEPT ![t] = l]
    <3>1. CASE StartStep(t) \/ StopStep(t) \/ ReinstallStep(t)
      BY <3>1, StartStays, StopStays, ReinstallStays DEF Stays
    <3>2. CASE CleanupStep(t) \/ Finish(t)
      BY <3>2 DEF CleanupStep, LockReap, LockReapIdle, Reaped, ReapRestored, ReapRaises, ReapEnds,
                  Finish, Unlock, End, Lock, Goto
    <3> QED BY <3>1, <3>2 DEF TaskStep
  <2>4. pc[t] = "wait" => lock[on[t]] = None
    BY <2>1 DEF Works, Takes, Leaves
  <2> QED BY <1>1, <2>2, <2>3, <2>4 DEF IInv, TypeOK
<1> QED BY <1>2, <1>3

LEMMA TaskStrands ==
  ASSUME IInv, IInv', NEW t \in Task, TaskStep(t), NEW i \in Inst, Stranded(i)'
  PROVE  Stranded(i) \/ (on[t] = i /\ (ReinstallRaises(t) \/ ReapRaises(t)))
<1>1. LeavesNoneStopping(t)
  <2>1. Finish(t) => LeavesNoneStopping(t)
    BY DEF Finish, LeavesNoneStopping
  <2> QED BY <2>1, StartLeaves, StopLeaves, ReinstallLeaves, CleanupLeaves DEF TaskStep
<1>2. CASE i # on[t]
  <2>1. st'[i] = st[i] /\ lock'[i] = lock[i] /\ lock[i] # t
    BY <1>2, TaskTouches, ConstantsAssumption DEF IInv, TypeOK, LockOfHolder
  <2>2. lock[i] # None => pc'[lock[i]] = pc[lock[i]]
    BY <2>1, TaskTouches DEF IInv, TypeOK
  <2> QED BY <2>1, <2>2 DEF Stranded
<1>3. CASE i = on[t] /\ LockReapIdle(t)
  BY <1>3 DEF LockReapIdle, Stranded
<1>4. CASE i = on[t] /\ ~LockReapIdle(t)
  <2>1. lock[i] \in {None, t} /\ (lock[i] = None => pc[t] = "wait")
    BY <1>4, TaskTouches, ConstantsAssumption
  <2>2. pc'[t] \notin StopLabels
    <3>1. pc'[t] \in StopLabels => on'[t] = on[t]
      BY <1>4, StartStays, StopStays, ReinstallStays
         DEF TaskStep, Stays, CleanupStep, LockReap, Lock, KeepTask, Reaped, ReapRestored,
             ReapRaises, ReapEnds, Finish, Unlock, End, IInv, TypeOK
    <3>2. pc'[t] \in StopLabels => lock'[i] = t
      BY <1>4, <3>1 DEF IInv, HolderFindsItsState
    <3> QED BY <3>2, ConstantsAssumption DEF Stranded
  <2> QED BY <1>1, <1>4, <2>1, <2>2, ConstantsAssumption DEF LeavesNoneStopping, Stranded
<1> QED BY <1>2, <1>3, <1>4

LEMMA StrandedStep ==
  ASSUME IInv, IInv', [Next]_vars, NEW i \in Inst, Stranded(i)'
  PROVE  Stranded(i) \/ \E t \in Task : on[t] = i /\ (ReinstallRaises(t) \/ ReapRaises(t))
<1>1. CASE \E t \in Task : TaskStep(t)
  BY <1>1, TaskStrands
<1>2. ASSUME NEW t \in Task, NEW o \in Requests, NEW k \in Key, Request(t, o, k)
      PROVE  Stranded(i)
  BY <1>2 DEF Request, Spawn, Stranded, IInv, TypeOK, LockOfHolder
<1>3. ASSUME NEW c \in Sweep, NEW b \in Branch, Cleanup(c, b)
      PROVE  Stranded(i)
  <2>1. \A u \in Task : pc[u] # "idle" => pc'[u] = pc[u]
    BY <1>3 DEF Cleanup
  <2>2. UNCHANGED <<st, lock>>
    BY <1>3 DEF Cleanup
  <2>3. lock[i] # None => pc'[lock[i]] = pc[lock[i]]
    BY <2>1 DEF IInv, TypeOK, LockOfHolder
  <2> QED BY <2>2, <2>3 DEF Stranded
<1>4. ASSUME NEW k \in Key, NEW n \in Inst, Register(k, n) PROVE Stranded(i)
  BY <1>4 DEF Register, SetState, taskVars, Stranded, IInv, TypeOK
<1>5. CASE UNCHANGED <<st, lock, pc>>
  BY <1>5 DEF Stranded
<1>6. CASE Crash
  BY <1>6 DEF Crash, Stranded
<1> QED BY <1>1, <1>2, <1>3, <1>4, <1>5, <1>6
        DEF Next, Gathered, VolumesRemoved, Unregister, taskVars, vars

(* No service is left STARTING without a task that ends it, and none is    *)
(* left STOPPING but by an exception of the docker commands of             *)
(* reinstall-deps or of a cleanup, whatever else fails or raises.          *)
THEOREM ChangesAreAttended == Spec => Attended
<1>1. IInv => \A i \in Inst : st[i] = "starting" => lock[i] # None /\ pc[lock[i]] \in StartLabels
  BY DEF IInv, StartsAttended
<1>2. IInv /\ IInv' /\ [Next]_vars =>
        [\A i \in Inst : Stranded(i)' =>
           \/ Stranded(i)
           \/ \E t \in Task : on[t] = i /\ (ReinstallRaises(t) \/ ReapRaises(t))]_vars
  BY StrandedStep
<1> QED BY <1>1, <1>2, Invariant, PTL DEF Spec, Attended

-----------------------------------------------------------------------------
(* Without requests to unregister and clean up there are no other steps.   *)
LEMMA OtherSteps ==
  ASSUME NothingLeaves, IInv, Permanent, Next,
         \A t \in Task : ~(StartStep(t) \/ StopStep(t) \/ ReinstallStep(t))
  PROVE  \/ \E t \in Task : Finish(t)
         \/ \E t \in Task, o \in Requests, k \in Key : Request(t, o, k)
         \/ \E k \in Key, i \in Inst : Register(k, i)
         \/ Crash
<1>1. \A t \in Task : ~CleanupStep(t)
  BY DEF CleanupStep, LockReap, LockReapIdle, Reaped, ReapRestored, ReapRaises, Take, Permanent
<1>2. \A c \in Sweep, b \in Branch : ~Cleanup(c, b)
  BY DEF NothingLeaves, Cleanup
<1>3. \A c \in Sweep : ~Gathered(c) /\ ~VolumesRemoved(c)
  BY DEF Permanent, Gathered, VolumesRemoved
<1>4. \A k \in Key : ~Unregister(k)
  BY DEF NothingLeaves, Unregister
<1> QED BY <1>1, <1>2, <1>3, <1>4 DEF Next, TaskStep

LEMMA PermanentStep ==
  ASSUME NothingLeaves, IInv, Permanent, [Next]_vars
  PROVE  Permanent'
<1> USE ConstantsAssumption
<1>1. ASSUME NEW t \in Task, Stays(t) PROVE Permanent'
  BY <1>1 DEF Stays, Permanent, IInv, TypeOK, Of
<1>2. ASSUME NEW t \in Task, Finish(t) PROVE Permanent'
  BY <1>2 DEF Finish, Unlock, End, sweepVars, Permanent, IInv, TypeOK, Of
<1>3. ASSUME NEW t \in Task, NEW o \in Requests, NEW k \in Key, Request(t, o, k) PROVE Permanent'
  <2>1. reg[k] \in Inst /\ KeyOf[reg[k]] = k /\ o # "reap"
    BY <1>3 DEF Request, Registered, Permanent, IInv, TypeOK, AllRequests
  <2> QED BY <1>3, <2>1 DEF Request, Spawn, sweepVars, Permanent, IInv, TypeOK, Of
<1>4. ASSUME NEW k \in Key, NEW i \in Inst, Register(k, i) PROVE Permanent'
  <2>1. \A t \in Task : pc[t] # "idle" => Of(t) # k
    BY <1>4 DEF Register, Registered, Permanent
  <2> QED BY <1>4, <2>1 DEF Register, taskVars, sweepVars, Permanent, IInv, TypeOK, Of
<1>5. CASE Crash
  <2>1. PICK new \in [held' -> Inst] :
          /\ \A k \in held' : KeyOf[new[k]] = k
          /\ reg' = [k \in Key |-> IF k \in held' THEN new[k] ELSE None]
    BY <1>5 DEF Crash
  <2>2. /\ pc' = [t \in Task |-> "idle"]
        /\ sweep' = [c \in Sweep |-> "idle"]
    BY <1>5 DEF Crash
  <2> QED BY <2>1, <2>2 DEF Permanent
<1>6. CASE UNCHANGED vars
  BY <1>6 DEF vars, Permanent, Of
<1> QED BY <1>1, <1>2, <1>3, <1>4, <1>5, <1>6, OtherSteps, StartStays, StopStays, ReinstallStays

(* What a running service has, for the task that works on it.              *)
LEMMA OwnBacked ==
  ASSUME IInv, Permanent, Backed,
         NEW t \in Task, pc[t] # "idle", st[on[t]] = "running"
  PROVE  Of(t) \in held /\ Of(t) \in up
<1>1. Of(t) \in Key /\ Registered(Of(t)) /\ reg[Of(t)] = on[t]
  BY ConstantsAssumption DEF Permanent, IInv, TypeOK, Of, Registered
<1> QED BY <1>1 DEF Backed, RunningIsBacked

(* Taking the lock touches no service.                                     *)
LEMMA LockBacked ==
  ASSUME IInv, Backed, NEW t \in Task,
         NEW l \in Labels \ {"launch", "probe"}, Lock(t, l),
         UNCHANGED <<reg, st, held, up>>
  PROVE  Backed'
<1>1. pc' = [pc EXCEPT ![t] = l] /\ on' = on
  BY DEF Lock, Goto, KeepTask
<1> QED BY <1>1 DEF Backed, RunningIsBacked, Registered, IInv, TypeOK, Of

LEMMA StartBacked ==
  ASSUME IInv, Permanent, Backed, NEW t \in Task, StartStep(t)
  PROVE  Backed'
<1> USE DEF KeepTask, KeepRegistry, Goto, SetState, IInv, TypeOK
<1>1. CASE LockStart(t)
  BY <1>1, LockBacked DEF LockStart
<1>2. CASE BeginStart(t)
  <2>1. on[t] \in Inst /\ (st[on[t]] = "running" => Of(t) \in held /\ Of(t) \in up)
    BY <1>2, HolderFacts, OwnBacked DEF BeginStart
  <2> QED BY <1>2, <2>1, WorkBacked DEF BeginStart, ToStarting
<1>3. CASE Allocate(t)
  <2>1. on[t] \in Inst /\ st[on[t]] = "starting"
    BY <1>3, HolderFacts DEF Allocate, StateAt
  <2> QED BY <1>3, <2>1, WorkBacked DEF Allocate
<1>4. CASE AllocateFails(t)
  <2>1. on[t] \in Inst
    BY <1>4, HolderFacts DEF AllocateFails
  <2> QED BY <1>4, <2>1, WorkBacked DEF AllocateFails, StartFails
<1>5. CASE Launched(t)
  <2>1. on[t] \in Inst /\ st[on[t]] = "starting" /\ Of(t) \in held
    BY <1>5, HolderFacts DEF Launched, StateAt, Backed
  <2> QED BY <1>5, <2>1, WorkBacked DEF Launched, StartEnds
<1>6. CASE LaunchFails(t)
  <2>1. on[t] \in Inst /\ st[on[t]] = "starting"
    BY <1>6, HolderFacts DEF LaunchFails, StateAt
  <2> QED BY <1>6, <2>1, WorkBacked DEF LaunchFails, StartFails
<1>7. CASE Probed(t)
  <2>1. on[t] \in Inst /\ Of(t) \in held /\ Of(t) \in up
    BY <1>7, HolderFacts DEF Probed, Backed
  <2> QED BY <1>7, <2>1, WorkBacked DEF Probed, StartEnds
<1>8. CASE Undone(t) \/ StartRaises(t)
  <2>1. on[t] \in Inst
    BY <1>8, HolderFacts DEF Undone, StartRaises
  <2> QED BY <1>8, <2>1, WorkBacked DEF Undone, StartRaises, StartFails
<1> QED BY <1>1, <1>2, <1>3, <1>4, <1>5, <1>6, <1>7, <1>8 DEF StartStep

LEMMA StopBacked ==
  ASSUME IInv, Permanent, Backed, NEW t \in Task, StopStep(t)
  PROVE  Backed'
<1> USE DEF KeepTask, KeepRegistry, Goto, SetState, IInv, TypeOK
<1>1. CASE LockStop(t)
  BY <1>1, LockBacked DEF LockStop
<1>2. CASE BeginStop(t)
  <2>1. on[t] \in Inst /\ (st[on[t]] = "running" => Of(t) \in held /\ Of(t) \in up)
    BY <1>2, HolderFacts, OwnBacked DEF BeginStop
  <2> QED BY <1>2, <2>1, WorkBacked DEF BeginStop
<1>3. CASE Recheck(t)
  <2>1. on[t] \in Inst /\ st[on[t]] = "stopped"
    BY <1>3, HolderFacts DEF Recheck, StateAt
  <2> QED BY <1>3, <2>1, WorkBacked DEF Recheck, ToStarting
<1>4. CASE Halted(t)
  <2>1. on[t] \in Inst /\ st[on[t]] = "stopping"
    BY <1>4, HolderFacts DEF Halted, StateAt
  <2> QED BY <1>4, <2>1, WorkBacked DEF Halted, StopEnds
<1>5. CASE Restored(t)
  <2>1. on[t] \in Inst
    BY <1>5, HolderFacts DEF Restored
  <2> QED BY <1>5, <2>1, WorkBacked DEF Restored, StopEnds
<1>6. CASE HaltFails(t) \/ StopRaises(t)
  <2>1. on[t] \in Inst
    BY <1>6, HolderFacts DEF HaltFails, StopRaises
  <2> QED BY <1>6, <2>1, WorkBacked DEF HaltFails, StopRaises
<1> QED BY <1>1, <1>2, <1>3, <1>4, <1>5, <1>6 DEF StopStep

LEMMA ReinstallBacked ==
  ASSUME IInv, Permanent, Backed, NEW t \in Task, ReinstallStep(t)
  PROVE  Backed'
<1> USE DEF KeepTask, KeepRegistry, Goto, SetState, IInv, TypeOK
<1>1. CASE LockRunning(t)
  BY <1>1, LockBacked DEF LockRunning
<1>2. CASE UpToDate(t) \/ Verified(t) \/ Migrated(t)
  <2>1. on[t] \in Inst /\ (st[on[t]] = "running" => Of(t) \in held /\ Of(t) \in up)
    BY <1>2, HolderFacts, OwnBacked DEF UpToDate, Verified, Migrated
  <2> QED BY <1>2, <2>1, WorkBacked DEF UpToDate, Verified, Migrated
<1>3. CASE Stale(t) \/ ContainerRemoved(t) \/ ReinstallFails(t)
  <2>1. on[t] \in Inst
    BY <1>3, HolderFacts DEF Stale, ContainerRemoved, ReinstallFails
  <2> QED BY <1>3, <2>1, WorkBacked DEF Stale, ContainerRemoved, ReinstallFails
<1>4. CASE ContainerStopped(t) \/ ReinstallRaises(t)
  <2>1. on[t] \in Inst /\ st[on[t]] = "stopping"
    BY <1>4, HolderFacts DEF ContainerStopped, ReinstallRaises, StateAt
  <2> QED BY <1>4, <2>1, WorkBacked DEF ContainerStopped, ReinstallRaises
<1>5. CASE ReleaseForReinstall(t) \/ VolumeRemoved(t) \/ VolumeFails(t)
  <2>1. on[t] \in Inst /\ st[on[t]] = "stopped"
    BY <1>5, HolderFacts DEF ReleaseForReinstall, VolumeRemoved, VolumeFails, StateAt
  <2> QED BY <1>5, <2>1, WorkBacked DEF ReleaseForReinstall, VolumeRemoved, VolumeFails, ToStarting
<1> QED BY <1>1, <1>2, <1>3, <1>4, <1>5 DEF ReinstallStep

LEMMA BackedStep ==
  ASSUME NothingLeaves, IInv, Permanent, Backed, [Next]_vars
  PROVE  Backed'
<1> USE ConstantsAssumption
<1>1. ASSUME NEW t \in Task, Finish(t) PROVE Backed'
  <2>1. on[t] \in Inst /\ (st[on[t]] = "running" => Of(t) \in held /\ Of(t) \in up)
    BY <1>1, HolderFacts, OwnBacked DEF Finish
  <2> QED BY <1>1, <2>1, WorkBacked DEF Finish, Unlock, End, IInv, TypeOK
<1>2. ASSUME NEW t \in Task, NEW o \in Requests, NEW k \in Key, Request(t, o, k) PROVE Backed'
  BY <1>2 DEF Request, Spawn, Backed, RunningIsBacked, Registered, IInv, TypeOK, Of
<1>3. ASSUME NEW k \in Key, NEW i \in Inst, Register(k, i) PROVE Backed'
  <2>1. \A l \in Key \ {k} : reg[l] # i
    BY <1>3 DEF Register, Unreferenced
  <2>2. RunningIsBacked'
    BY <1>3, <2>1 DEF Register, SetState, Backed, RunningIsBacked, Registered, IInv, TypeOK
  <2> QED BY <1>3, <2>2 DEF Register, taskVars, Backed, Of
<1>4. CASE Crash
  <2>1. PICK new \in [held' -> Inst] :
          /\ \A k \in held' : KeyOf[new[k]] = k
          /\ reg' = [k \in Key |-> IF k \in held' THEN new[k] ELSE None]
    BY <1>4 DEF Crash
  <2>2. held' \subseteq up' /\ pc' = [t \in Task |-> "idle"]
    <3>1. held' = held \cap up' \/ held' = {}
      BY <1>4 DEF Crash, Recovered
    <3> QED BY <1>4, <3>1 DEF Crash
  <2>3. \A k \in Key : Registered(k)' => k \in held' \cap up'
    BY <2>1, <2>2 DEF Registered
  <2> QED BY <2>2, <2>3 DEF Backed, RunningIsBacked
<1>5. CASE UNCHANGED vars
  BY <1>5 DEF vars, Backed, RunningIsBacked, Registered, Of
<1> QED BY <1>1, <1>2, <1>3, <1>4, <1>5, OtherSteps, StartBacked, StopBacked, ReinstallBacked

(* Without commands that fail, an allocation is given back only behind a   *)
(* container that is down.                                                 *)
LEMMA LockRecorded ==
  ASSUME IInv, Recorded, NEW t \in Task,
         NEW l \in Labels \ {"undo", "restore", "rrm", "rrel"}, Lock(t, l),
         UNCHANGED <<held, up, forgotten>>
  PROVE  Recorded'
<1>1. pc' = [pc EXCEPT ![t] = l] /\ on' = on
  BY DEF Lock, Goto, KeepTask
<1> QED BY <1>1 DEF Recorded, UpIsRecorded, IInv, TypeOK, Of

LEMMA StartRecorded ==
  ASSUME "fail" \notin Faults, IInv, Permanent, Backed, Recorded,
         NEW t \in Task, StartStep(t)
  PROVE  Recorded'
<1> USE DEF KeepTask, KeepRegistry, Goto, IInv, TypeOK
<1>1. CASE LockStart(t)
  BY <1>1, LockRecorded DEF LockStart
<1>2. CASE BeginStart(t)
  BY <1>2, WorkRecorded DEF BeginStart, ToStarting, Recorded, UpIsRecorded
<1>3. CASE Allocate(t) \/ AllocateFails(t)
  <2>1. Of(t) \in up' => Of(t) \in held' \cup forgotten'
    BY <1>3 DEF Allocate, AllocateFails, StartFails, Recorded, UpIsRecorded
  <2> QED BY <1>3, <2>1, WorkRecorded DEF Allocate, AllocateFails, StartFails, Recorded
<1>4. CASE Launched(t)
  <2>1. Of(t) \in held
    BY <1>4 DEF Launched, Backed
  <2> QED BY <1>4, <2>1, WorkRecorded DEF Launched, StartEnds, Recorded
<1>5. CASE Probed(t)
  BY <1>5, WorkRecorded DEF Probed, StartEnds, Recorded, UpIsRecorded
<1>6. ~Undone(t) /\ ~LaunchFails(t)
  BY DEF Undone, LaunchFails, Recorded
<1>7. CASE StartRaises(t)
  BY <1>7, WorkRecorded DEF StartRaises, StartFails, Recorded, UpIsRecorded
<1> QED BY <1>1, <1>2, <1>3, <1>4, <1>5, <1>6, <1>7 DEF StartStep

LEMMA StopRecorded ==
  ASSUME "fail" \notin Faults, IInv, Permanent, Recorded,
         NEW t \in Task, StopStep(t)
  PROVE  Recorded'
<1> USE DEF KeepTask, KeepRegistry, Goto, IInv, TypeOK
<1>1. CASE LockStop(t)
  BY <1>1, LockRecorded DEF LockStop
<1>2. CASE BeginStop(t) \/ Recheck(t)
  BY <1>2, WorkRecorded DEF BeginStop, Recheck, ToStarting, Recorded, UpIsRecorded
<1>3. CASE Halted(t)
  BY <1>3, WorkRecorded DEF Halted, StopEnds, Recorded
<1>4. CASE Restored(t)
  <2>1. Of(t) \notin up
    BY <1>4 DEF Restored, Recorded
  <2> QED BY <1>4, <2>1, WorkRecorded DEF Restored, StopEnds, Recorded
<1>5. CASE StopRaises(t)
  BY <1>5, WorkRecorded DEF StopRaises, Recorded, UpIsRecorded
<1> QED BY <1>1, <1>2, <1>3, <1>4, <1>5 DEF StopStep, HaltFails

LEMMA ReinstallRecorded ==
  ASSUME "fail" \notin Faults, IInv, Permanent, Recorded,
         NEW t \in Task, ReinstallStep(t)
  PROVE  Recorded'
<1> USE DEF KeepTask, KeepRegistry, Goto, IInv, TypeOK
<1>1. CASE LockRunning(t)
  BY <1>1, LockRecorded DEF LockRunning
<1>2. CASE UpToDate(t) \/ Verified(t) \/ Migrated(t) \/ Stale(t)
  BY <1>2, WorkRecorded
     DEF UpToDate, Verified, Migrated, Stale, Recorded, UpIsRecorded
<1>3. CASE ContainerStopped(t)
  BY <1>3, WorkRecorded DEF ContainerStopped, Recorded
<1>4. CASE ContainerRemoved(t)
  <2>1. Of(t) \notin up
    BY <1>4 DEF ContainerRemoved, Recorded
  <2> QED BY <1>4, <2>1, WorkRecorded DEF ContainerRemoved, Recorded
<1>5. CASE ReleaseForReinstall(t)
  <2>1. Of(t) \notin up
    BY <1>5 DEF ReleaseForReinstall, Recorded
  <2> QED BY <1>5, <2>1, WorkRecorded DEF ReleaseForReinstall, Recorded
<1>6. CASE VolumeRemoved(t) \/ ReinstallRaises(t)
  BY <1>6, WorkRecorded DEF VolumeRemoved, ReinstallRaises, ToStarting, Recorded, UpIsRecorded
<1> QED BY <1>1, <1>2, <1>3, <1>4, <1>5, <1>6
        DEF ReinstallStep, ReinstallFails, VolumeFails

LEMMA RecordedStep ==
  ASSUME NothingLeaves, "fail" \notin Faults,
         IInv, Permanent, Backed, Recorded, [Next]_vars
  PROVE  Recorded'
<1> USE ConstantsAssumption
<1>1. ASSUME NEW t \in Task, Finish(t) PROVE Recorded'
  BY <1>1, WorkRecorded DEF Finish, Unlock, End, Recorded, UpIsRecorded, IInv, TypeOK
<1>2. ASSUME NEW t \in Task, NEW o \in Requests, NEW k \in Key, Request(t, o, k) PROVE Recorded'
  BY <1>2 DEF Request, Spawn, Recorded, UpIsRecorded, IInv, TypeOK, Of
<1>3. ASSUME NEW k \in Key, NEW i \in Inst, Register(k, i) PROVE Recorded'
  BY <1>3 DEF Register, taskVars, Recorded, UpIsRecorded, Of
<1>4. CASE Crash
  <2>1. PICK started \in SUBSET {Of(t) : t \in {u \in Task : pc[u] = "launch"}} :
          up' \subseteq up \cup started
    BY <1>4 DEF Crash
  <2>2. started \subseteq held
    BY <2>1 DEF Backed
  <2>3. /\ \/ held' = held \cap up' /\ forgotten' = forgotten
           \/ held' = {} /\ forgotten' = forgotten \cup held
        /\ pc' = [t \in Task |-> "idle"]
    BY <1>4 DEF Crash, Recovered
  <2> QED BY <2>1, <2>2, <2>3 DEF Recorded, UpIsRecorded
<1>5. CASE UNCHANGED vars
  BY <1>5 DEF vars, Recorded, UpIsRecorded, Of
<1> QED BY <1>1, <1>2, <1>3, <1>4, <1>5, OtherSteps, StartRecorded, StopRecorded, ReinstallRecorded

LEMMA InitKept == Init => Permanent /\ Backed /\ Recorded
BY DEF Init, Permanent, Backed, Recorded, RunningIsBacked, UpIsRecorded, Registered

(* As long as nothing leaves the registry, a service it says is running    *)
(* has its allocation and its container, whatever commands fail, raise or  *)
(* are cut off by a crash of the server.                                   *)
THEOREM RunningServicesAreBacked ==
  ASSUME NothingLeaves
  PROVE  Spec => []RunningIsBacked
<1>1. Init => Permanent /\ Backed
  BY InitKept
<1>2. IInv /\ Permanent /\ Backed /\ [Next]_vars => Permanent' /\ Backed'
  BY PermanentStep, BackedStep
<1>3. Backed => RunningIsBacked
  BY DEF Backed
<1> QED BY <1>1, <1>2, <1>3, Invariant, PTL DEF Spec

(* As long as nothing leaves the registry, the tasks inside operations     *)
(* work on different keys: one operation of a service at a time.           *)
THEOREM OneOperationPerService ==
  ASSUME NothingLeaves
  PROVE  Spec => []SingleFlight
<1>1. Init => Permanent
  BY InitKept
<1>2. IInv /\ Permanent /\ [Next]_vars => Permanent'
  BY PermanentStep
<1>3. IInv /\ Permanent => SingleFlight
  BY OneWorker DEF SingleFlight
<1> QED BY <1>1, <1>2, <1>3, Invariant, PTL DEF Spec

LEMMA CrashRecovers ==
  ASSUME Recorded, "fail" \notin Faults, Backed, Crash
  PROVE  \A k \in Key : k \in up' \ forgotten' <=> reg'[k] # None
<1>1. PICK started \in SUBSET {Of(t) : t \in {u \in Task : pc[u] = "launch"}} :
        up' \subseteq up \cup started
  BY DEF Crash
<1>2. up' \subseteq held \cup forgotten /\ held \cap forgotten = {}
  BY <1>1 DEF Backed, Recorded, UpIsRecorded
<1>3. PICK new \in [held' -> Inst] :
        reg' = [k \in Key |-> IF k \in held' THEN new[k] ELSE None]
  BY DEF Crash
<1>4. \/ held' = held \cap up' /\ forgotten' = forgotten
      \/ held' = {} /\ forgotten' = forgotten \cup held
  BY DEF Crash, Recovered
<1> QED BY <1>2, <1>3, <1>4, ConstantsAssumption

(* As long as nothing leaves the registry and no command reports an error, *)
(* nothing runs on the host without a record but what a torn port file     *)
(* lost, ...                                                               *)
THEOREM WhatRunsIsRecorded ==
  ASSUME NothingLeaves, "fail" \notin Faults
  PROVE  Spec => []UpIsRecorded
<1>1. Init => Permanent /\ Backed /\ Recorded
  BY InitKept
<1>2. IInv /\ Permanent /\ Backed /\ Recorded /\ [Next]_vars
        => Permanent' /\ Backed' /\ Recorded'
  BY PermanentStep, BackedStep, RecordedStep
<1>3. Recorded => UpIsRecorded
  BY DEF Recorded
<1> QED BY <1>1, <1>2, <1>3, Invariant, PTL DEF Spec

(* ... and a server that starts again registers exactly what runs and was  *)
(* not lost so, with the starts and the stops the crash cut off.           *)
THEOREM RestartsRecoverAll ==
  ASSUME NothingLeaves, "fail" \notin Faults
  PROVE  Spec => RecoversAll
<1>1. Init => Permanent /\ Backed /\ Recorded
  BY InitKept
<1>2. IInv /\ Permanent /\ Backed /\ Recorded /\ [Next]_vars
        => Permanent' /\ Backed' /\ Recorded'
  BY PermanentStep, BackedStep, RecordedStep
<1>3. Backed /\ Recorded /\ [Next]_vars
        => [Crash => \A k \in Key : k \in up' \ forgotten' <=> reg'[k] # None]_vars
  BY CrashRecovers
<1> QED BY <1>1, <1>2, <1>3, Invariant, PTL DEF Spec, RecoversAll

=============================================================================
