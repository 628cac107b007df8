---------------------------- MODULE AgentsProofs ----------------------------
(***************************************************************************)
(* The processes of claude the server keeps: the safety of AgentSessions   *)
(* for any number of calls and sessions, then that of Conductors for any   *)
(* number of requests.                                                     *)
(***************************************************************************)
EXTENDS AgentSessions, Conductors, FiniteSetTheorems, TLAPS

(***************************************************************************)
(* Task agents                                                             *)
(***************************************************************************)

(* Where a call is and what it has in hand go together.                    *)
Labels ==
  \A d \in Call :
    /\ at[d] \in {"idle", "unwritten"} => mine[d] = None
    /\ at[d] \notin {"idle", "unwritten", "dropped"} => mine[d] \in Session
    /\ mine[d] # None => status[mine[d]] # "none"
    /\ child[d] # "none" => Taken(d)
    /\ Taken(d) => status[mine[d]] # "pending"

IInv ==
  /\ TypeOK /\ Labels
  /\ OneCallPerSession /\ StatusAgrees /\ CancelFindsProcess /\ CompletedExited

LEMMA InitIInv == Init => IInv
BY ConstantsAssumption
   DEF Init, IInv, TypeOK, Labels, OneCallPerSession, StatusAgrees,
       CancelFindsProcess, CompletedExited, Taken, Session, Running, Awaits, Ended,
       Active, Alive, Exited

-----------------------------------------------------------------------------
(* Making and taking sessions.                                             *)

(* A session no call has taken becomes that of a call that has none yet,   *)
(* or waits for one: st and l say which.                                   *)
LEMMA NewSession ==
  ASSUME IInv,
         NEW d \in Call, at[d] \in {"idle", "created"},
         NEW s \in Session, status[s] \in {"none", "pending"},
         status[s] = "pending" => at'[d] # "created",
         NEW w \in Who, NEW st, NEW l,
         \/ st = "pending" /\ l = "created"
         \/ st = "running" /\ l = "spawn",
         status' = [status EXCEPT ![s] = st],
         who' = [who EXCEPT ![s] = w],
         at' = [at EXCEPT ![d] = l],
         by' = [by EXCEPT ![d] = w],
         mine' = [mine EXCEPT ![d] = s],
         planned' \subseteq Call,
         UNCHANGED <<child, process, pending, hook>>
  PROVE  IInv'
<1> USE ConstantsAssumption
<1>1. TypeOK'
  BY DEF IInv, TypeOK, Awaits, Active, Running
<1>2. s # None /\ at'[d] = l /\ mine'[d] = s /\ by'[d] = w /\ child'[d] = "none"
  BY DEF IInv, TypeOK, Labels, Taken, Session
<1>3. status'[s] = st /\ who'[s] = w
  BY DEF IInv, TypeOK
<1>4. \A e \in Call \ {d} : at'[e] = at[e] /\ mine'[e] = mine[e] /\ by'[e] = by[e]
                            /\ child'[e] = child[e]
  BY DEF IInv, TypeOK
<1>5. \A r \in Session \ {s} : status'[r] = status[r] /\ who'[r] = who[r]
  BY DEF IInv, TypeOK
<1>6. \A e \in Call : Taken(e) => mine[e] \in Session \ {s}
  BY DEF IInv, TypeOK, Labels, Taken
<1>7. ~Taken(d)
  BY DEF IInv, Labels, Taken
<1>8. \A e \in Call \ {d} : Taken(e)' <=> Taken(e)
  BY <1>4 DEF Taken
<1>9. Labels'
  <2> SUFFICES ASSUME NEW e \in Call
               PROVE  /\ at'[e] \in {"idle", "unwritten"} => mine'[e] = None
                      /\ at'[e] \notin {"idle", "unwritten", "dropped"} => mine'[e] \in Session
                      /\ mine'[e] # None => status'[mine'[e]] # "none"
                      /\ child'[e] # "none" => Taken(e)'
                      /\ Taken(e)' => status'[mine'[e]] # "pending"
    BY DEF Labels
  <2>1. CASE e = d
    BY <1>2, <1>3, <2>1 DEF Taken
  <2>2. CASE e # d
    <3>1. mine[e] = s => status'[s] # "none"
      BY <1>3
    <3>2. mine[e] # None => mine[e] \in Session
      BY DEF IInv, TypeOK
    <3>3. mine[e] # None => status'[mine'[e]] # "none"
      BY <1>4, <1>5, <2>2, <3>1, <3>2 DEF IInv, Labels
    <3>4. Taken(e)' => status'[mine'[e]] = status[mine[e]]
      BY <1>4, <1>5, <1>6, <1>8, <2>2
    <3> QED BY <1>4, <1>8, <2>2, <3>3, <3>4 DEF IInv, Labels
  <2> QED BY <2>1, <2>2
<1>10. OneCallPerSession'
  BY <1>2, <1>3, <1>4, <1>5, <1>6, <1>8 DEF IInv, OneCallPerSession
<1>11. StatusAgrees'
  <2>1. \A r \in Session : status'[r] = "running" =>
          \E e \in Call : Taken(e)' /\ mine'[e] = r /\ at'[e] \in Running \cup {"lost"}
    <3> SUFFICES ASSUME NEW r \in Session, status'[r] = "running"
                 PROVE  \E e \in Call : Taken(e)' /\ mine'[e] = r
                                        /\ at'[e] \in Running \cup {"lost"}
      OBVIOUS
    <3>1. CASE r = s
      BY <1>2, <1>3, <3>1 DEF Taken, Running
    <3>2. CASE r # s
      BY <1>4, <1>5, <1>7, <1>8, <3>2 DEF IInv, StatusAgrees
    <3> QED BY <3>1, <3>2
  <2>2. ASSUME NEW e \in Call
        PROVE  /\ at'[e] \in Running => status'[mine'[e]] \in {"running", "cancelled"}
               /\ at'[e] \in {"report", "done"} => status'[mine'[e]] \in Ended
    <3>1. CASE e = d
      BY <1>2, <1>3, <3>1 DEF Running
    <3>2. CASE e # d
      <4>1. at[e] \in Running \cup {"report", "done"} => Taken(e)
        BY ConstantsAssumption DEF IInv, Labels, Taken, Running, Session
      <4> QED BY <1>4, <1>5, <1>6, <3>2, <4>1 DEF IInv, StatusAgrees
    <3> QED BY <3>1, <3>2
  <2> QED BY <2>1, <2>2 DEF StatusAgrees
<1>12. CancelFindsProcess'
  <2>1. \A e \in Call : at[e] \in {"stream", "term", "report"} => Taken(e) /\ e # d
    BY DEF IInv, Labels, Taken, Session
  <2>2. \A r \in Session : process[r] # None => process[r] \in Call \ {d}
    BY <2>1 DEF IInv, TypeOK, CancelFindsProcess
  <2> QED BY <1>2, <1>4, <1>5, <1>6, <2>1, <2>2 DEF IInv, CancelFindsProcess
<1>13. CompletedExited'
  BY <1>3, <1>4, <1>5, <1>7, <1>8 DEF IInv, CompletedExited
<1> QED BY <1>1, <1>9, <1>10, <1>11, <1>12, <1>13 DEF IInv

-----------------------------------------------------------------------------
(* A call and its session.                                                 *)

(* A step of the call that has taken session s, or of its process: l, c,   *)
(* st and p are where they come to, and agree with each other.             *)
LEMMA OwnSession ==
  ASSUME IInv,
         NEW d \in Call, Taken(d), NEW s, s = mine[d],
         NEW l \in Awaits \ {"idle", "created", "unwritten"},
         NEW c \in Alive \cup Exited \cup {"none"},
         NEW st \in {"running"} \cup Ended,
         NEW p \in {d, None},
         st = "running" => l \in Running \cup {"lost"},
         l \in Running => st \in {"running", "cancelled"},
         l \in {"report", "done"} => st \in Ended,
         l \in {"stream", "term"} /\ st = "running" => p = d,
         p = d => l \in {"stream", "term", "report"},
         st = "completed" => c = "ok",
         at' = [at EXCEPT ![d] = l],
         child' = [child EXCEPT ![d] = c],
         status' = [status EXCEPT ![s] = st],
         process' = [process EXCEPT ![s] = p],
         pending' \in [Session -> 0..MaxQuestions],
         UNCHANGED <<who, by, planned, mine, hook>>
  PROVE  IInv'
<1> USE ConstantsAssumption
<1>1. s \in Session /\ s # None
  BY DEF IInv, TypeOK, Taken, Session
<1>2. TypeOK'
  BY <1>1 DEF IInv, TypeOK, Active
<1>3. at'[d] = l /\ child'[d] = c /\ status'[s] = st /\ process'[s] = p
  BY <1>1 DEF IInv, TypeOK
<1>4. \A e \in Call \ {d} : at'[e] = at[e] /\ child'[e] = child[e]
  BY DEF IInv, TypeOK
<1>5. \A r \in Session \ {s} : status'[r] = status[r] /\ process'[r] = process[r]
  BY DEF IInv, TypeOK
<1>6. \A e \in Call : Taken(e)' <=> Taken(e)
  BY <1>1, <1>3, <1>4 DEF Taken
<1>7. \A e \in Call \ {d} : Taken(e) => mine[e] \in Session \ {s}
  BY DEF IInv, TypeOK, OneCallPerSession
<1>8. Labels'
  <2> SUFFICES ASSUME NEW e \in Call
               PROVE  /\ at'[e] \in {"idle", "unwritten"} => mine'[e] = None
                      /\ at'[e] \notin {"idle", "unwritten", "dropped"} => mine'[e] \in Session
                      /\ mine'[e] # None => status'[mine'[e]] # "none"
                      /\ child'[e] # "none" => Taken(e)'
                      /\ Taken(e)' => status'[mine'[e]] # "pending"
    BY DEF Labels
  <2>1. CASE e = d
    BY <1>1, <1>3, <1>6, <2>1 DEF Ended
  <2>2. CASE e # d
    <3>1. mine'[e] # None => mine[e] \in Session /\ status'[mine'[e]] # "none"
      BY <1>3, <1>5 DEF IInv, TypeOK, Labels, Ended
    <3>2. Taken(e)' => status'[mine'[e]] # "pending"
      BY <1>5, <1>6, <1>7, <2>2 DEF IInv, Labels
    <3> QED BY <1>4, <1>6, <2>2, <3>1, <3>2 DEF IInv, Labels
  <2> QED BY <2>1, <2>2
<1>9. OneCallPerSession'
  BY <1>6 DEF IInv, OneCallPerSession
<1>10. StatusAgrees'
  <2>1. \A r \in Session : status'[r] = "running" =>
          \E e \in Call : Taken(e)' /\ mine'[e] = r /\ at'[e] \in Running \cup {"lost"}
    <3> SUFFICES ASSUME NEW r \in Session, status'[r] = "running"
                 PROVE  \E e \in Call : Taken(e)' /\ mine'[e] = r
                                        /\ at'[e] \in Running \cup {"lost"}
      OBVIOUS
    <3>1. CASE r = s
      BY <1>3, <1>6, <3>1
    <3>2. CASE r # s
      BY <1>4, <1>5, <1>6, <3>2 DEF IInv, StatusAgrees
    <3> QED BY <3>1, <3>2
  <2>2. ASSUME NEW e \in Call
        PROVE  /\ at'[e] \in Running => status'[mine'[e]] \in {"running", "cancelled"}
               /\ at'[e] \in {"report", "done"} => status'[mine'[e]] \in Ended
    <3>1. CASE e = d
      BY <1>3, <3>1
    <3>2. CASE e # d
      <4>1. at[e] \in Running \cup {"report", "done"} => Taken(e)
        BY DEF IInv, Labels, Taken, Running, Session
      <4> QED BY <1>4, <1>5, <1>7, <3>2, <4>1 DEF IInv, StatusAgrees
    <3> QED BY <3>1, <3>2
  <2> QED BY <2>1, <2>2 DEF StatusAgrees
<1>11. CancelFindsProcess'
  <2>1. \A e \in Call : at[e] \in {"stream", "term", "report"} => Taken(e)
    BY DEF IInv, Labels, Taken, Session
  <2>2. \A e \in Call : at'[e] \in {"stream", "term"} /\ status'[mine'[e]] = "running"
          => process'[mine'[e]] = e
    <3> SUFFICES ASSUME NEW e \in Call, at'[e] \in {"stream", "term"},
                        status'[mine'[e]] = "running"
                 PROVE  process'[mine'[e]] = e
      OBVIOUS
    <3>1. CASE e = d
      BY <1>3, <3>1
    <3>2. CASE e # d
      BY <1>4, <1>5, <1>7, <2>1, <3>2 DEF IInv, CancelFindsProcess
    <3> QED BY <3>1, <3>2
  <2>3. \A r \in Session : process'[r] # None =>
          mine'[process'[r]] = r /\ at'[process'[r]] \in {"stream", "term", "report"}
    <3> SUFFICES ASSUME NEW r \in Session, process'[r] # None
                 PROVE  mine[process'[r]] = r /\ at'[process'[r]] \in {"stream", "term", "report"}
      OBVIOUS
    <3>1. CASE r = s
      BY <1>3, <3>1
    <3>2. CASE r # s
      <4>1. process'[r] = process[r] /\ process[r] \in Call /\ mine[process[r]] = r
            /\ at[process[r]] \in {"stream", "term", "report"}
        BY <1>5, <3>2 DEF IInv, TypeOK, CancelFindsProcess
      <4> QED BY <1>4, <3>2, <4>1
    <3> QED BY <3>1, <3>2
  <2> QED BY <2>2, <2>3 DEF CancelFindsProcess
<1>12. CompletedExited'
  <2> SUFFICES ASSUME NEW r \in Session, status'[r] = "completed"
               PROVE  \E e \in Call : Taken(e)' /\ mine'[e] = r /\ child'[e] = "ok"
    BY DEF CompletedExited
  <2>1. CASE r = s
    BY <1>3, <1>6, <2>1
  <2>2. CASE r # s
    BY <1>4, <1>5, <1>6, <2>2 DEF IInv, CompletedExited
  <2> QED BY <2>1, <2>2
<1> QED BY <1>2, <1>8, <1>9, <1>10, <1>11, <1>12 DEF IInv

-----------------------------------------------------------------------------
(* The actions.                                                            *)

LEMMA DispatchIInv ==
  ASSUME IInv, NEW d \in Call, NEW w \in Who, Dispatch(d, w)
  PROVE  IInv'
<1>1. PICK s \in Session : Created(s, w, "pending") /\ mine' = [mine EXCEPT ![d] = s]
  BY DEF Dispatch
<1> DEFINE st == "pending"
           l == "created"
<1>2. planned' \subseteq Call /\ UNCHANGED <<child, process, pending, hook>>
  BY DEF Dispatch, IInv, TypeOK
<1>3. at[d] \in {"idle", "created"} /\ at' = [at EXCEPT ![d] = l]
      /\ by' = [by EXCEPT ![d] = w]
  BY DEF Dispatch, Goto
<1>4. /\ status[s] \in {"none", "pending"} /\ status[s] # "pending"
      /\ status' = [status EXCEPT ![s] = st] /\ who' = [who EXCEPT ![s] = w]
  BY <1>1 DEF Created, IsNext
<1>5. st = "pending" /\ l = "created"
  OBVIOUS
<1> HIDE DEF st, l
<1> QED BY <1>1, <1>2, <1>3, <1>4, <1>5, NewSession

(* The session taken is pending, or new.                                   *)
LEMMA TakeIInv ==
  ASSUME IInv, NEW d \in Call, NEW w \in Who, at[d] \in {"idle", "created"},
         Take(d, w), planned' \subseteq Call
  PROVE  IInv'
<1>1. PICK s \in Session :
        /\ mine' = [mine EXCEPT ![d] = s]
        /\ \/ Matches(s, w) /\ status' = [status EXCEPT ![s] = "running"] /\ UNCHANGED who
           \/ Pending(w) = {} /\ Created(s, w, "running")
  BY DEF Take
<1>2. /\ at' = [at EXCEPT ![d] = "spawn"] /\ by' = [by EXCEPT ![d] = w]
      /\ UNCHANGED <<child, process, pending, hook>>
  BY DEF Take, Goto
<1>3. at'[d] # "created"
  BY <1>2 DEF IInv, TypeOK
<1>4. /\ status[s] \in {"none", "pending"}
      /\ status' = [status EXCEPT ![s] = "running"] /\ who' = [who EXCEPT ![s] = w]
  <2>1. CASE Matches(s, w)
    <3>1. who[s] = w /\ status[s] = "pending"
      BY <2>1 DEF Matches, Pending
    <3>2. CASE Pending(w) = {}
      BY <2>1, <3>2 DEF Matches
    <3>3. CASE UNCHANGED who /\ status' = [status EXCEPT ![s] = "running"]
      BY <3>1, <3>3 DEF IInv, TypeOK
    <3> QED BY <1>1, <3>2, <3>3
  <2>2. CASE Created(s, w, "running")
    BY <2>2 DEF Created, IsNext
  <2> QED BY <1>1, <2>1, <2>2
<1> QED BY <1>1, <1>2, <1>3, <1>4, NewSession

(* A call that fails before it has a session.                              *)
LEMMA TakeUnwrittenIInv ==
  ASSUME IInv, NEW d \in Call, NEW w \in Who, at[d] \in {"idle", "created"},
         TakeUnwritten(d, w), planned' \subseteq Call
  PROVE  IInv'
<1> USE ConstantsAssumption
<1>1. \/ UNCHANGED <<status, who>>
      \/ \E s \in Session : Created(s, w, "pending")
  BY DEF TakeUnwritten
<1>2. /\ at' = [at EXCEPT ![d] = "unwritten"] /\ by' = [by EXCEPT ![d] = w]
      /\ mine' = [mine EXCEPT ![d] = None]
      /\ UNCHANGED <<child, process, pending, hook>>
  BY DEF TakeUnwritten, Goto
<1>3. TypeOK'
  BY <1>1, <1>2 DEF IInv, TypeOK, Created, Awaits, Active
<1>4. ~Taken(d) /\ ~Taken(d)' /\ child[d] = "none" /\ mine'[d] = None
      /\ at'[d] = "unwritten"
  BY <1>2 DEF IInv, TypeOK, Labels, Taken
<1>5. \A e \in Call \ {d} : at'[e] = at[e] /\ mine'[e] = mine[e] /\ by'[e] = by[e]
                            /\ (Taken(e)' <=> Taken(e))
  BY <1>2 DEF IInv, TypeOK, Taken
<1>6. \A r \in Session : status[r] # "none" => status'[r] = status[r] /\ who'[r] = who[r]
  BY <1>1 DEF IInv, TypeOK, Created, IsNext
<1>7. \A r \in Session : status[r] = "none" => status'[r] \in {"none", "pending"}
  BY <1>1 DEF IInv, TypeOK, Created
<1>8. \A e \in Call : mine[e] # None => mine[e] \in Session /\ status'[mine[e]] = status[mine[e]]
                                        /\ who'[mine[e]] = who[mine[e]]
  BY <1>6 DEF IInv, TypeOK, Labels
<1>9. Labels'
  <2> SUFFICES ASSUME NEW e \in Call
               PROVE  /\ at'[e] \in {"idle", "unwritten"} => mine'[e] = None
                      /\ at'[e] \notin {"idle", "unwritten", "dropped"} => mine'[e] \in Session
                      /\ mine'[e] # None => status'[mine'[e]] # "none"
                      /\ child'[e] # "none" => Taken(e)'
                      /\ Taken(e)' => status'[mine'[e]] # "pending"
    BY DEF Labels
  <2>1. CASE e = d
    BY <1>2, <1>4, <2>1
  <2>2. CASE e # d
    <3>1. Taken(e) => mine[e] # None
      BY DEF Taken
    <3> QED BY <1>2, <1>5, <1>8, <2>2, <3>1 DEF IInv, Labels
  <2> QED BY <2>1, <2>2
<1>10. OneCallPerSession'
  BY <1>4, <1>5, <1>8 DEF IInv, OneCallPerSession, Taken
<1>11. StatusAgrees'
  <2>1. \A r \in Session : status'[r] = "running" =>
          \E e \in Call : Taken(e)' /\ mine'[e] = r /\ at'[e] \in Running \cup {"lost"}
    <3> SUFFICES ASSUME NEW r \in Session, status'[r] = "running"
                 PROVE  \E e \in Call : Taken(e)' /\ mine'[e] = r
                                        /\ at'[e] \in Running \cup {"lost"}
      OBVIOUS
    <3>1. status[r] = "running"
      BY <1>6, <1>7
    <3>2. PICK e \in Call : Taken(e) /\ mine[e] = r /\ at[e] \in Running \cup {"lost"}
      BY <3>1 DEF IInv, StatusAgrees
    <3>3. e # d
      BY <1>4, <3>2
    <3> QED BY <1>5, <3>2, <3>3
  <2>2. ASSUME NEW e \in Call
        PROVE  /\ at'[e] \in Running => status'[mine'[e]] \in {"running", "cancelled"}
               /\ at'[e] \in {"report", "done"} => status'[mine'[e]] \in Ended
    <3>1. CASE e = d
      BY <1>4, <3>1 DEF Running
    <3>2. CASE e # d
      <4>1. at[e] \in Running \cup {"report", "done"} => mine[e] # None
        BY DEF IInv, Labels, Running, Session
      <4> QED BY <1>5, <1>8, <3>2, <4>1 DEF IInv, StatusAgrees
    <3> QED BY <3>1, <3>2
  <2> QED BY <2>1, <2>2 DEF StatusAgrees
<1>12. CancelFindsProcess'
  <2>1. \A e \in Call : at[e] \in {"stream", "term", "report"} => mine[e] # None /\ e # d
    BY DEF IInv, Labels, Session
  <2>2. \A e \in Call : at'[e] \in {"stream", "term"} => at[e] = at'[e]
    BY <1>4, <1>5
  <2>3. \A e \in Call : at'[e] \in {"stream", "term"} /\ status'[mine'[e]] = "running"
          => process'[mine'[e]] = e
    BY <1>2, <1>5, <1>8, <2>1, <2>2 DEF IInv, CancelFindsProcess
  <2>4. \A r \in Session : process[r] # None => process[r] \in Call \ {d}
    BY <2>1 DEF IInv, TypeOK, CancelFindsProcess
  <2> QED BY <1>2, <1>5, <2>3, <2>4 DEF IInv, CancelFindsProcess
<1>13. CompletedExited'
  BY <1>2, <1>4, <1>5, <1>6, <1>7 DEF IInv, CompletedExited
<1> QED BY <1>3, <1>9, <1>10, <1>11, <1>12, <1>13 DEF IInv

(* What OwnSession asks of a call that tends its session.                  *)
LEMMA TendingFacts ==
  ASSUME IInv, NEW d \in Call, at[d] \in Running \cup {"report"}
  PROVE  /\ Taken(d) /\ mine[d] \in Session
         /\ child[d] \in Alive \cup Exited \cup {"none"}
         /\ at[d] \in Running => status[mine[d]] \in {"running", "cancelled"}
         /\ at[d] = "report" => status[mine[d]] \in Ended
         /\ process[mine[d]] \in {d, None}
         /\ at[d] \in {"stream", "term"} /\ status[mine[d]] = "running"
              => process[mine[d]] = d
         /\ at[d] = "spawn" => process[mine[d]] = None
<1>1. Taken(d) /\ mine[d] \in Session
  BY ConstantsAssumption DEF IInv, Labels, Taken, Running, Session
<1>2. process[mine[d]] # None => Taken(process[mine[d]]) /\ process[mine[d]] \in Call
      /\ mine[process[mine[d]]] = mine[d]
      /\ at[process[mine[d]]] \in {"stream", "term", "report"}
  <2> SUFFICES ASSUME process[mine[d]] # None
               PROVE  Taken(process[mine[d]]) /\ process[mine[d]] \in Call
                      /\ mine[process[mine[d]]] = mine[d]
                      /\ at[process[mine[d]]] \in {"stream", "term", "report"}
    OBVIOUS
  <2>1. /\ process[mine[d]] \in Call /\ mine[process[mine[d]]] = mine[d]
        /\ at[process[mine[d]]] \in {"stream", "term", "report"}
    BY <1>1 DEF IInv, TypeOK, CancelFindsProcess
  <2> QED BY <1>1, <2>1, ConstantsAssumption DEF Taken, Session
<1>3. process[mine[d]] \in {d, None}
  BY <1>1, <1>2 DEF IInv, OneCallPerSession
<1>4. at[d] = "spawn" => process[mine[d]] = None
  BY <1>2, <1>3
<1> QED BY <1>1, <1>3, <1>4 DEF IInv, TypeOK, StatusAgrees, CancelFindsProcess, Running

LEMMA SpawnedIInv ==
  ASSUME IInv, NEW d \in Call, Spawned(d)
  PROVE  IInv'
<1> DEFINE s == mine[d]
           st == status[mine[d]]
<1>1. at[d] \in Running \cup {"report"} /\ at[d] \in Running
  BY DEF Spawned, Running
<1>2. Taken(d) /\ st \in {"running", "cancelled"}
  BY <1>1, TendingFacts
<1>3. /\ at' = [at EXCEPT ![d] = "stream"] /\ child' = [child EXCEPT ![d] = "alive"]
      /\ process' = [process EXCEPT ![s] = d]
      /\ UNCHANGED <<who, by, planned, mine, hook>>
  BY DEF Spawned, Goto, Child, callVars
<1>4. status' = [status EXCEPT ![s] = st] /\ pending' \in [Session -> 0..MaxQuestions]
  BY DEF Spawned, IInv, TypeOK
<1>5. /\ "stream" \in Awaits \ {"idle", "created", "unwritten"} /\ "stream" \in Running
      /\ "alive" \in Alive \cup Exited \cup {"none"}
      /\ st \in {"running"} \cup Ended /\ st # "completed"
  BY <1>2 DEF Awaits, Running, Alive, Ended
<1> HIDE DEF st
<1> QED BY <1>2, <1>3, <1>4, <1>5, OwnSession

(* The session ends, the call reports it; the process stays registered.    *)
LEMMA CloseIInv ==
  ASSUME IInv, NEW d \in Call, at[d] \in Running,
         NEW st \in Ended, NEW c \in Alive \cup Exited \cup {"none"},
         st = "completed" => c = "ok",
         Close(mine[d], st), Goto(d, "report"), Child(d, c),
         UNCHANGED <<who, by, planned, mine, process, hook>>
  PROVE  IInv'
<1> DEFINE s == mine[d]
           p == process[mine[d]]
<1>1. Taken(d) /\ s \in Session /\ p \in {d, None}
  BY TendingFacts
<1>2. /\ at' = [at EXCEPT ![d] = "report"] /\ child' = [child EXCEPT ![d] = c]
      /\ status' = [status EXCEPT ![s] = st]
  BY DEF Close, AnswerAll, Goto, Child
<1>3. process' = [process EXCEPT ![s] = p] /\ pending' \in [Session -> 0..MaxQuestions]
  BY <1>1, ConstantsAssumption DEF Close, AnswerAll, IInv, TypeOK
<1>4. /\ "report" \in Awaits \ {"idle", "created", "unwritten"} /\ "report" \notin Running
      /\ st \in {"running"} \cup Ended /\ st # "running"
  BY DEF Awaits, Running, Ended
<1> HIDE DEF p
<1> QED BY <1>1, <1>2, <1>3, <1>4, OwnSession

LEMMA EndingsIInv ==
  ASSUME IInv, NEW d \in Call, NotFound(d) \/ Finished(d) \/ Killed(d)
  PROVE  IInv'
<1>1. child[d] \in Alive \cup Exited \cup {"none"} /\ child = [child EXCEPT ![d] = child[d]]
  BY DEF IInv, TypeOK
<1>2. CASE NotFound(d)
  BY <1>1, <1>2, CloseIInv DEF NotFound, Child, Running, Ended, callVars
<1>3. CASE Finished(d)
  <2>1. Outcome(d) \in Ended /\ (Outcome(d) = "completed" => child[d] = "ok")
    BY DEF Outcome, Ended
  <2>2. /\ at[d] \in Running /\ Close(mine[d], Outcome(d)) /\ Goto(d, "report")
        /\ UNCHANGED <<who, by, planned, mine, process, hook>> /\ Child(d, child[d])
    BY <1>1, <1>3 DEF Finished, Child, Running, callVars
  <2> QED BY <1>1, <2>1, <2>2, CloseIInv
<1>4. CASE Killed(d)
  <2> DEFINE c == IF child[d] \in Exited THEN child[d] ELSE "error"
  <2>1. /\ at[d] \in Running /\ Close(mine[d], "failed") /\ Goto(d, "report") /\ Child(d, c)
        /\ UNCHANGED <<who, by, planned, mine, process, hook>>
    BY <1>4 DEF Killed, Running, callVars
  <2>2. c \in Alive \cup Exited \cup {"none"} /\ "failed" \in Ended
    BY DEF Exited, Ended
  <2> HIDE DEF c
  <2> QED BY <2>1, <2>2, CloseIInv
<1> QED BY <1>2, <1>3, <1>4

LEMMA TimesOutIInv ==
  ASSUME IInv, NEW d \in Call, TimesOut(d)
  PROVE  IInv'
<1> DEFINE s == mine[d]
           st == status[mine[d]]
           p == process[mine[d]]
           c == Terminated(child[d])
<1>1. at[d] \in Running \cup {"report"} /\ at[d] = "stream" /\ at[d] \in Running
  BY DEF TimesOut, Running
<1>2. /\ Taken(d) /\ s \in Session /\ st \in {"running", "cancelled"} /\ p \in {d, None}
      /\ st = "running" => p = d
  BY <1>1, TendingFacts
<1>3. /\ at' = [at EXCEPT ![d] = "term"] /\ child' = [child EXCEPT ![d] = c]
      /\ UNCHANGED <<who, by, planned, mine, hook>>
  BY DEF TimesOut, Goto, Child, callVars
<1>4. /\ status' = [status EXCEPT ![s] = st] /\ process' = [process EXCEPT ![s] = p]
      /\ pending' \in [Session -> 0..MaxQuestions]
  BY DEF TimesOut, IInv, TypeOK
<1>5. /\ "term" \in Awaits \ {"idle", "created", "unwritten"} /\ "term" \in Running
      /\ st \in {"running"} \cup Ended /\ st # "completed"
  BY <1>2 DEF Awaits, Running, Ended
<1>6. c \in Alive \cup Exited \cup {"none"}
  BY DEF Terminated, Alive, Exited, IInv, TypeOK
<1> HIDE DEF st, p, c
<1> QED BY <1>2, <1>3, <1>4, <1>5, <1>6, OwnSession

(* The finally clause, after the report or on the way out of an exception. *)
LEMMA FinallyIInv ==
  ASSUME IInv, NEW d \in Call, Reported(d) \/ Raises(d)
  PROVE  IInv'
<1> DEFINE s == mine[d]
           st == status[mine[d]]
           c == child[d]
           l == IF at[d] = "report" THEN "done" ELSE "lost"
<1>1. at[d] \in Running \cup {"report"}
  BY DEF Reported, Raises, Running
<1>2. /\ Taken(d) /\ s \in Session /\ c \in Alive \cup Exited \cup {"none"}
      /\ at[d] \in Running => st \in {"running", "cancelled"}
      /\ at[d] = "report" => st \in Ended
  BY <1>1, TendingFacts
<1>3. /\ at' = [at EXCEPT ![d] = l] /\ process' = [process EXCEPT ![s] = None]
      /\ UNCHANGED <<who, by, planned, mine, hook>>
  BY DEF Reported, Raises, Unregister, Goto, callVars
<1>4. /\ status' = [status EXCEPT ![s] = st] /\ child' = [child EXCEPT ![d] = c]
      /\ pending' \in [Session -> 0..MaxQuestions]
  BY DEF Reported, Raises, IInv, TypeOK
<1>5. /\ l \in Awaits \ {"idle", "created", "unwritten"} /\ l \in {"done", "lost"}
      /\ l \notin Running \cup {"stream", "term", "report"}
      /\ l = "done" => st \in Ended
      /\ st \in {"running"} \cup Ended /\ (st = "running" => l = "lost")
  BY <1>1, <1>2 DEF Awaits, Running, Ended
<1>6. st = "completed" => c = "ok"
  <2> SUFFICES ASSUME st = "completed" PROVE c = "ok"
    OBVIOUS
  <2>1. PICK e \in Call : Taken(e) /\ mine[e] = s /\ child[e] = "ok"
    BY <1>2 DEF IInv, CompletedExited
  <2>2. e = d
    BY <1>2, <2>1 DEF IInv, OneCallPerSession
  <2> QED BY <2>1, <2>2
<1> HIDE DEF st, c, l
<1>7. None # d
  BY ConstantsAssumption
<1> QED BY <1>2, <1>3, <1>4, <1>5, <1>6, <1>7, OwnSession

(* The process exits; its call may be long gone.                           *)
LEMMA ExitsIInv ==
  ASSUME IInv, NEW d \in Call, Exits(d)
  PROVE  IInv'
<1>1. PICK c \in Exited : child' = [child EXCEPT ![d] = c]
  BY DEF Exits, Child
<1>2. Taken(d) /\ child[d] \in Alive /\ UNCHANGED <<who, by, planned, status, at, mine,
                                                    process, pending, hook>>
  BY DEF Exits, callVars, IInv, Labels, Alive
<1>3. child[d] # "ok" /\ \A e \in Call \ {d} : child'[e] = child[e]
  BY <1>1, <1>2 DEF Alive, IInv, TypeOK
<1>4. \A e \in Call : Taken(e)' <=> Taken(e)
  BY <1>2 DEF Taken
<1>5. TypeOK'
  BY <1>1, <1>2 DEF IInv, TypeOK
<1>6. Labels' /\ OneCallPerSession' /\ StatusAgrees' /\ CancelFindsProcess'
  BY <1>2, <1>3, <1>4 DEF IInv, Labels, OneCallPerSession, StatusAgrees, CancelFindsProcess
<1>7. CompletedExited'
  BY <1>2, <1>3, <1>4 DEF IInv, CompletedExited
<1> QED BY <1>5, <1>6, <1>7 DEF IInv

(* Questions come and go, and sessions with them never change.             *)
LEMMA QuestionsIInv ==
  ASSUME IInv,
         pending' \in [Session -> 0..MaxQuestions],
         hook' \in [Hook -> Session \cup {None}],
         UNCHANGED <<callVars, status, at, mine, child, process>>
  PROVE  IInv'
<1>1. TypeOK'
  BY DEF IInv, TypeOK, callVars
<1>2. \A e \in Call : Taken(e)' <=> Taken(e)
  BY DEF Taken
<1>3. Labels' /\ OneCallPerSession' /\ StatusAgrees'
  BY <1>2 DEF IInv, Labels, OneCallPerSession, StatusAgrees, callVars
<1>4. CancelFindsProcess' /\ CompletedExited'
  BY <1>2 DEF IInv, CancelFindsProcess, CompletedExited, callVars
<1> QED BY <1>1, <1>3, <1>4 DEF IInv

LEMMA AsksIInv ==
  ASSUME IInv, NEW d \in Call,
         Asks(d) \/ \E h \in Hook : HookReceived(h, d)
  PROVE  IInv'
<1>1. mine[d] \in Session
  BY DEF Asks, AddQuestion, HookReceived, Taken, Alive, IInv, TypeOK, Labels
<1>2. CASE Asks(d)
  <2>1. pending[mine[d]] \in 0..MaxQuestions /\ pending[mine[d]] + 1 \in 0..MaxQuestions
    BY <1>1, <1>2, ConstantsAssumption DEF Asks, AddQuestion, IInv, TypeOK
  <2>2. pending' \in [Session -> 0..MaxQuestions]
    BY <1>1, <1>2, <2>1 DEF Asks, AddQuestion, IInv, TypeOK
  <2> QED BY <1>2, <2>2, QuestionsIInv DEF Asks, AddQuestion, IInv, TypeOK
<1>3. CASE \E h \in Hook : HookReceived(h, d)
  <2>1. hook' \in [Hook -> Session \cup {None}] /\ UNCHANGED pending
    BY <1>1, <1>3 DEF HookReceived, IInv, TypeOK
  <2>2. UNCHANGED <<callVars, status, at, mine, child, process>>
    BY <1>3 DEF HookReceived
  <2> QED BY <2>1, <2>2, QuestionsIInv DEF IInv, TypeOK
<1> QED BY <1>2, <1>3

LEMMA HookStoredIInv ==
  ASSUME IInv, NEW h \in Hook, HookStored(h)
  PROVE  IInv'
<1>1. hook[h] \in Session
  BY DEF HookStored, AddQuestion, IInv, TypeOK
<1>2. pending[hook[h]] + 1 \in 0..MaxQuestions
  BY <1>1, ConstantsAssumption DEF HookStored, AddQuestion, IInv, TypeOK
<1>3. pending' \in [Session -> 0..MaxQuestions] /\ hook' \in [Hook -> Session \cup {None}]
  BY <1>1, <1>2 DEF HookStored, AddQuestion, IInv, TypeOK
<1>4. UNCHANGED <<callVars, status, at, mine, child, process>>
  BY DEF HookStored, AddQuestion
<1> QED BY <1>3, <1>4, QuestionsIInv

LEMMA AnswerIInv ==
  ASSUME IInv, NEW s \in Session, Answer(s)
  PROVE  IInv'
<1>1. pending[s] - 1 \in 0..MaxQuestions
  BY ConstantsAssumption DEF Answer, AnswerOne, IInv, TypeOK
<1>2. pending' \in [Session -> 0..MaxQuestions] /\ hook' \in [Hook -> Session \cup {None}]
  BY <1>1 DEF Answer, AnswerOne, IInv, TypeOK
<1>3. UNCHANGED <<callVars, status, at, mine, child, process>>
  BY DEF Answer, AnswerOne
<1> QED BY <1>2, <1>3, QuestionsIInv

(* The process of the session, if it is registered, is told to stop; the   *)
(* call that has the session goes on from where it is.                     *)
LEMMA CancelIInv ==
  ASSUME IInv, NEW s \in Session, Cancel(s)
  PROVE  IInv'
<1> USE ConstantsAssumption
<1>1. /\ status[s] \in Active /\ \A e \in Call : at[e] = "created" => mine[e] # s
      /\ child' = [e \in Call |-> IF process[s] = e THEN Terminated(child[e]) ELSE child[e]]
      /\ status' = [status EXCEPT ![s] = "cancelled"]
      /\ pending' = [pending EXCEPT ![s] = 0]
      /\ process' = [process EXCEPT ![s] = None]
      /\ UNCHANGED <<who, by, planned, at, mine, hook>>
  BY DEF Cancel, CancelSession, Close, AnswerAll, Unregister, callVars
<1>2. status'[s] = "cancelled" /\ process'[s] = None
  BY <1>1 DEF IInv, TypeOK
<1>3. \A r \in Session \ {s} : status'[r] = status[r] /\ process'[r] = process[r]
  BY <1>1 DEF IInv, TypeOK
<1>4. \A e \in Call : /\ child'[e] \in {"none"} \cup Alive \cup Exited
                      /\ child'[e] # "none" => child[e] # "none"
                      /\ child[e] = "ok" => child'[e] = "ok"
  BY <1>1 DEF IInv, TypeOK, Terminated, Alive
<1>5. TypeOK'
  <2>1. child' \in [Call -> {"none"} \cup Alive \cup Exited]
    BY <1>1, <1>4
  <2>2. status' \in [Session -> {"none"} \cup Active \cup Ended]
    BY <1>1 DEF IInv, TypeOK, Ended
  <2>3. pending' \in [Session -> 0..MaxQuestions] /\ process' \in [Session -> Call \cup {None}]
    BY <1>1 DEF IInv, TypeOK
  <2> QED BY <1>1, <2>1, <2>2, <2>3 DEF IInv, TypeOK
<1>6. \A e \in Call : Taken(e)' <=> Taken(e)
  BY <1>1 DEF Taken
<1>7. \A e \in Call : mine[e] # None => mine[e] \in Session
  BY DEF IInv, TypeOK
<1>8. Labels'
  BY <1>1, <1>2, <1>3, <1>4, <1>6, <1>7 DEF IInv, Labels, Taken
<1>9. OneCallPerSession'
  BY <1>1, <1>6 DEF IInv, OneCallPerSession
<1>10. \A e \in Call : at[e] \in Running \cup {"report", "done"} => mine[e] \in Session
  BY <1>7 DEF IInv, Labels, Running, Session
<1>11. StatusAgrees'
  <2>1. \A r \in Session : status'[r] = "running" =>
          \E e \in Call : Taken(e)' /\ mine'[e] = r /\ at'[e] \in Running \cup {"lost"}
    BY <1>1, <1>2, <1>3, <1>6 DEF IInv, StatusAgrees
  <2>2. \A e \in Call :
          /\ at'[e] \in Running => status'[mine'[e]] \in {"running", "cancelled"}
          /\ at'[e] \in {"report", "done"} => status'[mine'[e]] \in Ended
    BY <1>1, <1>2, <1>3, <1>10 DEF IInv, StatusAgrees, Ended
  <2> QED BY <2>1, <2>2 DEF StatusAgrees
<1>12. CancelFindsProcess'
  <2>1. \A e \in Call : at[e] \in {"stream", "term"} => mine[e] \in Session
    BY <1>10 DEF Running
  <2>2. \A e \in Call : at'[e] \in {"stream", "term"} /\ status'[mine'[e]] = "running"
          => process'[mine'[e]] = e
    BY <1>1, <1>2, <1>3, <2>1 DEF IInv, CancelFindsProcess
  <2>3. \A r \in Session : process'[r] # None =>
          mine'[process'[r]] = r /\ at'[process'[r]] \in {"stream", "term", "report"}
    BY <1>1, <1>2, <1>3 DEF IInv, CancelFindsProcess
  <2> QED BY <2>2, <2>3 DEF CancelFindsProcess
<1>13. CompletedExited'
  BY <1>1, <1>2, <1>3, <1>4, <1>6 DEF IInv, CompletedExited
<1> QED BY <1>5, <1>8, <1>9, <1>11, <1>12, <1>13 DEF IInv

(* After a restart no call is under way, and every session has ended.      *)
LEMMA CrashIInv ==
  ASSUME IInv, Crash
  PROVE  IInv'
<1> USE ConstantsAssumption
<1>1. /\ status' = [s \in Session |-> Restarted(s)]
      /\ at' = [d \in Call |->
                 IF at[d] \in {"created", "report"} \cup Running THEN "dropped" ELSE at[d]]
      /\ mine' = [d \in Call |-> IF at[d] = "created" THEN None ELSE mine[d]]
      /\ process' = [s \in Session |-> None] /\ hook' = [h \in Hook |-> None]
      /\ UNCHANGED <<who, by, planned, child, pending>>
  BY DEF Crash, callVars
<1>2. \A s \in Session : /\ status'[s] \in {"none"} \cup Ended
                         /\ status'[s] = "none" <=> status[s] = "none"
                         /\ status[s] \in Ended => status'[s] = status[s]
                         /\ status'[s] = "completed" => status[s] = "completed"
  BY <1>1 DEF Restarted, Active, Ended, IInv, TypeOK
<1>3. \A s \in Session : status'[s] \notin Active
  BY <1>2 DEF Active, Ended
<1>4. \A d \in Call : /\ at'[d] \in Awaits \ ({"created", "report"} \cup Running)
                      /\ at'[d] # "dropped" => at'[d] = at[d] /\ mine'[d] = mine[d]
  BY <1>1 DEF IInv, TypeOK, Awaits, Running
<1>5. \A d \in Call : /\ mine'[d] \in Session \cup {None}
                      /\ mine'[d] # None => mine'[d] = mine[d] /\ at[d] # "created"
  BY <1>1 DEF IInv, TypeOK
<1>6. \A d \in Call : at[d] # "created" => mine'[d] = mine[d] /\ at'[d] # "created"
  BY <1>1, <1>4
<1>7. TypeOK'
  BY <1>1, <1>2, <1>4, <1>5 DEF IInv, TypeOK
<1>8. \A d \in Call : Taken(d)' <=> Taken(d)
  BY <1>5, <1>6, <1>4 DEF Taken
<1>9. Labels'
  BY <1>1, <1>2, <1>3, <1>4, <1>5, <1>8 DEF IInv, Labels, Active, Taken
<1>10. OneCallPerSession'
  BY <1>1, <1>5, <1>8 DEF IInv, OneCallPerSession, Taken
<1>11. StatusAgrees'
  <2>1. \A d \in Call : at'[d] \notin Running \cup {"report"}
    BY <1>4
  <2>2. \A d \in Call : at'[d] = "done" =>
          at[d] = "done" /\ mine'[d] = mine[d] /\ mine[d] \in Session
    BY <1>4 DEF IInv, Labels
  <2> QED BY <1>2, <1>3, <2>1, <2>2 DEF IInv, StatusAgrees, Active, Ended
<1>12. CancelFindsProcess'
  BY <1>1, <1>4 DEF CancelFindsProcess, Running
<1>13. CompletedExited'
  BY <1>1, <1>2, <1>5, <1>6, <1>8 DEF IInv, CompletedExited, Taken
<1> QED BY <1>7, <1>9, <1>10, <1>11, <1>12, <1>13 DEF IInv

-----------------------------------------------------------------------------
(* The invariant.                                                          *)

(* A task that waits for its first turn knows whom it was made for.        *)
Booked == \A d \in Call : at[d] = "created" => by[d] \in Who

LEMMA BookedStep ==
  ASSUME TypeOK, Booked, Next
  PROVE  Booked'
<1> SUFFICES ASSUME NEW e \in Call, at'[e] = "created" PROVE by'[e] \in Who
  BY DEF Booked
<1>1. CASE \E d \in Call, w \in Who : Dispatch(d, w)
  BY <1>1 DEF Dispatch, Goto, TypeOK, Booked
<1>2. CASE \E d \in Call, w \in Who : StartPlanned(d, w)
  BY <1>2 DEF StartPlanned, Take, TakeUnwritten, Goto, TypeOK, Booked
<1>3. CASE \E d \in Call : Start(d)
  BY <1>3 DEF Start, Take, TakeUnwritten, Goto, TypeOK, Booked
<1>4. CASE \E d \in Call : Spawned(d) \/ NotFound(d) \/ Finished(d) \/ TimesOut(d)
                          \/ Killed(d) \/ Reported(d) \/ Raises(d)
  BY <1>4 DEF Spawned, NotFound, Finished, TimesOut, Killed, Reported, Raises, Goto,
              callVars, TypeOK, Booked
<1>5. CASE \/ \E d \in Call : Exits(d) \/ Asks(d)
           \/ \E h \in Hook, d \in Call : HookReceived(h, d)
           \/ \E h \in Hook : HookStored(h)
           \/ \E s \in Session : Cancel(s) \/ Answer(s)
  BY <1>5 DEF Exits, Asks, AddQuestion, HookReceived, HookStored,
             Cancel, CancelSession, Answer, AnswerOne, callVars, Booked
<1>6. CASE Crash
  BY <1>6 DEF Crash, callVars, Booked
<1> QED BY <1>1, <1>2, <1>3, <1>4, <1>5, <1>6 DEF Next, CallStep

LEMMA StepIInv ==
  ASSUME IInv, Booked, Next
  PROVE  IInv'
<1>1. CASE \E d \in Call, w \in Who : Dispatch(d, w)
  BY <1>1, DispatchIInv
<1>2. CASE \E d \in Call, w \in Who : StartPlanned(d, w)
  <2>1. PICK d \in Call, w \in Who : StartPlanned(d, w)
    BY <1>2
  <2>2. at[d] \in {"idle", "created"} /\ planned' \subseteq Call
        /\ (Take(d, w) \/ TakeUnwritten(d, w))
    BY <2>1 DEF StartPlanned, IInv, TypeOK
  <2> QED BY <2>2, TakeIInv, TakeUnwrittenIInv
<1>3. CASE \E d \in Call : Start(d)
  <2>1. PICK d \in Call : Start(d)
    BY <1>3
  <2>2. at[d] \in {"idle", "created"} /\ planned' \subseteq Call /\ by[d] \in Who
        /\ (Take(d, by[d]) \/ TakeUnwritten(d, by[d]))
    BY <2>1 DEF Start, IInv, TypeOK, Booked
  <2> QED BY <2>2, TakeIInv, TakeUnwrittenIInv
<1>4. CASE \E d \in Call : Spawned(d)
  BY <1>4, SpawnedIInv
<1>5. CASE \E d \in Call : NotFound(d) \/ Finished(d) \/ Killed(d)
  BY <1>5, EndingsIInv
<1>6. CASE \E d \in Call : TimesOut(d)
  BY <1>6, TimesOutIInv
<1>7. CASE \E d \in Call : Reported(d) \/ Raises(d)
  BY <1>7, FinallyIInv
<1>8. CASE \E d \in Call : Exits(d)
  BY <1>8, ExitsIInv
<1>9. CASE \E d \in Call : Asks(d) \/ \E h \in Hook : HookReceived(h, d)
  BY <1>9, AsksIInv
<1>10. CASE \E h \in Hook : HookStored(h)
  BY <1>10, HookStoredIInv
<1>11. CASE \E s \in Session : Cancel(s)
  BY <1>11, CancelIInv
<1>12. CASE \E s \in Session : Answer(s)
  BY <1>12, AnswerIInv
<1>13. CASE Crash
  BY <1>13, CrashIInv
<1> QED BY <1>1, <1>2, <1>3, <1>4, <1>5, <1>6, <1>7, <1>8, <1>9, <1>10, <1>11, <1>12,
            <1>13 DEF Next, CallStep

LEMMA NextIInv ==
  ASSUME IInv, Booked, [Next]_vars
  PROVE  IInv' /\ Booked'
<1>1. CASE UNCHANGED vars
  <2>1. pending' \in [Session -> 0..MaxQuestions] /\ hook' \in [Hook -> Session \cup {None}]
        /\ UNCHANGED <<callVars, status, at, mine, child, process>>
    BY <1>1 DEF vars, callVars, IInv, TypeOK
  <2>2. IInv'
    BY <2>1, QuestionsIInv
  <2> QED BY <1>1, <2>2 DEF vars, Booked
<1>2. CASE Next
  BY <1>2, StepIInv, BookedStep DEF IInv
<1> QED BY <1>1, <1>2

(* In every state of every run of any number of dispatches, sessions and   *)
(* questions, with every fault, the parts of the invariant hold together.  *)
THEOREM Invariant == Spec => [](IInv /\ Booked)
<1>1. Init => IInv /\ Booked
  BY InitIInv DEF Init, Booked
<1>2. (IInv /\ Booked) /\ [Next]_vars => (IInv /\ Booked)'
  BY NextIInv
<1> QED BY <1>1, <1>2, PTL DEF Spec

(* What the server keeps of sessions, processes and questions has the      *)
(* shape the code reads: a status it knows, a session that exists.         *)
THEOREM TypeCorrect == Spec => []TypeOK
<1>1. IInv /\ Booked => TypeOK
  BY DEF IInv
<1> QED BY <1>1, Invariant, PTL

(* No two calls of dispatch_task_agent run the same session, and each runs *)
(* one made for its role, user and branch, whatever order tasks start in.  *)
THEOREM OneCall == Spec => []OneCallPerSession
<1>1. IInv /\ Booked => OneCallPerSession
  BY DEF IInv
<1> QED BY <1>1, Invariant, PTL

(* A running session has a call under way, or one an exception ended.      *)
THEOREM Agree == Spec => []StatusAgrees
<1>1. IInv /\ Booked => StatusAgrees
  BY DEF IInv
<1> QED BY <1>1, Invariant, PTL

(* cancel_session finds the process of a running session once it was made. *)
THEOREM CancelFinds == Spec => []CancelFindsProcess
<1>1. IInv /\ Booked => CancelFindsProcess
  BY DEF IInv
<1> QED BY <1>1, Invariant, PTL

(* A completed session had a process of its own that exited with code 0.   *)
THEOREM Completed == Spec => []CompletedExited
<1>1. IInv /\ Booked => CompletedExited
  BY DEF IInv
<1> QED BY <1>1, Invariant, PTL

Stays(s) ==
  /\ status[s] \in {"completed", "failed"} => status'[s] = status[s]
  /\ status[s] = "cancelled" => status'[s] \in {"cancelled", "failed"}

(* Every write of a status: of a session nobody ended, or of the session   *)
(* of a call under way, which is running or cancelled.                     *)
LEMMA StepStays ==
  ASSUME IInv, Next, NEW s \in Session
  PROVE  Stays(s)
<1> USE DEF IInv, TypeOK, Stays
<1>1. ASSUME NEW r \in Session, NEW st, status[r] \in {"none"} \cup Active,
             status' = [status EXCEPT ![r] = st]
      PROVE  Stays(s)
  BY <1>1 DEF Active
<1>2. ASSUME NEW d \in Call, at[d] \in Running, NEW st \in Ended, Close(mine[d], st),
             status[mine[d]] = "cancelled" => st \in {"cancelled", "failed"}
      PROVE  Stays(s)
  BY <1>2, TendingFacts DEF Close, AnswerAll
<1>3. ASSUME UNCHANGED status PROVE Stays(s)
  BY <1>3
<1>4. ASSUME NEW d \in Call, NEW w, Take(d, w) \/ TakeUnwritten(d, w) \/ Dispatch(d, w)
      PROVE  Stays(s)
  <2>1. \/ UNCHANGED status
        \/ \E r \in Session, st \in Active :
             status[r] \in {"none", "pending"} /\ status' = [status EXCEPT ![r] = st]
    BY <1>4 DEF Take, TakeUnwritten, Dispatch, Created, IsNext, Matches, Pending, Active
  <2> QED BY <1>1, <1>3, <2>1 DEF Active
<1>5. ASSUME NEW d \in Call, NotFound(d) \/ Finished(d) \/ Killed(d) PROVE Stays(s)
  BY <1>2, <1>5 DEF NotFound, Finished, Killed, Outcome, Running, Ended
<1>6. ASSUME NEW r \in Session, Cancel(r) PROVE Stays(s)
  BY <1>1, <1>6 DEF Cancel, CancelSession, Close, AnswerAll
<1>7. ASSUME Crash PROVE Stays(s)
  BY <1>7 DEF Crash, Restarted, Active
<1>8. ASSUME NEW d \in Call, Spawned(d) \/ TimesOut(d) \/ Reported(d) \/ Raises(d)
                            \/ Exits(d) \/ Asks(d) \/ \E h \in Hook : HookReceived(h, d)
      PROVE  Stays(s)
  BY <1>3, <1>8 DEF Spawned, TimesOut, Reported, Raises, Exits, Asks, AddQuestion, HookReceived
<1>9. ASSUME \/ \E h \in Hook : HookStored(h)
             \/ \E r \in Session : Answer(r)
      PROVE  Stays(s)
  BY <1>3, <1>9 DEF HookStored, AddQuestion, Answer, AnswerOne
<1> QED BY <1>4, <1>5, <1>6, <1>7, <1>8, <1>9 DEF Next, CallStep, Start, StartPlanned

(* No step of any call, endpoint, hook or restart revises an outcome: what *)
(* completed or failed stays so, what was cancelled at most turns failed.  *)
THEOREM Outcomes == Spec => OutcomeStays
<1>1. IInv /\ [Next]_vars =>
        [\A s \in Session :
           /\ status[s] \in {"completed", "failed"} => status'[s] = status[s]
           /\ status[s] = "cancelled" => status'[s] \in {"cancelled", "failed"}]_vars
  BY StepStays DEF Stays
<1> QED BY <1>1, Invariant, PTL DEF Spec, OutcomeStays

-----------------------------------------------------------------------------
(* The dispatches that wait for their turn are as many as the sessions     *)
(* that wait for one.                                                      *)

Due(w) == {d \in Call : by[d] = w /\ at[d] \in {"created", "unwritten"}}

(* The ways a step changes the sessions P and the calls D of one role,     *)
(* user and branch into Q and E.                                           *)
LEMMA StillDue ==
  ASSUME IsFiniteSet(Call),
         NEW P \in SUBSET Session, NEW Q \in SUBSET Session,
         NEW D \in SUBSET Call, NEW E \in SUBSET Call,
         NEW s, NEW d, Cardinality(P) <= Cardinality(D),
         \/ Q \subseteq P /\ D \subseteq E
         \/ Q = P \cup {s} /\ E = D \cup {d} /\ d \notin D
         \/ Q = P \ {s} /\ s \in P /\ E = D \ {d}
         \/ Q = {}
         \/ Q = {s} /\ d \in E
  PROVE  Cardinality(Q) <= Cardinality(E)
<1>1. IsFiniteSet(Session)
  BY ConstantsAssumption, FS_Interval DEF Session
<1>2. IsFiniteSet(P) /\ IsFiniteSet(Q) /\ IsFiniteSet(D) /\ IsFiniteSet(E)
  BY <1>1, FS_Subset
<1>3. /\ Cardinality(P) \in Nat /\ Cardinality(Q) \in Nat
      /\ Cardinality(D) \in Nat /\ Cardinality(E) \in Nat
  BY <1>2, FS_CardinalityType
<1>4. CASE Q \subseteq P /\ D \subseteq E
  <2>1. Cardinality(Q) <= Cardinality(P) /\ Cardinality(D) <= Cardinality(E)
    BY <1>2, <1>4, FS_Subset
  <2> QED BY <1>3, <2>1
<1>5. CASE Q = P \cup {s} /\ E = D \cup {d} /\ d \notin D
  <2>1. Cardinality(Q) = IF s \in P THEN Cardinality(P) ELSE Cardinality(P) + 1
    BY <1>2, <1>5, FS_AddElement
  <2>2. Cardinality(E) = Cardinality(D) + 1
    BY <1>2, <1>5, FS_AddElement
  <2> QED BY <1>3, <2>1, <2>2
<1>6. CASE Q = P \ {s} /\ s \in P /\ E = D \ {d}
  <2>1. Cardinality(Q) = Cardinality(P) - 1
    BY <1>2, <1>6, FS_RemoveElement
  <2>2. Cardinality(E) = IF d \in D THEN Cardinality(D) - 1 ELSE Cardinality(D)
    BY <1>2, <1>6, FS_RemoveElement
  <2> QED BY <1>3, <2>1, <2>2
<1>7. CASE Q = {}
  <2>1. Cardinality(Q) = 0
    BY <1>7, FS_EmptySet
  <2> QED BY <1>3, <2>1
<1>8. CASE Q = {s} /\ d \in E
  <2>1. Cardinality(Q) = 1
    BY <1>8, FS_Singleton
  <2>2. Cardinality(E) # 0
    BY <1>2, <1>8, FS_EmptySet
  <2> QED BY <1>3, <2>1, <2>2
<1> QED BY <1>4, <1>5, <1>6, <1>7, <1>8

(* The call just begun is due, as its session is. *)
LEMMA DispatchDue ==
  ASSUME IsFiniteSet(Call), TypeOK, PendingIsDue, NEW d \in Call, NEW v \in Who, Dispatch(d, v)
  PROVE  PendingIsDue'
<1>1. PICK s \in Session : Created(s, v, "pending")
  BY DEF Dispatch
<1>2. /\ status[s] = "none" /\ status' = [status EXCEPT ![s] = "pending"] /\ who' = [who EXCEPT ![s] = v]
      /\ at[d] = "idle" /\ at' = [at EXCEPT ![d] = "created"] /\ by' = [by EXCEPT ![d] = v]
  BY <1>1 DEF Created, IsNext, Dispatch, Goto
<1> SUFFICES ASSUME NEW w \in Who PROVE Cardinality(Pending(w)') <= Cardinality(Due(w)')
  BY DEF PendingIsDue, Due
<1>3. Cardinality(Pending(w)) <= Cardinality(Due(w)) /\ d \notin Due(w)
  BY <1>2 DEF PendingIsDue, Due
<1>4. Pending(w)' = IF w = v THEN Pending(w) \cup {s} ELSE Pending(w)
  BY <1>2 DEF Pending, TypeOK
<1>5. Due(w)' = IF w = v THEN Due(w) \cup {d} ELSE Due(w)
  BY <1>2 DEF Due, TypeOK
<1>6. Pending(w) \in SUBSET Session /\ Pending(w)' \in SUBSET Session
  BY DEF Pending
<1>7. Due(w) \in SUBSET Call /\ Due(w)' \in SUBSET Call
  BY DEF Due
<1> QED BY <1>3, <1>4, <1>5, <1>6, <1>7, StillDue

(* A call that gets its turn takes the session of another dispatch, its    *)
(* own, or one nobody was to take.                                         *)
LEMMA TakeDue ==
  ASSUME IsFiniteSet(Call), TypeOK, PendingIsDue, NEW d \in Call, NEW v \in Who,
         at[d] \in {"idle", "created"}, at[d] = "created" => by[d] = v, Take(d, v)
  PROVE  PendingIsDue'
<1>1. PICK s \in Session :
        \/ Matches(s, v) /\ status' = [status EXCEPT ![s] = "running"] /\ who' = who
        \/ Pending(v) = {} /\ Created(s, v, "running")
  BY DEF Take
<1>2. at' = [at EXCEPT ![d] = "spawn"] /\ by' = [by EXCEPT ![d] = v]
  BY DEF Take, Goto
<1> SUFFICES ASSUME NEW w \in Who PROVE Cardinality(Pending(w)') <= Cardinality(Due(w)')
  BY DEF PendingIsDue, Due
<1>3. Cardinality(Pending(w)) <= Cardinality(Due(w)) /\ (w # v => d \notin Due(w))
  BY DEF PendingIsDue, Due
<1>4. Pending(w)' = Pending(w) \ {s}
  BY <1>1 DEF Pending, Matches, Created, IsNext, TypeOK
<1>5. Due(w)' = Due(w) \ {d}
  BY <1>2 DEF Due, TypeOK
<1>6. Pending(w) \in SUBSET Session /\ Pending(w)' \in SUBSET Session
  BY DEF Pending
<1>7. Due(w) \in SUBSET Call /\ Due(w)' \in SUBSET Call
  BY DEF Due
<1>8. CASE w # v
  BY <1>3, <1>4, <1>5, <1>6, <1>7, <1>8, StillDue
<1>9. CASE w = v
  <2>1. s \in Pending(w) \/ Pending(w)' = {}
    BY <1>1, <1>4, <1>9 DEF Matches
  <2> QED BY <1>3, <1>4, <1>5, <1>6, <1>7, <2>1, StillDue
<1> QED BY <1>8, <1>9

(* A call that cannot write its configuration stays due, and makes no      *)
(* session unless none was pending.                                        *)
LEMMA TakeUnwrittenDue ==
  ASSUME IsFiniteSet(Call), TypeOK, PendingIsDue, NEW d \in Call, NEW v \in Who,
         at[d] \in {"idle", "created"}, at[d] = "created" => by[d] = v, TakeUnwritten(d, v)
  PROVE  PendingIsDue'
<1>1. PICK s : \/ UNCHANGED <<status, who>>
               \/ s \in Session /\ Pending(v) = {} /\ Created(s, v, "pending")
  BY DEF TakeUnwritten
<1>2. at' = [at EXCEPT ![d] = "unwritten"] /\ by' = [by EXCEPT ![d] = v]
  BY DEF TakeUnwritten, Goto
<1> SUFFICES ASSUME NEW w \in Who PROVE Cardinality(Pending(w)') <= Cardinality(Due(w)')
  BY DEF PendingIsDue, Due
<1>3. Cardinality(Pending(w)) <= Cardinality(Due(w)) /\ (w # v => d \notin Due(w))
  BY DEF PendingIsDue, Due
<1>4. Pending(w)' = Pending(w) \/ (w = v /\ Pending(w)' = {s})
  <2>1. CASE UNCHANGED <<status, who>>
    BY <2>1 DEF Pending
  <2>2. CASE s \in Session /\ Pending(v) = {} /\ Created(s, v, "pending")
    <3>1. Pending(w)' = IF w = v THEN Pending(w) \cup {s} ELSE Pending(w)
      BY <2>2 DEF Pending, Created, IsNext, TypeOK
    <3> QED BY <2>2, <3>1
  <2> QED BY <1>1, <2>1, <2>2
<1>5. Due(w)' = IF w = v THEN Due(w) \cup {d} ELSE Due(w)
  BY <1>2, <1>3 DEF Due, TypeOK
<1>6. Pending(w) \in SUBSET Session /\ Pending(w)' \in SUBSET Session
  BY DEF Pending
<1>7. Due(w) \in SUBSET Call /\ Due(w)' \in SUBSET Call
  BY DEF Due
<1> QED BY <1>3, <1>4, <1>5, <1>6, <1>7, StillDue

(* No other step makes a session pending or a call that is due not due,    *)
(* but for a crash, which leaves no session pending.                       *)
LEMMA OthersDue ==
  ASSUME IsFiniteSet(Call), PendingIsDue,
         \/ /\ \A s \in Session : status'[s] = "pending" => status[s] = "pending"
            /\ \A d \in Call : at[d] \in {"created", "unwritten"} => at'[d] = at[d]
            /\ who' = who /\ by' = by
         \/ \A s \in Session : status'[s] # "pending"
  PROVE  PendingIsDue'
<1> SUFFICES ASSUME NEW w \in Who PROVE Cardinality(Pending(w)') <= Cardinality(Due(w)')
  BY DEF PendingIsDue, Due
<1>1. Cardinality(Pending(w)) <= Cardinality(Due(w))
  BY DEF PendingIsDue, Due
<1>2. Pending(w) \in SUBSET Session /\ Pending(w)' \in SUBSET Session
  BY DEF Pending
<1>3. Due(w) \in SUBSET Call /\ Due(w)' \in SUBSET Call
  BY DEF Due
<1>4. \/ Pending(w)' \subseteq Pending(w) /\ Due(w) \subseteq Due(w)'
      \/ Pending(w)' = {}
  BY DEF Pending, Due
<1> QED BY <1>1, <1>2, <1>3, <1>4, StillDue

LEMMA StepDue ==
  ASSUME IsFiniteSet(Call), IInv, Booked, PendingIsDue, Next
  PROVE  PendingIsDue'
<1> USE DEF IInv, TypeOK
<1>1. ASSUME NEW d \in Call, NEW w \in Who, Dispatch(d, w) PROVE PendingIsDue'
  BY <1>1, DispatchDue
<1>2. ASSUME NEW d \in Call, NEW w \in Who, StartPlanned(d, w) PROVE PendingIsDue'
  BY <1>2, TakeDue, TakeUnwrittenDue DEF StartPlanned
<1>3. ASSUME NEW d \in Call, Start(d) PROVE PendingIsDue'
  BY <1>3, TakeDue, TakeUnwrittenDue DEF Start, Booked
<1>4. ASSUME NEW d \in Call, NotFound(d) \/ Finished(d) \/ Killed(d) PROVE PendingIsDue'
  <2>1. PICK st \in {"completed", "failed", "cancelled"} : Close(mine[d], st)
    BY <1>4 DEF NotFound, Finished, Killed, Outcome
  <2>2. \A s \in Session : status'[s] = "pending" => status[s] = "pending"
    BY <2>1 DEF Close
  <2>3. \A e \in Call : at[e] \in {"created", "unwritten"} => at'[e] = at[e]
    BY <1>4 DEF NotFound, Finished, Killed, Goto
  <2>4. who' = who /\ by' = by
    BY <1>4 DEF NotFound, Finished, Killed, callVars
  <2> QED BY <2>2, <2>3, <2>4, OthersDue
<1>5. ASSUME NEW d \in Call, Spawned(d) \/ TimesOut(d) \/ Reported(d) \/ Raises(d) PROVE PendingIsDue'
  <2>1. status' = status /\ who' = who /\ by' = by
    BY <1>5 DEF Spawned, TimesOut, Reported, Raises, callVars
  <2>2. \A e \in Call : at[e] \in {"created", "unwritten"} => at'[e] = at[e]
    BY <1>5 DEF Spawned, TimesOut, Reported, Raises, Goto, Running
  <2> QED BY <2>1, <2>2, OthersDue
<1>6. ASSUME \/ \E d \in Call : Exits(d) \/ Asks(d)
             \/ \E h \in Hook, d \in Call : HookReceived(h, d)
             \/ \E h \in Hook : HookStored(h)
             \/ \E s \in Session : Answer(s)
      PROVE  PendingIsDue'
  <2>1. UNCHANGED <<status, who, by, at>>
    BY <1>6 DEF Exits, Asks, HookReceived, HookStored, Answer, callVars
  <2> QED BY <2>1, OthersDue
<1>7. ASSUME NEW s \in Session, Cancel(s) PROVE PendingIsDue'
  BY <1>7, OthersDue DEF Cancel, CancelSession, Close, callVars
<1>8. ASSUME Crash PROVE PendingIsDue'
  <2>1. \A s \in Session : status'[s] # "pending"
    BY <1>8 DEF Crash, Restarted, Active
  <2> QED BY <2>1, OthersDue
<1> QED BY <1>1, <1>2, <1>3, <1>4, <1>5, <1>6, <1>7, <1>8 DEF Next, CallStep

(***************************************************************************)
(* Every pending session has a dispatch that will take it, or one that     *)
(* could not write its configuration, for any number of calls and in       *)
(* whatever order they take the sessions of each other.                    *)
(***************************************************************************)
THEOREM PendingAreDue == ASSUME IsFiniteSet(Call) PROVE Spec => []PendingIsDue
<1>1. Init => PendingIsDue
  <2> SUFFICES ASSUME Init, NEW w \in Who PROVE Cardinality(Pending(w)) <= Cardinality(Due(w))
    BY DEF PendingIsDue, Due
  <2>1. Pending(w) = {} /\ Due(w) \in SUBSET Call
    BY DEF Init, Pending, Due
  <2> DEFINE none == {}
  <2>2. none \in SUBSET Session /\ none \in SUBSET Call /\ Cardinality(none) <= Cardinality(none)
    BY FS_EmptySet
  <2> QED BY <2>1, <2>2, StillDue
<1>2. (IInv /\ Booked) /\ PendingIsDue /\ [Next]_vars => PendingIsDue'
  <2> SUFFICES ASSUME IInv, Booked, PendingIsDue, [Next]_vars PROVE PendingIsDue'
    OBVIOUS
  <2>1. CASE UNCHANGED vars
    BY <2>1, OthersDue DEF vars
  <2>2. CASE Next
    BY <2>2, StepDue
  <2> QED BY <2>1, <2>2
<1> QED BY <1>1, <1>2, Invariant, PTL DEF Spec

-----------------------------------------------------------------------------
(***************************************************************************)
(* Conductors.  As long as the requests do not overlap, the table knows    *)
(* the process that runs, and the process knows the level it was due.      *)
(*                                                                         *)
(* Both need what a request relies on while it is under way: that it is    *)
(* the only one, that the entry it made or found is still the one in the   *)
(* table, and that the level it read or saved is still the one due.        *)
(***************************************************************************)

Starts(r) == start[r] \in {"reading", "spawning"}
Stops(z) == stop[z] \in {"terminating", "killing"}
Sets(z) == setter[z] = "saved"

(* At most one request is under way. *)
OneRequest ==
  /\ \A r, q \in Starter : Starts(r) /\ Starts(q) => r = q
  /\ \A y, z \in Stopper : Stops(y) /\ Stops(z) => y = z
  /\ \A y, z \in Setter : Sets(y) /\ Sets(z) => y = z
  /\ \A r \in Starter, z \in Stopper : ~(Starts(r) /\ Stops(z))
  /\ \A r \in Starter, z \in Setter : ~(Starts(r) /\ Sets(z))
  /\ \A y \in Stopper, z \in Setter : ~(Stops(y) /\ Sets(z))

(* The entry a request made or found is still in the table. *)
EntryStays ==
  /\ \A r \in Starter : start[r] = "spawning" => table = r
  /\ \A z \in Stopper : Stops(z) => table # Unset /\ target[z] = table

(* A process in the table, whose start is over, and no other, runs. *)
Known == \A s \in Starter : ProcessAlive(s) => table = s /\ start[s] = "started"

(* The level a start read is in force, and due once it is in the table; a  *)
(* running process was told what is due, unless a request is about to.     *)
LevelStays ==
  /\ \A r \in Starter : start[r] = "reading" => told[r] = level
  /\ \A r \in Starter : start[r] = "spawning" => told[r] = due
  /\ \A z \in Setter : Sets(z) => due = z
  /\ (\A z \in Setter : ~Sets(z)) => \A s \in Starter : ProcessAlive(s) => told[s] = due

Alone == OneRequest /\ EntryStays /\ Known /\ LevelStays

ConductorInv == ConductorTypeOK /\ (~overlapped => Alone)

-----------------------------------------------------------------------------
(* Types                                                                   *)

LEMMA TypeStep == ConductorTypeOK /\ [ConductorNext]_conductorVars => ConductorTypeOK'
<1> SUFFICES ASSUME ConductorTypeOK, [ConductorNext]_conductorVars PROVE ConductorTypeOK'
  OBVIOUS
<1> USE DEF ConductorTypeOK, Arrive, UnderWay, Clear, Remove, SendMessage, requestVars, levelVars,
            sessionVars
<1>1. ASSUME NEW r \in Starter,
             StartRequested(r) \/ StartRefused(r) \/ SessionSpawned(r) \/ SpawnFails(r)
      PROVE  ConductorTypeOK'
  <2>1. CASE StartRequested(r)
    BY <2>1 DEF StartRequested
  <2>2. CASE StartRefused(r) \/ SpawnFails(r)
    BY <2>2 DEF StartRefused, SpawnFails
  <2>3. CASE SessionSpawned(r)
    BY <2>3 DEF SessionSpawned
  <2> QED BY <1>1, <2>1, <2>2, <2>3
<1>2. ASSUME NEW r \in Starter, Enter(r)
      PROVE  ConductorTypeOK'
  BY <1>2 DEF Enter
<1>3. ASSUME NEW s \in Starter, Exit(s) \/ MonitorWakes(s) \/ MonitorEnds(s)
      PROVE  ConductorTypeOK'
  <2>1. CASE Exit(s)
    BY <2>1 DEF Exit
  <2>2. CASE MonitorWakes(s)
    BY <2>2 DEF MonitorWakes
  <2>3. CASE MonitorEnds(s)
    BY <2>3 DEF MonitorEnds
  <2> QED BY <1>3, <2>1, <2>2, <2>3
<1>4. ASSUME NEW s \in Starter, StopsWake(s)
      PROVE  ConductorTypeOK'
  <2>1. stop' \in [Stopper -> {"idle", "terminating", "killing", "stopped", "missing"}]
    BY <1>4 DEF StopsWake
  <2> QED BY <1>4, <2>1 DEF StopsWake
<1>5. ASSUME NEW z \in Stopper, StopMissing(z) \/ StopIdle(z) \/ Terminate(z) \/ Kill(z)
      PROVE  ConductorTypeOK'
  <2>1. CASE StopMissing(z) \/ Terminate(z)
    BY <2>1 DEF StopMissing, Terminate, EntryRuns
  <2>2. CASE StopIdle(z)
    BY <2>2 DEF StopIdle
  <2>3. CASE Kill(z)
    BY <2>3 DEF Kill
  <2> QED BY <1>5, <2>1, <2>2, <2>3
<1>6. ASSUME NEW z \in Setter, Save(z) \/ Tell(z)
      PROVE  ConductorTypeOK'
  <2>1. CASE Save(z)
    BY <1>6, <2>1 DEF Save
  <2>2. CASE Tell(z)
    <3>1. told' \in [Starter -> Setter \cup {Unset}]
      BY <2>2 DEF Tell
    <3>2. setter' \in [Setter -> {"idle", "saved", "done"}]
      BY <2>2 DEF Tell
    <3> QED BY <2>2, <3>1, <3>2 DEF Tell
  <2> QED BY <1>6, <2>1, <2>2
<1>7. CASE UNCHANGED conductorVars
  BY <1>7 DEF conductorVars
<1> QED BY <1>1, <1>2, <1>3, <1>4, <1>5, <1>6, <1>7 DEF ConductorNext

-----------------------------------------------------------------------------
(* One step of requests that do not overlap                                *)

(* A request that begins while none is under way is the only one. *)
LEMMA NoneUnderWay ==
  ASSUME ~UnderWay
  PROVE  /\ \A r \in Starter : ~Starts(r)
         /\ \A z \in Stopper : ~Stops(z)
         /\ \A z \in Setter : ~Sets(z)
BY DEF UnderWay, Starts, Stops, Sets

(* The steps of a start. *)
LEMMA StartStep ==
  ASSUME ConductorTypeOK, Alone, NEW r \in Starter, ~overlapped', 
         StartRequested(r) \/ StartRefused(r) \/ Enter(r) \/ SessionSpawned(r) \/ SpawnFails(r)
  PROVE  Alone'
<1> USE DEF Alone, ConductorTypeOK, requestVars, levelVars, sessionVars
<1>1. CASE StartRequested(r)
  <2>1. ~UnderWay
    BY <1>1 DEF StartRequested, Arrive
  <2> QED BY <1>1, <2>1, NoneUnderWay
          DEF StartRequested, OneRequest, EntryStays, Known, LevelStays, Starts, Stops, Sets,
              ProcessAlive
<1>2. CASE StartRefused(r) \/ SpawnFails(r)
  BY <1>2
     DEF StartRefused, SpawnFails, OneRequest, EntryStays, Known, LevelStays, Starts, Stops,
         Sets, ProcessAlive
<1>3. CASE Enter(r)
  <2>1. Starts(r) /\ \A s \in Starter : ~ProcessAlive(s)
    BY <1>3, ConductorAssumption DEF Enter, Starts, Known, EntryRuns
  <2>2. told' = told
    BY <1>3 DEF Enter, LevelStays
  <2> QED BY <1>3, <2>1, <2>2
             DEF Enter, OneRequest, EntryStays, Known, LevelStays, Starts, Stops, Sets,
                 ProcessAlive
<1>4. CASE SessionSpawned(r)
  BY <1>4
     DEF SessionSpawned, OneRequest, EntryStays, Known, LevelStays, Starts, Stops, Sets,
         ProcessAlive
<1> QED BY <1>1, <1>2, <1>3, <1>4

(* The steps of a stop, and the exit of a process. *)
LEMMA StopStep ==
  ASSUME ConductorTypeOK, Alone, NEW z \in Stopper, ~overlapped',
         StopMissing(z) \/ StopIdle(z) \/ Terminate(z) \/ Kill(z)
  PROVE  Alone'
<1> USE DEF Alone, ConductorTypeOK, requestVars, levelVars, sessionVars
<1>1. CASE Kill(z)
  BY <1>1 DEF Kill, OneRequest, EntryStays, Known, LevelStays, Starts, Stops, Sets, ProcessAlive
<1>2. CASE StopMissing(z) \/ StopIdle(z) \/ Terminate(z)
  <2>1. ~UnderWay
    BY <1>2 DEF StopMissing, StopIdle, Terminate, Arrive
  <2>2. CASE StopMissing(z)
    BY <2>1, <2>2, NoneUnderWay
       DEF StopMissing, OneRequest, EntryStays, Known, LevelStays, Starts, Stops, Sets, ProcessAlive
  <2>3. CASE StopIdle(z)
    <3>1. \A s \in Starter : ~ProcessAlive(s)
      BY <2>3, ConductorAssumption DEF StopIdle, Known, EntryRuns
    <3> QED BY <2>1, <2>3, <3>1, NoneUnderWay
            DEF StopIdle, Clear, Remove, OneRequest, EntryStays, Known, LevelStays, Starts,
                Stops, Sets, ProcessAlive
  <2>4. CASE Terminate(z)
    BY <2>1, <2>4, NoneUnderWay
       DEF Terminate, EntryRuns, OneRequest, EntryStays, Known, LevelStays, Starts, Stops,
           Sets, ProcessAlive
  <2> QED BY <1>2, <2>2, <2>3, <2>4
<1> QED BY <1>1, <1>2

LEMMA ExitStep ==
  ASSUME ConductorTypeOK, Alone, NEW s \in Starter, ~overlapped',
         Exit(s) \/ MonitorWakes(s) \/ MonitorEnds(s) \/ StopsWake(s)
  PROVE  Alone'
<1> USE DEF Alone, ConductorTypeOK, requestVars, levelVars, sessionVars
<1>1. CASE Exit(s) \/ MonitorWakes(s) \/ MonitorEnds(s)
  BY <1>1
     DEF Exit, MonitorWakes, MonitorEnds, OneRequest, EntryStays, Known, LevelStays, Starts,
         Stops, Sets, ProcessAlive
<1>2. CASE StopsWake(s)
  <2>1. PICK z \in Stopper : Stops(z) /\ target[z] = s
    BY <1>2 DEF StopsWake, StopsOf, Stops
  <2>2. table = s /\ \A q \in Starter : ~ProcessAlive(q)
    BY <1>2, <2>1 DEF StopsWake, EntryStays, Known, ProcessAlive
  <2>3. \A y \in Stopper : ~Stops(y)'
    <3> SUFFICES ASSUME NEW y \in Stopper PROVE ~Stops(y)'
      OBVIOUS
    <3>1. CASE y \in StopsOf(s)
      BY <1>2, <3>1 DEF StopsWake, Stops
    <3>2. CASE y \notin StopsOf(s)
      BY <1>2, <2>1, <2>2, <3>2 DEF StopsWake, StopsOf, Stops, EntryStays
    <3> QED BY <3>1, <3>2
  <2>4. \A r \in Starter : ~Starts(r)
    BY <2>1 DEF OneRequest
  <2> QED BY <1>2, <2>2, <2>3, <2>4
          DEF StopsWake, Clear, Remove, OneRequest, EntryStays, Known, LevelStays, Starts,
              Sets, ProcessAlive
<1> QED BY <1>1, <1>2

(* The steps of a request for a level. *)
LEMMA SetStep ==
  ASSUME ConductorTypeOK, Alone, NEW z \in Setter, ~overlapped', Save(z) \/ Tell(z)
  PROVE  Alone'
<1> USE DEF Alone, ConductorTypeOK, requestVars, levelVars, sessionVars
<1>1. CASE Save(z)
  <2>1. ~UnderWay
    BY <1>1 DEF Save, Arrive
  <2> QED BY <1>1, <2>1, NoneUnderWay
          DEF Save, OneRequest, EntryStays, Known, LevelStays, Starts, Stops, Sets, ProcessAlive
<1>2. CASE Tell(z)
  <2>1. Sets(z) /\ due = z /\ \A r \in Starter : ~Starts(r)
    BY <1>2 DEF Tell, Sets, OneRequest, LevelStays
  <2>2. \A s \in Starter : ProcessAlive(s) => told'[s] = due
    BY <1>2, <2>1, ConductorAssumption DEF Tell, Known, EntryRuns, SendMessage
  <2> QED BY <1>2, <2>1, <2>2
          DEF Tell, OneRequest, EntryStays, Known, LevelStays, Starts, Stops, Sets, ProcessAlive
<1> QED BY <1>1, <1>2

-----------------------------------------------------------------------------
(* The theorems                                                            *)

(***************************************************************************)
(* The inductive invariant: as long as requests do not overlap, one that   *)
(* is under way finds the table, the processes and the level as it left    *)
(* them.                                                                   *)
(***************************************************************************)
THEOREM ConductorInvariant == ConductorSpec => []ConductorInv
<1>1. ConductorInit => ConductorInv
  <2> SUFFICES ASSUME ConductorInit PROVE ConductorInv
    OBVIOUS
  <2>1. ConductorTypeOK
    BY DEF ConductorInit, ConductorTypeOK
  <2>2. Alone
    BY DEF ConductorInit, Alone, OneRequest, EntryStays, Known, LevelStays, Starts, Stops,
           Sets, ProcessAlive
  <2> QED BY <2>1, <2>2 DEF ConductorInv
<1>2. ConductorInv /\ [ConductorNext]_conductorVars => ConductorInv'
  <2> SUFFICES ASSUME ConductorInv, [ConductorNext]_conductorVars PROVE ConductorInv'
    OBVIOUS
  <2>1. ConductorTypeOK'
    BY TypeStep DEF ConductorInv
  <2>2. ASSUME ~overlapped' PROVE Alone'
    <3>1. ~overlapped
      BY <2>2
         DEF ConductorInv, ConductorTypeOK, ConductorNext, conductorVars, Arrive,
             StartRequested, StartRefused, Enter, SessionSpawned, SpawnFails,
             Exit, MonitorWakes, MonitorEnds, StopsWake, StopMissing, StopIdle, Terminate, Kill, Save, Tell
    <3>2. ConductorTypeOK /\ Alone
      BY <3>1 DEF ConductorInv
    <3>3. CASE UNCHANGED conductorVars
      BY <3>2, <3>3
         DEF conductorVars, Alone, OneRequest, EntryStays, Known, LevelStays, Starts, Stops,
             Sets, ProcessAlive
    <3>4. CASE ConductorNext
      BY <2>2, <3>2, <3>4, StartStep, StopStep, ExitStep, SetStep DEF ConductorNext
    <3> QED BY <3>3, <3>4
  <2> QED BY <2>1, <2>2 DEF ConductorInv
<1> QED BY <1>1, <1>2, PTL DEF ConductorSpec

(* Every variable has its type, for any number of requests. *)
THEOREM ConductorsTyped == ConductorSpec => []ConductorTypeOK
<1>1. ConductorInv => ConductorTypeOK
  BY DEF ConductorInv
<1> QED BY <1>1, ConductorInvariant, PTL

(***************************************************************************)
(* The table knows every process that runs, so that it can be stopped, as  *)
(* long as no request begins while another is under way: whatever fails,   *)
(* exits or is replaced, and for any number of requests.                   *)
(***************************************************************************)
THEOREM OrphansNever == ConductorSpec => []NoOrphans
<1>1. ConductorInv => NoOrphans
  BY DEF ConductorInv, Alone, Known, NoOrphans
<1> QED BY <1>1, ConductorInvariant, PTL

(***************************************************************************)
(* When no request is under way the Conductor that runs has been told the  *)
(* level last set for its branch, or the user's when it started, for any   *)
(* number of requests one after the other.                                 *)
(***************************************************************************)
THEOREM LevelsFollowed == ConductorSpec => []AutonomyFollowed
<1>1. ConductorInv => AutonomyFollowed
  BY NoneUnderWay DEF ConductorInv, Alone, LevelStays, AutonomyFollowed
<1> QED BY <1>1, ConductorInvariant, PTL
=============================================================================
