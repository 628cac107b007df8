----------------------------- MODULE WorkProofs -----------------------------
(***************************************************************************)
(* What holds of the work the server does in the background, however much  *)
(* of it there is: of CheckRunner for every group of checks, every         *)
(* dependency among them and every way their commands end; of TestRuns for *)
(* any number of runs, handlers, users, devices and deliveries.            *)
(*                                                                         *)
(* Checks.  Only what run_group has collected holds a check back, so the   *)
(* proofs relate three views of a check: where it is, what it returned,    *)
(* and what run_group collected under its name.  The last two agree for    *)
(* the waves that are over, as long as no check returns under another's    *)
(* name.                                                                   *)
(*                                                                         *)
(* Test runs.  What the client has heard of a run, or missed of it while   *)
(* its queue was full, follows from where the task of the run is, and from *)
(* whether the forwarder is still to do.                                   *)
(*                                                                         *)
(* Notifications.  The lists of subscriptions are objects that change      *)
(* under those who go through them; what holds is that no object is ever   *)
(* of two users, and that nothing is taken out of one.  A send that fails  *)
(* takes its device off those that are due, and nothing else.              *)
(***************************************************************************)
EXTENDS CheckRunner, TestRuns, WellFoundedInduction, TLAPS

-----------------------------------------------------------------------------
(* Checks                                                                  *)

(* The waves that are over. *)
Collected == IF phase \in {"wave", "cancelled"} THEN begun \ wave ELSE begun

(* Before run_group nothing has begun, and after a refused registration    *)
(* either; what it runs is a group without cycles.                         *)
Phases ==
    /\ phase = "import" => begun = {}
    /\ begun # {} \/ phase \in {"between", "wave", "done", "cancelled"} => Valid
    /\ phase \in {"import", "between", "done"} => ~cancelled
    /\ phase = "done" => Ready(begun) = {}

(* Where checks are, what they depend on, and their processes. *)
Places ==
    /\ \A c \in Check : at[c] = "no" <=> c \notin begun
    /\ \A c \in Check : at[c] \in {"new", "run", "reap"} => phase = "wave" /\ c \in wave
    /\ \A c \in begun : deps[c] \subseteq begun \ wave
    /\ \A c \in Check : proc[c] = "running" => at[c] = "run"
    /\ ran \subseteq begun
    /\ \A c \in Check : at[c] \in {"run", "reap"} => c \in ran
    /\ \A c \in Check : at[c] # "ended" => result[c] = NoResult

(* Every check that has ended under its own name is known by its outcome. *)
Agree ==
    Honest => \A d \in Collected : result[d].name = d => completed[d] = result[d].outcome

(* What was run was not held back, and what ended without was. *)
Gated ==
    /\ \A c \in ran : \A d \in deps[c] \ advisory :
         Honest /\ result[d].name = d => result[d].outcome = "pass"
    /\ \A c \in begun \ ran :
         Honest /\ ~cancelled /\ at[c] = "ended" =>
           \E d \in deps[c] \ advisory : completed[d] \notin {"pass", "none"}

IInv == TypeOK /\ Phases /\ Places /\ Agree /\ Gated

-----------------------------------------------------------------------------
(* Types                                                                   *)

LEMMA ResultType ==
    ASSUME TypeOK, NEW c \in Check, NEW n \in Name, NEW o \in Outcome, Ends(c, n, o)
    PROVE  /\ at' \in [Check -> {"no", "new", "run", "reap", "ended"}]
           /\ result' \in [Check -> [name : Name, outcome : Outcome] \cup {NoResult}]
BY DEF TypeOK, Ends

LEMMA TypeStep == TypeOK /\ Places /\ [Next]_vars => TypeOK'
<1> SUFFICES ASSUME TypeOK, Places, [Next]_vars PROVE TypeOK'
  OBVIOUS
<1> USE DEF TypeOK, registry, tasks, group
<1>1. CASE RunGroup \/ CancelEnds \/ Report
  BY <1>1 DEF RunGroup, CancelEnds, Report, Ended
<1>2. CASE StartWave
  BY <1>2 DEF StartWave, Ready
<1>3. CASE WaveEnds
  BY <1>3 DEF WaveEnds
<1>4. CASE Cancel
  BY <1>4 DEF Cancel, KillTree
<1>5. ASSUME NEW c \in Check, Register(c) \/ RegisterAgain(c)
      PROVE  TypeOK'
  <2>1. CASE Register(c)
    <3>1. deps' \in [Check -> SUBSET Name] /\ entries' \subseteq Check /\ advisory' \subseteq entries'
      BY <2>1 DEF Register
    <3> QED BY <2>1, <3>1 DEF Register
  <2>2. CASE RegisterAgain(c)
    BY <2>2 DEF RegisterAgain, Ended
  <2> QED BY <1>5, <2>1, <2>2
<1>6. ASSUME NEW c \in Check, Skip(c) \/ Communicated(c) \/ Reaped(c)
      PROVE  TypeOK'
  <2>1. PICK n \in Name, o \in Outcome : Ends(c, n, o)
    BY <1>6, ChecksAssumption DEF Skip, Communicated, Reaped, Returns, Name, Outcome
  <2> QED BY <1>6, <2>1, ResultType DEF Skip, Communicated, Reaped
<1>7. ASSUME NEW c \in Check, Call(c)
      PROVE  TypeOK'
  BY <1>7 DEF Call, Places
<1>8. ASSUME NEW c \in Check, TimesOut(c)
      PROVE  TypeOK'
  BY <1>8 DEF TimesOut, KillTree
<1>9. ASSUME NEW c \in Check, Forks(c) \/ Exits(c) \/ LetGo(c)
      PROVE  TypeOK'
  BY <1>9 DEF Forks, Exits, LetGo
<1>10. CASE UNCHANGED vars
  BY <1>10 DEF vars
<1> QED BY <1>1, <1>2, <1>3, <1>4, <1>5, <1>6, <1>7, <1>8, <1>9, <1>10 DEF Next, Group, Runs

-----------------------------------------------------------------------------
(* Where checks are                                                        *)

LEMMA GroupPlaces ==
    ASSUME IInv, RunGroup \/ Group \/ Cancel
    PROVE  (Phases /\ Places)'
<1> USE ChecksAssumption DEF IInv, TypeOK, Phases, Places, registry, tasks, group
<1>1. CASE RunGroup
  BY <1>1 DEF RunGroup, Ready, Valid, Acyclic
<1>2. CASE StartWave
  BY <1>2 DEF StartWave, MoreWaves, Ready, Valid, Acyclic
<1>3. CASE WaveEnds
  BY <1>3 DEF WaveEnds, Over, Ready, Valid, Acyclic
<1>4. CASE CancelEnds
  BY <1>4 DEF CancelEnds, Over, Ready, Valid, Acyclic
<1>5. CASE Report
  BY <1>5 DEF Report, MoreWaves, Ready, Valid, Acyclic
<1>6. CASE Cancel
  BY <1>6 DEF Cancel, KillTree, Ready, Valid, Acyclic
<1> QED BY <1>1, <1>2, <1>3, <1>4, <1>5, <1>6 DEF Group

LEMMA CheckPlaces ==
    ASSUME IInv, NEW c \in Check,
           Register(c) \/ RegisterAgain(c) \/ Runs(c) \/ Forks(c) \/ Exits(c) \/ LetGo(c)
    PROVE  (Phases /\ Places)'
<1> USE ChecksAssumption DEF IInv, TypeOK, Phases, Places, registry, tasks, group
<1>1. CASE Register(c) \/ RegisterAgain(c)
  BY <1>1 DEF Register, RegisterAgain
<1>2. CASE Skip(c) \/ Communicated(c) \/ Reaped(c)
  <2>1. PICK n \in Name, o \in Outcome : Ends(c, n, o)
    BY <1>2, ChecksAssumption DEF Skip, Communicated, Reaped, Returns, Name, Outcome
  <2> QED BY <1>2, <2>1 DEF Skip, Communicated, Reaped, Ends, Ready, Valid, Acyclic
<1>3. CASE Call(c)
  BY <1>3 DEF Call, Ready, Valid, Acyclic
<1>4. CASE TimesOut(c)
  BY <1>4 DEF TimesOut, KillTree, Ready, Valid, Acyclic
<1>5. CASE Forks(c) \/ Exits(c) \/ LetGo(c)
  BY <1>5 DEF Forks, Exits, LetGo, Ready, Valid, Acyclic
<1> QED BY <1>1, <1>2, <1>3, <1>4, <1>5 DEF Runs

-----------------------------------------------------------------------------
(* What is collected, and what it holds back                               *)

(* A check that ends does so once, and leaves the others as they are. *)
LEMMA OneEnds ==
    ASSUME IInv, NEW c \in Check, NEW n \in Name, NEW o \in Outcome, Ends(c, n, o),
           at[c] \in {"new", "run", "reap"}
    PROVE  /\ \A d \in Check \ {c} : result'[d] = result[d] /\ at'[d] = at[d]
           /\ result[c] = NoResult /\ result'[c].name = n /\ result'[c].outcome = o
           /\ at'[c] = "ended"
           /\ Honest' => Honest /\ n \in {c, Unknown}
BY DEF IInv, TypeOK, Places, Ends, Honest, NoResult

LEMMA EndsAgree ==
    ASSUME IInv, NEW c \in Check, Skip(c) \/ Communicated(c) \/ Reaped(c)
    PROVE  (Agree /\ Gated)'
<1> USE DEF IInv, TypeOK, registry, tasks, group
<1>1. PICK n \in Name, o \in Outcome : Ends(c, n, o)
  BY ChecksAssumption DEF Skip, Communicated, Reaped, Returns, Name, Outcome
<1>2. at[c] \in {"new", "run", "reap"} /\ c \in wave /\ c \in begun /\ phase = "wave"
  BY DEF Skip, Communicated, Reaped, Places
<1>3. UNCHANGED <<registry, group, ran>>
  BY DEF Skip, Communicated, Reaped
<1>4. Agree'
  <2>1. Collected' = Collected /\ c \notin Collected /\ Collected \subseteq Check
    BY <1>2, <1>3 DEF Collected
  <2> QED BY <1>1, <1>2, <1>3, <2>1, OneEnds DEF Agree
<1>5. \A b \in ran : \A d \in deps[b] \ advisory : d \in Check /\ d # c
  BY <1>2 DEF Places
<1>6. ASSUME NEW b \in begun \ ran, Honest', ~cancelled, at'[b] = "ended"
      PROVE  \E d \in deps[b] \ advisory : completed[d] \notin {"pass", "none"}
  <2>1. CASE b = c
    <3>1. c \notin ran /\ at[c] = "new" => Skip(c)
      BY <1>2 DEF Skip, Communicated, Reaped
    <3>2. CASE Skip(c)
      BY <2>1, <3>2 DEF Skip, Blocking
    <3>3. CASE ~Skip(c)
      <4>1. c \in ran
        BY <1>2, <3>1, <3>3 DEF Places
      <4> QED BY <2>1, <4>1
    <3> QED BY <3>2, <3>3
  <2>2. CASE b # c
    BY <1>1, <1>2, <1>6, <2>2, OneEnds DEF Gated
  <2> QED BY <2>1, <2>2
<1>7. Gated'
  BY <1>1, <1>2, <1>3, <1>5, <1>6, OneEnds DEF Gated
<1> QED BY <1>4, <1>7

LEMMA CallAgrees ==
    ASSUME IInv, NEW c \in Check, Call(c)
    PROVE  (Agree /\ Gated)'
<1> USE DEF IInv, TypeOK, registry, tasks, group, Call
<1>1. c \in begun /\ Collected = begun \ wave
  BY DEF Places, Collected
<1>2. ASSUME NEW d \in deps[c] \ advisory, Honest, result[d].name = d
      PROVE  result[d].outcome = "pass"
  <2>1. d \in Collected /\ d \in Check
    BY <1>1 DEF Places
  <2>2. completed[d] \in {"pass", "none"}
    BY <1>2 DEF Blocking
  <2>3. result[d] # NoResult
    BY <1>2, <2>1, ChecksAssumption DEF NoResult
  <2> QED BY <1>2, <2>1, <2>2, <2>3 DEF Agree, Outcome
<1>3. UNCHANGED <<Honest, Collected>>
  BY DEF Honest, Collected
<1> QED BY <1>2, <1>3 DEF Agree, Gated

(* A wave is collected: of checks that return under their own names every  *)
(* one of the wave is, and nothing else changes.                           *)
LEMMA WaveCollected ==
    ASSUME IInv, WaveEnds, Honest
    PROVE  /\ \A d \in begun \ wave : completed'[d] = completed[d]
           /\ \A d \in wave : result[d].name = d => completed'[d] = result[d].outcome
<1> USE DEF IInv, TypeOK
<1> DEFINE Given(n) == {result[c].outcome : c \in {x \in wave : result[x].name = n}}
<1>1. \A n \in Check : completed'[n] \in IF Given(n) = {} THEN {completed[n]} ELSE Given(n)
  BY DEF WaveEnds
<1>2. \A n \in Check, c \in wave : result[c].name = n => c = n
  BY ChecksAssumption DEF Honest
<1>3. \A n \in Check : n \notin wave => Given(n) = {}
  BY <1>2
<1>4. ASSUME NEW d \in wave, result[d].name = d PROVE Given(d) = {result[d].outcome}
  BY <1>2, <1>4
<1>5. \A d \in begun \ wave : completed'[d] = completed[d]
  BY <1>1, <1>3
<1>6. ASSUME NEW d \in wave, result[d].name = d PROVE completed'[d] = result[d].outcome
  <2>1. d \in Check
    OBVIOUS
  <2>2. completed'[d] \in Given(d)
    BY <1>1, <1>4, <1>6, <2>1
  <2> QED BY <1>4, <1>6, <2>2
<1> QED BY <1>5, <1>6

LEMMA GroupAgrees ==
    ASSUME IInv, RunGroup \/ Group \/ Cancel
    PROVE  (Agree /\ Gated)'
<1> USE DEF IInv, TypeOK, registry, tasks, group
<1>1. CASE RunGroup
  BY <1>1 DEF RunGroup, Phases, Places, Agree, Gated, Honest, Collected
<1>2. CASE StartWave
  <2>1. Collected' = begun /\ Collected = begun
    BY <1>2 DEF StartWave, Ready, Collected
  <2> QED BY <1>2, <2>1 DEF StartWave, Ready, Places, Agree, Gated, Honest
<1>3. CASE WaveEnds
  <2>1. Collected' = begun /\ Collected = begun \ wave /\ UNCHANGED <<Honest, registry, tasks, begun, cancelled>>
    BY <1>3 DEF WaveEnds, Collected, Honest
  <2>2. Agree'
    BY <1>3, <2>1, WaveCollected DEF Agree
  <2>3. Gated'
    BY <1>3, <2>1, WaveCollected DEF Gated, Places
  <2> QED BY <2>2, <2>3
<1>4. CASE CancelEnds
  BY <1>4 DEF CancelEnds, Agree, Gated, Honest, Collected
<1>5. CASE Report
  BY <1>5 DEF Report, Agree, Gated, Honest, Collected
<1>6. CASE Cancel
  BY <1>6 DEF Cancel, Agree, Gated, Honest, Collected
<1> QED BY <1>1, <1>2, <1>3, <1>4, <1>5, <1>6 DEF Group

LEMMA CheckAgrees ==
    ASSUME IInv, NEW c \in Check,
           Register(c) \/ RegisterAgain(c) \/ Runs(c) \/ Forks(c) \/ Exits(c) \/ LetGo(c)
    PROVE  (Agree /\ Gated)'
<1> USE DEF IInv, TypeOK, registry, tasks, group
<1>1. CASE Register(c) \/ RegisterAgain(c)
  BY <1>1 DEF Register, RegisterAgain, Phases, Places, Agree, Gated, Collected, Ended
<1>2. CASE TimesOut(c)
  BY <1>2 DEF TimesOut, Places, Agree, Gated, Honest, Collected
<1>3. CASE Forks(c) \/ Exits(c) \/ LetGo(c)
  BY <1>3 DEF Forks, Exits, LetGo, Agree, Gated, Honest, Collected
<1> QED BY <1>1, <1>2, <1>3, EndsAgree, CallAgrees DEF Runs

-----------------------------------------------------------------------------
(* The theorems                                                            *)

(***************************************************************************)
(* The inductive invariant: where every check is, what it returned and     *)
(* what run_group has collected of it agree.                               *)
(***************************************************************************)
THEOREM Invariant == Spec => []IInv
<1>1. Init => IInv
  <2> SUFFICES ASSUME Init PROVE IInv
    OBVIOUS
  <2>1. TypeOK
    BY DEF Init, TypeOK
  <2>2. Phases /\ Places /\ Agree /\ Gated
    BY DEF Init, Phases, Places, Agree, Gated, Collected
  <2> QED BY <2>1, <2>2 DEF IInv
<1>2. IInv /\ [Next]_vars => IInv'
  <2> SUFFICES ASSUME IInv, [Next]_vars PROVE IInv'
    OBVIOUS
  <2>1. TypeOK'
    BY TypeStep DEF IInv
  <2>2. CASE RunGroup \/ Group \/ Cancel
    BY <2>1, <2>2, GroupPlaces, GroupAgrees DEF IInv
  <2>3. ASSUME NEW c \in Check,
               Register(c) \/ RegisterAgain(c) \/ Runs(c) \/ Forks(c) \/ Exits(c) \/ LetGo(c)
        PROVE  IInv'
    BY <2>1, <2>3, CheckPlaces, CheckAgrees DEF IInv
  <2>4. CASE UNCHANGED vars
    BY <2>1, <2>4 DEF IInv, vars, registry, tasks, group, Phases, Places, Agree, Gated, Honest, Collected,
       Ready, Valid, Acyclic
  <2> QED BY <2>2, <2>3, <2>4 DEF Next
<1> QED BY <1>1, <1>2, PTL DEF Spec

(* Every variable has its type, for every group. *)
THEOREM TypeCorrect == Spec => []TypeOK
<1>1. IInv => TypeOK
  BY DEF IInv
<1> QED BY <1>1, Invariant, PTL

(***************************************************************************)
(* The function of a check is called after all it depends on has ended,    *)
(* and only when what is not advisory among it passed, for every group.    *)
(***************************************************************************)
THEOREM DependenciesFirst == Spec => []RunsAfterDependencies
<1>1. IInv => RunsAfterDependencies
  <2> SUFFICES ASSUME IInv, NEW c \in ran, NEW d \in deps[c]
               PROVE  /\ at[d] = "ended"
                      /\ Honest /\ d \notin advisory /\ result[d].name = d => result[d].outcome = "pass"
    BY DEF RunsAfterDependencies
  <2>1. d \in begun \ wave /\ d \in Check
    BY DEF IInv, TypeOK, Places
  <2>2. at[d] = "ended"
    BY <2>1 DEF IInv, TypeOK, Places
  <2> QED BY <2>2 DEF IInv, Gated
<1> QED BY <1>1, Invariant, PTL

(***************************************************************************)
(* A group that is reported ok ran every check, but those a check that is  *)
(* not advisory and skipped kept from running, for every group.            *)
(***************************************************************************)
THEOREM VerdictsAreEarned == Spec => []VerdictIsEarned
<1>1. IInv => VerdictIsEarned
  <2> SUFFICES ASSUME IInv, phase = "done", Ok, \A c \in entries : result[c].name = c,
                      NEW c \in entries \ ran
               PROVE  \E d \in deps[c] \ advisory : result[d].outcome = "skip"
    BY DEF VerdictIsEarned
  <2> USE DEF IInv, TypeOK
  <2>1. begun = entries
    <3> SUFFICES ASSUME entries \ begun # {} PROVE FALSE
      OBVIOUS
    <3>1. PICK b \in entries \ begun : deps[b] \cap (entries \ begun) = {}
      BY DEF Phases, Valid, Acyclic
    <3>2. b \in Ready(begun)
      BY <3>1 DEF Phases, Valid, Ready
    <3> QED BY <3>2 DEF Phases
  <2>2. Honest
    <3> SUFFICES ASSUME NEW b \in Check PROVE result[b].name \in {b, Unknown}
      BY DEF Honest
    <3>1. CASE b \in entries
      BY <3>1
    <3>2. CASE b \notin entries
      BY <2>1, <3>2 DEF Places, NoResult
    <3> QED BY <3>1, <3>2
  <2>3. at[c] = "ended" /\ ~cancelled
    BY <2>1 DEF Places, Phases
  <2>4. PICK d \in deps[c] \ advisory : completed[d] \notin {"pass", "none"}
    BY <2>1, <2>2, <2>3 DEF Gated
  <2>5. d \in entries /\ completed[d] = result[d].outcome
    BY <2>1, <2>2 DEF Places, Agree, Collected
  <2> QED BY <2>4, <2>5 DEF Ok, Outcome
<1> QED BY <1>1, Invariant, PTL

(***************************************************************************)
(* When run_group has ended, in whatever way, no process of a command it   *)
(* started runs, for every group.                                          *)
(***************************************************************************)
THEOREM CommandsEnd == Spec => []NoCommandSurvives
<1>1. IInv => NoCommandSurvives
  BY DEF IInv, TypeOK, Places, NoCommandSurvives, Ended
<1> QED BY <1>1, Invariant, PTL

-----------------------------------------------------------------------------
(* Test runs and the bus                                                   *)

Event == [type : {"tests.output", "tests.run.DONE"}, run : Run, line : Nat]
Handler == {Sse, Audit} \cup Plugin

States == {"none", "task", "spawned", "reading", "line", "firing", "waiting", "undecodable",
           "ended", "raised"}

WorkTypeOK ==
    /\ run \in [Run -> States]
    /\ process \in [Run -> {"none", "running", "exited"}]
    /\ child \subseteq Run /\ active \subseteq Run /\ stopped \subseteq Run
    /\ printed \in [Run -> Nat] /\ read \in [Run -> Nat]
    /\ heard \in [Run -> Seq(Event \cup {Missed})]
    /\ firing \in [Run -> [event : Event \cup {Nothing}, todo : SUBSET Handler]]
    /\ cache \in [Plugin -> {"empty", "fn", "failed"}]

(* The client has heard the first n lines of r; or all that were read, and *)
(* that the run is done; each of them unless its queue was full.           *)
Heard(r, n) == Len(heard[r]) = n /\ \A i \in 1 .. n : heard[r][i] \in {Line(r, i), Missed}
HeardAll(r) ==
    /\ Len(heard[r]) = read[r] + 1 /\ heard[r][read[r] + 1] \in {Done(r), Missed}
    /\ \A i \in 1 .. read[r] : heard[r][i] \in {Line(r, i), Missed}

FiringLine(r) == run[r] = "firing" /\ firing[r].event # Done(r)
FiringDone(r) == run[r] = "firing" /\ firing[r].event = Done(r)

(* What a run has in the bus, and what the client has heard of it.         *)
InTurn(r) ==
    /\ run[r] # "firing" => firing[r] = [event |-> Nothing, todo |-> {}]
    /\ run[r] \in {"none", "task", "spawned"} => read[r] = 0
    /\ run[r] \in {"none", "task", "spawned", "reading", "waiting", "undecodable", "raised"} =>
         Heard(r, read[r])
    /\ run[r] = "line" => read[r] > 0 /\ Heard(r, read[r] - 1)
    /\ FiringLine(r) =>
         /\ firing[r].event = Line(r, read[r]) /\ read[r] > 0
         /\ Heard(r, IF Sse \in firing[r].todo THEN read[r] - 1 ELSE read[r])
    /\ FiringDone(r) => IF Sse \in firing[r].todo THEN Heard(r, read[r]) ELSE HeardAll(r)
    /\ run[r] = "ended" => HeardAll(r)

(* The end of the output stays the end.                                    *)
EndStays(r) == run[r] = "waiting" \/ FiringDone(r) \/ run[r] = "ended" => AtEnd(r)

(* Who is no longer to do of the handlers of the last event has had it.    *)
Served(r) ==
    FiringDone(r) \/ run[r] = "ended" =>
      /\ "tests.run.DONE" \in Audited =>
           \/ Audit \in firing[r].todo
           \/ Done(r) \in auditLog \/ <<Audit, Done(r)>> \in failed
      /\ \A p \in Plugin : "tests.run.DONE" \in Subscribed[p] =>
           \/ p \in firing[r].todo
           \/ <<p, Done(r)>> \in called \/ cache[p] = "failed"

WorkIInv == WorkTypeOK /\ \A r \in Run : InTurn(r) /\ EndStays(r) /\ Served(r)

(* The events of a run are told apart.                                     *)
LEMMA EventTypes ==
    ASSUME NEW r \in Run, NEW n \in Nat
    PROVE  /\ Line(r, n) \in Event /\ Done(r) \in Event
           /\ Line(r, n) # Done(r) /\ Line(r, n) # Nothing /\ Done(r) # Nothing
           /\ Line(r, n).type = "tests.output" /\ Done(r).type = "tests.run.DONE"
           /\ Missed # Line(r, n) /\ Missed # Done(r)
<1>1. Line(r, n) \in Event /\ Done(r) \in Event
  BY DEF Line, Done, Event
<1>2. Line(r, n).type = "tests.output" /\ Done(r).type = "tests.run.DONE" /\ Nothing.type = "none"
      /\ Missed.type = "missed"
  BY DEF Line, Done, Nothing, Missed
<1> QED BY <1>1, <1>2

(* So are the handlers of an event.                                        *)
LEMMA HandlerTypes ==
    ASSUME NEW t
    PROVE  /\ HandlersOf(t) \subseteq Handler /\ Sse \in HandlersOf(t)
           /\ Audit \in HandlersOf(t) <=> t \in Audited
           /\ \A p \in Plugin : p \in HandlersOf(t) <=> t \in Subscribed[p]
           /\ Sse # Audit /\ Sse \notin Plugin /\ Audit \notin Plugin
BY BusAssumption DEF HandlersOf, Handler, Sse, Audit

(* What a step leaves alone of a run stays as it is.                       *)
LEMMA OtherRuns ==
    ASSUME WorkIInv, NEW q \in Run,
           run'[q] = run[q], read'[q] = read[q], firing'[q] = firing[q], heard'[q] = heard[q],
           AtEnd(q) => AtEnd(q)', auditLog \subseteq auditLog', called \subseteq called', failed \subseteq failed',
           \A p \in Plugin : cache[p] = "failed" => cache'[p] = "failed"
    PROVE  InTurn(q)' /\ EndStays(q)' /\ Served(q)'
<1>1. InTurn(q)'
  BY DEF WorkIInv, InTurn, FiringLine, FiringDone, Heard, HeardAll
<1>2. EndStays(q)'
  BY DEF WorkIInv, EndStays, FiringDone
<1>3. Served(q)'
  BY DEF WorkIInv, Served, FiringDone
<1> QED BY <1>1, <1>2, <1>3

(* A step that leaves the runs in the bus and the client as they are.      *)
LEMMA ProcessStep ==
    ASSUME WorkIInv, NEW r \in Run, Prints(r) \/ Exit(r) \/ ChildExits(r) \/ StopEnds(r) \/ StopRequested(r)
    PROVE  WorkIInv'
<1>1. WorkTypeOK'
  <2>1. WorkTypeOK
    BY DEF WorkIInv
  <2>2. CASE Prints(r)
    BY <2>1, <2>2 DEF States, WorkTypeOK, Prints, busVars
  <2>3. CASE Exit(r)
    BY <2>1, <2>3 DEF States, WorkTypeOK, Exit, busVars
  <2>4. CASE ChildExits(r)
    BY <2>1, <2>4 DEF States, WorkTypeOK, ChildExits, busVars
  <2>5. CASE StopEnds(r)
    BY <2>1, <2>5 DEF States, WorkTypeOK, StopEnds, Waited, busVars
  <2>6. CASE StopRequested(r)
    BY <2>1, <2>6 DEF States, WorkTypeOK, StopRequested, busVars
  <2> QED BY <2>2, <2>3, <2>4, <2>5, <2>6
<1>2. UNCHANGED <<run, read, heard, firing, auditLog, cache, called, failed>>
  BY DEF Prints, Exit, ChildExits, StopEnds, StopRequested, busVars
<1>3. \A q \in Run : InTurn(q)' /\ Served(q)'
  BY <1>2, ZenonT(20) DEF WorkIInv, InTurn, Served, FiringLine, FiringDone, Heard, HeardAll
<1>4. \A q \in Run : AtEnd(q) => AtEnd(q)'
  BY DEF States, WorkIInv, WorkTypeOK, AtEnd, Open, Prints, Exit, ChildExits, StopEnds, StopRequested, Waited
<1>5. \A q \in Run : EndStays(q)'
  BY <1>2, <1>4 DEF WorkIInv, EndStays, FiringDone
<1> QED BY <1>1, <1>3, <1>5 DEF WorkIInv

(* The task of r, between its events.                                      *)
LEMMA TaskStep ==
    ASSUME WorkIInv, NEW r \in Run, RunTests(r) \/ Popen(r) \/ Registered(r) \/ ReadLine(r) \/ Undecodable(r)
    PROVE  WorkIInv'
<1>1. WorkTypeOK'
  <2>1. WorkTypeOK
    BY DEF WorkIInv
  <2>2. CASE RunTests(r)
    BY <2>1, <2>2 DEF States, WorkTypeOK, RunTests, busVars
  <2>3. CASE Popen(r)
    BY <2>1, <2>3 DEF States, WorkTypeOK, Popen, busVars
  <2>4. CASE Registered(r)
    BY <2>1, <2>4 DEF States, WorkTypeOK, Registered, busVars
  <2>5. CASE ReadLine(r)
    <3>0. read \in [Run -> Nat]
      BY <2>1 DEF WorkTypeOK
    <3>1. read' = read \/ read' = [read EXCEPT ![r] = @ + 1]
      BY <2>5 DEF ReadLine
    <3>2. read' \in [Run -> Nat]
      BY <3>0, <3>1
    <3>3. PICK to \in {"line", "waiting", "undecodable"} : run' = [run EXCEPT ![r] = to]
      BY <2>5 DEF ReadLine
    <3>4. run' \in [Run -> States]
      BY <2>1, <3>3 DEF WorkTypeOK, States
    <3> QED BY <2>1, <2>5, <3>2, <3>4 DEF WorkTypeOK, ReadLine, busVars
  <2>6. CASE Undecodable(r)
    BY <2>1, <2>6 DEF States, WorkTypeOK, Undecodable, busVars
  <2> QED BY <2>2, <2>3, <2>4, <2>5, <2>6
<1>2. UNCHANGED <<heard, firing, auditLog, cache, called, failed>>
  BY DEF RunTests, Popen, Registered, ReadLine, Undecodable, busVars
<1>3. \A q \in Run \ {r} : run'[q] = run[q] /\ read'[q] = read[q] /\ (AtEnd(q) => AtEnd(q)')
  BY DEF States, WorkIInv, WorkTypeOK, AtEnd, Open, RunTests, Popen, Registered, ReadLine, Undecodable
<1>4. \A q \in Run \ {r} : (InTurn(q) /\ EndStays(q) /\ Served(q))'
  BY <1>2, <1>3, OtherRuns
<1>5. run[r] # "firing" /\ run'[r] \notin {"firing", "ended"}
  BY DEF States, WorkIInv, WorkTypeOK, RunTests, Popen, Registered, ReadLine, Undecodable
<1>6. InTurn(r)'
  <2>1. /\ InTurn(r) /\ firing'[r] = [event |-> Nothing, todo |-> {}] /\ read[r] \in Nat /\ read'[r] \in Nat
        /\ \A n : Heard(r, n) => Heard(r, n)'
    BY <1>1, <1>2, <1>5 DEF WorkIInv, WorkTypeOK, InTurn, Heard
  <2>2. CASE RunTests(r) \/ Popen(r) \/ Registered(r) \/ Undecodable(r)
    <3>1. /\ read'[r] = read[r] /\ Heard(r, read[r])
          /\ run'[r] \in {"task", "spawned", "raised", "reading"}
          /\ run'[r] \in {"task", "spawned"} => run[r] \in {"none", "task", "spawned"}
      BY <2>1, <2>2 DEF WorkIInv, WorkTypeOK, InTurn, RunTests, Popen, Registered, Undecodable
    <3>2. Heard(r, read[r])'
      BY <1>2, <3>1 DEF Heard
    <3> QED BY <2>1, <3>1, <3>2 DEF InTurn, FiringLine, FiringDone
  <2>3. CASE ReadLine(r)
    <3>1. /\ Heard(r, read[r])
          /\ \/ run'[r] = "line" /\ read'[r] = read[r] + 1
             \/ run'[r] \in {"waiting", "undecodable"} /\ read'[r] = read[r]
      BY <2>1, <2>3 DEF WorkIInv, WorkTypeOK, InTurn, ReadLine
    <3>2. Len(heard'[r]) = read[r] /\ \A i \in 1 .. read[r] : heard'[r][i] \in {Line(r, i), Missed}
      BY <1>2, <3>1 DEF Heard
    <3>3. CASE run'[r] = "line"
      <4>1. read'[r] - 1 = read[r] /\ read'[r] > 0
        BY <2>1, <3>1, <3>3
      <4>2. Heard(r, read[r] - 1)'
        BY <3>2, <4>1 DEF Heard
      <4> QED BY <2>1, <3>3, <4>1, <4>2 DEF InTurn, FiringLine, FiringDone
    <3>4. CASE run'[r] # "line"
      <4>1. Heard(r, read[r])'
        BY <3>1, <3>2, <3>4 DEF Heard
      <4> QED BY <2>1, <3>1, <3>4, <4>1 DEF InTurn, FiringLine, FiringDone
    <3> QED BY <3>3, <3>4
  <2> QED BY <2>2, <2>3
<1>7. EndStays(r)' /\ Served(r)'
  BY <1>5 DEF States, WorkIInv, WorkTypeOK, EndStays, Served, FiringDone, AtEnd, Open, RunTests, Popen, Registered, ReadLine,
     Undecodable
<1> QED BY <1>1, <1>4, <1>6, <1>7 DEF WorkIInv

(* r fires an event.                                                       *)
LEMMA FireStep ==
    ASSUME WorkIInv, NEW r \in Run, FireLine(r) \/ FireDone(r)
    PROVE  WorkIInv'
<1>1. PICK e \in {Line(r, read[r]), Done(r)} :
        /\ Fire(r, e) /\ run' = [run EXCEPT ![r] = "firing"]
        /\ e = Done(r) => run[r] = "waiting"
        /\ e # Done(r) => run[r] = "line"
  BY EventTypes DEF FireLine, FireDone, WorkIInv, WorkTypeOK
<1>2. UNCHANGED <<heard, auditLog, cache, called, failed, process, child, printed, read, active, stopped>>
  BY DEF FireLine, FireDone
<1>3. e \in Event
  BY EventTypes DEF States, WorkIInv, WorkTypeOK
<1>4. firing' = [firing EXCEPT ![r] = [event |-> e, todo |-> HandlersOf(e.type)]]
  BY <1>1 DEF Fire
<1>5. WorkTypeOK'
  BY <1>1, <1>2, <1>3, <1>4, HandlerTypes DEF States, WorkIInv, WorkTypeOK
<1>6. \A q \in Run \ {r} : (InTurn(q) /\ EndStays(q) /\ Served(q))'
  BY <1>1, <1>2, <1>4, OtherRuns DEF WorkIInv, WorkTypeOK, AtEnd, Open
<1>7. firing'[r].event = e /\ firing'[r].todo = HandlersOf(e.type) /\ run'[r] = "firing"
  BY <1>1, <1>4 DEF States, WorkIInv, WorkTypeOK
<1>8. InTurn(r)'
  <2>0. Sse \in firing'[r].todo /\ read[r] \in Nat
    BY <1>7, HandlerTypes DEF WorkIInv, WorkTypeOK
  <2>1. CASE e = Done(r)
    <3>1. Heard(r, read[r])
      BY <1>1, <2>1 DEF WorkIInv, InTurn
    <3>2. Heard(r, read[r])'
      BY <1>2, <3>1 DEF Heard
    <3> QED BY <1>2, <1>7, <2>0, <2>1, <3>2 DEF InTurn, FiringLine, FiringDone
  <2>2. CASE e # Done(r)
    <3>1. read[r] > 0 /\ Heard(r, read[r] - 1) /\ e = Line(r, read[r])
      BY <1>1, <2>2 DEF WorkIInv, InTurn
    <3>2. Heard(r, read[r] - 1)' /\ read'[r] = read[r]
      BY <1>2, <3>1 DEF Heard
    <3> QED BY <1>7, <2>0, <2>2, <3>1, <3>2 DEF InTurn, FiringLine, FiringDone
  <2> QED BY <2>1, <2>2
<1>9. EndStays(r)' /\ Served(r)'
  BY <1>1, <1>2, <1>7, HandlerTypes, EventTypes DEF States, WorkIInv, WorkTypeOK, EndStays, Served, FiringDone, AtEnd, Open
<1> QED BY <1>5, <1>6, <1>8, <1>9 DEF WorkIInv

(* fire() of r has returned.                                               *)
LEMMA FireEndsStep ==
    ASSUME WorkIInv, NEW r \in Run, FireEnds(r)
    PROVE  WorkIInv'
<1>1. /\ run[r] = "firing" /\ firing[r].todo = {}
      /\ firing' = [firing EXCEPT ![r] = [event |-> Nothing, todo |-> {}]]
      /\ run' = [run EXCEPT ![r] = IF firing[r].event = Done(r) THEN "ended" ELSE "reading"]
      /\ UNCHANGED <<heard, auditLog, cache, called, failed, process, child, printed, read, stopped>>
      /\ active' \subseteq active
  BY DEF FireEnds, Fired, Gathered
<1>2. WorkTypeOK'
  BY <1>1 DEF States, WorkIInv, WorkTypeOK
<1>3. \A q \in Run \ {r} : (InTurn(q) /\ EndStays(q) /\ Served(q))'
  BY <1>1, OtherRuns DEF WorkIInv, WorkTypeOK, AtEnd, Open
<1>4. InTurn(r)'
  BY <1>1 DEF States, WorkIInv, WorkTypeOK, InTurn, FiringLine, FiringDone, Heard, HeardAll
<1>5. EndStays(r)' /\ Served(r)'
  BY <1>1 DEF States, WorkIInv, WorkTypeOK, EndStays, Served, FiringDone, AtEnd, Open
<1> QED BY <1>2, <1>3, <1>4, <1>5 DEF WorkIInv

(* A handler of an event of r ends.                                        *)
LEMMA HandlerStep ==
    ASSUME WorkIInv, NEW r \in Run, NEW h \in Handler, NEW raised \in BOOLEAN, HandlerEnds(r, h, raised)
    PROVE  /\ run[r] = "firing" /\ firing' = [firing EXCEPT ![r].todo = @ \ {h}]
           /\ firing' \in [Run -> [event : Event \cup {Nothing}, todo : SUBSET Handler]]
           /\ firing'[r].event = firing[r].event /\ firing'[r].todo = firing[r].todo \ {h}
           /\ \A q \in Run \ {r} : firing'[q] = firing[q]
           /\ h \in firing[r].todo
           /\ failed \subseteq failed'
<1>1. h \in firing[r].todo /\ firing' = [firing EXCEPT ![r].todo = @ \ {h}] /\ failed \subseteq failed'
  BY DEF HandlerEnds
<1>2. run[r] = "firing"
  BY <1>1 DEF WorkIInv, InTurn
<1> QED BY <1>1, <1>2 DEF States, WorkIInv, WorkTypeOK

(* The client gets the event of r.                                         *)
LEMMA ForwardStep ==
    ASSUME WorkIInv, NEW r \in Run, Forward(r)
    PROVE  WorkIInv'
<1> PICK new \in {firing[r].event, Missed} : heard' = [heard EXCEPT ![r] = Append(@, new)]
  BY DEF Forward
<1>1. /\ HandlerEnds(r, Sse, FALSE)
      /\ heard' = [heard EXCEPT ![r] = Append(@, new)]
      /\ UNCHANGED <<auditLog, cache, called, run, process, child, printed, read, active, stopped>>
  BY DEF Forward, Forwarded
<1>2. /\ run[r] = "firing" /\ Sse \in firing[r].todo
      /\ firing' \in [Run -> [event : Event \cup {Nothing}, todo : SUBSET Handler]]
      /\ firing'[r].event = firing[r].event /\ firing'[r].todo = firing[r].todo \ {Sse}
      /\ \A q \in Run \ {r} : firing'[q] = firing[q]
      /\ failed \subseteq failed'
  BY <1>1, HandlerStep DEF Handler
<1>3. new \in Event \cup {Missed} /\ read[r] \in Nat /\ heard[r] \in Seq(Event \cup {Missed})
  BY <1>2, EventTypes DEF States, WorkIInv, WorkTypeOK, InTurn, FiringLine
<1>4. heard'[r] = Append(heard[r], new) /\ \A q \in Run \ {r} : heard'[q] = heard[q]
  BY <1>1 DEF States, WorkIInv, WorkTypeOK
<1>5. WorkTypeOK'
  <2>1. heard' \in [Run -> Seq(Event \cup {Missed})]
    BY <1>1, <1>3 DEF WorkIInv, WorkTypeOK
  <2> QED BY <2>1, <1>1, <1>2 DEF WorkIInv, WorkTypeOK
<1>6. \A q \in Run \ {r} : (InTurn(q) /\ EndStays(q) /\ Served(q))'
  BY <1>1, <1>2, <1>4, OtherRuns DEF WorkIInv, WorkTypeOK, AtEnd, Open
<1>7. ASSUME firing[r].event = Done(r) PROVE InTurn(r)'
  <2>1. Heard(r, read[r])
    BY <1>2, <1>7 DEF WorkIInv, InTurn, FiringDone
  <2>2. HeardAll(r)'
    BY <2>1, <1>1, <1>3, <1>4, <1>7 DEF Heard, HeardAll
  <2>3. run'[r] = "firing" /\ firing'[r].event = Done(r) /\ Sse \notin firing'[r].todo
    BY <1>1, <1>2, <1>7
  <2> QED BY <2>2, <2>3 DEF InTurn, FiringLine, FiringDone
<1>8. ASSUME firing[r].event # Done(r) PROVE InTurn(r)'
  <2>1. Heard(r, read[r] - 1) /\ firing[r].event = Line(r, read[r]) /\ read[r] > 0
    BY <1>2, <1>8 DEF WorkIInv, InTurn, FiringLine
  <2>2. Heard(r, read[r])'
    BY <2>1, <1>1, <1>3, <1>4, <1>8 DEF Heard
  <2>3. /\ run'[r] = "firing" /\ firing'[r].event = Line(r, read[r]) /\ Sse \notin firing'[r].todo
        /\ read'[r] = read[r] /\ firing'[r].event # Done(r)
    BY <1>1, <1>2, <1>8, <2>1
  <2> QED BY <2>1, <2>2, <2>3 DEF InTurn, FiringLine, FiringDone
<1>9. EndStays(r)' /\ Served(r)'
  BY <1>1, <1>2, HandlerTypes DEF States, WorkIInv, WorkTypeOK, EndStays, Served, FiringDone, AtEnd, Open
<1> QED BY <1>5, <1>6, <1>7, <1>8, <1>9 DEF WorkIInv

(* Another handler gets it.                                                *)
LEMMA HandleStep ==
    ASSUME WorkIInv, NEW r \in Run, Handle(r)
    PROVE  WorkIInv'
<1>1. UNCHANGED <<heard, run, process, child, printed, read, active, stopped>>
  BY DEF Handle, runVars
<1>2. PICK h \in Handler \ {Sse}, raised \in BOOLEAN : HandlerEnds(r, h, raised)
  BY HandlerTypes DEF Handle, AuditEnds, PluginEnds, Handler
<1>3. /\ run[r] = "firing" /\ h \in firing[r].todo
      /\ firing' \in [Run -> [event : Event \cup {Nothing}, todo : SUBSET Handler]]
      /\ firing' = [firing EXCEPT ![r].todo = @ \ {h}]
      /\ firing'[r].event = firing[r].event /\ firing'[r].todo = firing[r].todo \ {h}
      /\ \A q \in Run \ {r} : firing'[q] = firing[q]
      /\ failed \subseteq failed'
  BY <1>2, HandlerStep DEF Handler
<1>4. /\ auditLog \subseteq auditLog' /\ called \subseteq called'
      /\ cache' \in [Plugin -> {"empty", "fn", "failed"}]
      /\ \A p \in Plugin : cache[p] = "failed" => cache'[p] = "failed"
  BY DEF States, WorkIInv, WorkTypeOK, Handle, AuditEnds, PluginEnds, Import
<1>5. WorkTypeOK'
  BY <1>1, <1>3, <1>4 DEF States, WorkIInv, WorkTypeOK
<1>6. \A q \in Run \ {r} : (InTurn(q) /\ EndStays(q) /\ Served(q))'
  BY <1>1, <1>3, <1>4, OtherRuns DEF WorkIInv, WorkTypeOK, AtEnd, Open
<1>7. InTurn(r)' /\ EndStays(r)'
  BY <1>1, <1>3 DEF States, WorkIInv, WorkTypeOK, InTurn, EndStays, FiringLine, FiringDone, Heard, HeardAll, AtEnd, Open
<1>8. \/ /\ h = Audit
         /\ firing[r].event \in auditLog' \/ <<Audit, firing[r].event>> \in failed'
      \/ /\ h \in Plugin
         /\ (<<h, firing[r].event>> \in called') \/ (cache'[h] = "failed")
  <2>1. CASE AuditEnds(r)
    <3>1. PICK x \in BOOLEAN : HandlerEnds(r, Audit, x)
      BY <2>1 DEF AuditEnds
    <3>2. firing' = [firing EXCEPT ![r].todo = @ \ {Audit}] /\ Audit \in firing[r].todo
      BY <3>1 DEF HandlerEnds
    <3>3. firing'[r].todo = firing[r].todo \ {Audit}
      BY <3>2 DEF States, WorkIInv, WorkTypeOK
    <3>4. h = Audit
      BY <3>2, <3>3, <1>3
    <3> QED BY <2>1, <3>4 DEF AuditEnds, HandlerEnds
  <2>2. ASSUME NEW p \in Plugin, PluginEnds(r, p)
        PROVE  h = p /\ (<<p, firing[r].event>> \in called' \/ cache'[p] = "failed")
    <3>1. PICK x \in BOOLEAN : HandlerEnds(r, p, x)
      BY <2>2 DEF PluginEnds
    <3>2. firing' = [firing EXCEPT ![r].todo = @ \ {p}] /\ p \in firing[r].todo
      BY <3>1 DEF HandlerEnds
    <3>3. firing'[r].todo = firing[r].todo \ {p}
      BY <3>2 DEF States, WorkIInv, WorkTypeOK
    <3>4. h = p
      BY <3>2, <3>3, <1>3
    <3> QED BY <2>2, <3>4 DEF PluginEnds
  <2> QED BY <2>1, <2>2 DEF Handle
<1>9. Served(r)'
  <2> SUFFICES ASSUME FiringDone(r)' PROVE Served(r)'
    BY <1>1, <1>3 DEF Served
  <2>1. FiringDone(r) /\ Served(r)
    BY <1>1, <1>3 DEF FiringDone, WorkIInv
  <2>2. CASE h = Audit
    BY <2>1, <2>2, <1>3, <1>4, <1>8, HandlerTypes DEF Served, FiringDone
  <2>3. CASE h \in Plugin
    BY <2>1, <2>3, <1>3, <1>4, <1>8, HandlerTypes DEF Served, FiringDone
  <2> QED BY <2>2, <2>3, <1>8
<1> QED BY <1>5, <1>6, <1>7, <1>9 DEF WorkIInv

(* Every step, and stuttering.                                             *)
LEMMA WorkStep == WorkIInv /\ [WorkNext]_workVars => WorkIInv'
<1> SUFFICES ASSUME WorkIInv, [WorkNext]_workVars PROVE WorkIInv'
  OBVIOUS
<1>1. ASSUME UNCHANGED <<busVars, run, process, child, printed, read, active, stopped, heard>>
      PROVE  WorkIInv'
  BY <1>1 DEF States, WorkIInv, WorkTypeOK, InTurn, EndStays, Served, FiringLine, FiringDone, Heard, HeardAll, AtEnd, Open, busVars
<1>2. CASE Input
  <2>1. CASE \E r \in Run : LoopFree /\ (RunTests(r) \/ StopRequested(r))
    BY <2>1, TaskStep, ProcessStep
  <2>2. CASE UNCHANGED <<busVars, run, process, child, printed, read, active, stopping, stopped, heard>>
    BY <2>2, <1>1
  <2> QED BY <1>2, <2>1, <2>2 DEF Input
<1>3. CASE (SubscriberStep \/ \E p \in Delivery : Deliver(p)) /\ UNCHANGED <<busVars, runVars>>
  BY <1>3, <1>1 DEF runVars
<1>4. CASE UNCHANGED workVars
  BY <1>4, <1>1 DEF runVars, workVars
<1> QED BY <1>2, <1>3, <1>4, ProcessStep, TaskStep, FireStep, FireEndsStep, ForwardStep, HandleStep DEF WorkNext

(* The inductive invariant of test runs: what was put into the client's    *)
(* queue or dropped at it, and what the handlers have had of every run, by *)
(* the await its task is at                                                *)
(* (test_runner.py:98-127, dispatch.py:33-61, events.py:69-73).            *)
THEOREM WorkInvariant == WorkSpec => []WorkIInv
<1>1. ASSUME WorkInit PROVE WorkIInv
  <2>1. WorkTypeOK
    BY <1>1, RunAssumption DEF WorkInit, BusInit, WorkTypeOK, States
  <2>2. ASSUME NEW r \in Run PROVE InTurn(r)
    BY <1>1, <2>2, RunAssumption DEF WorkInit, BusInit, InTurn, FiringLine, FiringDone, Heard
  <2>3. ASSUME NEW r \in Run PROVE EndStays(r) /\ Served(r)
    BY <1>1, <2>3 DEF WorkInit, EndStays, Served, FiringDone
  <2> QED BY <2>1, <2>2, <2>3 DEF WorkIInv
<1> QED BY <1>1, WorkStep, PTL DEF WorkSpec

(* The client hears the lines of a run in the order they were printed, and *)
(* its end when there is nothing left to print, for any number of lines,   *)
(* whichever of its messages a full queue of the client drops              *)
(* (test_runner.py:98-127, events.py:69-73).                               *)
THEOREM OutputsAreComplete == WorkSpec => []OutputIsComplete
<1>1. ASSUME WorkIInv, NEW r \in Run
      PROVE  /\ \A i \in DOMAIN heard[r] : heard[r][i] \in {Line(r, i), Done(r), Missed}
             /\ Done(r) \in ToSet(heard[r]) =>
                  HeardAll(r) /\ AtEnd(r) /\ heard[r][read[r] + 1] = Done(r)
  <2>0. heard[r] \in Seq(Event \cup {Missed}) /\ read[r] \in Nat /\ DOMAIN heard[r] = 1 .. Len(heard[r])
    BY <1>1 DEF States, WorkIInv, WorkTypeOK
  <2>1. PICK n \in Nat : Heard(r, n) \/ (HeardAll(r) /\ AtEnd(r))
    <3>1. InTurn(r) /\ EndStays(r) /\ run[r] \in States
      BY <1>1 DEF WorkIInv, WorkTypeOK
    <3>2. CASE run[r] = "firing"
      BY <2>0, <3>1, <3>2 DEF InTurn, EndStays, FiringLine, FiringDone
    <3>3. CASE run[r] # "firing"
      BY <2>0, <3>1, <3>3 DEF InTurn, EndStays, States
    <3> QED BY <3>2, <3>3
  <2>2. CASE Heard(r, n)
    BY <2>0, <2>2, EventTypes DEF Heard, ToSet
  <2>3. CASE HeardAll(r) /\ AtEnd(r)
    <3>1. \A i \in 1 .. read[r] : heard[r][i] # Done(r)
      BY <2>0, <2>3, EventTypes DEF HeardAll
    <3> QED BY <2>0, <2>3, <3>1 DEF HeardAll, ToSet
  <2> QED BY <2>1, <2>2, <2>3
<1>2. WorkIInv => OutputIsComplete
  BY <1>1 DEF OutputIsComplete, HeardAll, AtEnd, Last, WorkIInv, WorkTypeOK
<1> QED BY <1>2, WorkInvariant, PTL

(* When a run has ended, the forwarder, the audit log and every plugin     *)
(* that subscribed has had its last event, as long as that is an audited one, which it is  *)
(* (events.py:95, dispatch.py:49-61).                                      *)
THEOREM HandlersRun ==
  ASSUME "tests.run.DONE" \in Audited
  PROVE  WorkSpec => []EveryHandlerRuns
<1>1. ASSUME WorkIInv, NEW r \in Run, run[r] = "ended"
      PROVE  /\ Len(heard[r]) = printed[r] + 1 /\ Last(heard[r]) \in {Done(r), Missed}
             /\ Done(r) \in auditLog \/ <<Audit, Done(r)>> \in failed
             /\ \A p \in Plugin : Done(r).type \in Subscribed[p] =>
                  <<p, Done(r)>> \in called \/ cache[p] = "failed"
  <2>1. heard[r] \in Seq(Event \cup {Missed}) /\ read[r] \in Nat
    BY <1>1 DEF States, WorkIInv, WorkTypeOK
  <2>2. HeardAll(r) /\ AtEnd(r) /\ firing[r].todo = {} /\ Served(r)
    BY <1>1 DEF WorkIInv, InTurn, EndStays
  <2>3. Len(heard[r]) = printed[r] + 1 /\ Last(heard[r]) \in {Done(r), Missed}
    BY <2>1, <2>2 DEF HeardAll, AtEnd, Last
  <2> QED BY <1>1, <2>2, <2>3 DEF Served, Done
<1>2. WorkIInv => EveryHandlerRuns
  BY <1>1 DEF EveryHandlerRuns
<1> QED BY <1>2, WorkInvariant, PTL

-----------------------------------------------------------------------------
(* Subscriptions and deliveries                                            *)

(* What a list of subscriptions can be, and what is saved of all.          *)
Lists == Seq(Device)
Saves == [User -> Lists]
Categories == Preference \cup {"conductor_crash", None}

(* What a delivery knows.                                                  *)
State ==
    [at : {"none", "begin", "users", "send", "stale", "assign", "check", "del", "dump", "write", "ended",
           "raised"},
     category : Categories, users : SUBSET User, user : User \cup {None}, list : Nat, i : Nat,
     stale : Lists, new : Lists \cup Saves]

PushTypeOK ==
    /\ heap \in Seq(Lists) /\ table \in [User -> 0 .. Len(heap)]
    /\ file \in Saves /\ muted \in [User -> SUBSET Preference] /\ gone \subseteq Device
    /\ subscriber \in {NoCall} \cup [at : {"append", "dump"}, device : Device]
                               \cup [at : {"write"}, new : Saves]
    /\ delivery \in [Delivery -> State]
    /\ got \in [Delivery -> [Device -> Nat]]
    /\ kept \subseteq Device /\ due \in [Delivery -> SUBSET Device] /\ overlapped \in BOOLEAN

(* A list has an element; it has each at most once.                        *)
Has(l, x) == \E i \in DOMAIN l : l[i] = x
Once(l) == \A i, j \in DOMAIN l : l[i] = l[j] => i = j

(* A list has every device once, and is of one user.                       *)
ListOf(l, u) == Once(l) /\ \A i \in DOMAIN l : Owner[l[i]] = u

(* No list is of two users, and a list stays that of the user a delivery   *)
(* found it for, in the table or not.                                      *)
WorksFor(p) ==
    LET s == delivery[p] IN
    /\ s.at \in {"send", "stale", "assign", "check", "del", "dump", "write"} => s.user \in User
    /\ s.at = "send" =>
         /\ s.list \in DOMAIN heap /\ s.i \in 1 .. Len(heap[s.list]) + 1
         /\ ListOf(heap[s.list], s.user)
         /\ \A u \in User : table[u] = s.list => u = s.user
    /\ s.at = "assign" => s.new \in Lists /\ ListOf(s.new, s.user)
    /\ s.at = "write" => s.new \in Saves

Objects ==
    /\ \A u, v \in User : table[u] # 0 /\ table[u] = table[v] => u = v
    /\ \A u \in User : ListOf(Listed(u), u)
    /\ \A p \in Delivery : WorksFor(p)

(* What is kept is in the list of its user, and no clean-up under way is   *)
(* about to take it out.                                                   *)
Spares(p) ==
    LET s == delivery[p] IN
    /\ \A i \in DOMAIN s.stale : s.stale[i] \in gone
    /\ s.at = "assign" => \A d \in kept : Owner[d] = s.user => Has(s.new, d)
    /\ s.at = "del" => \A d \in kept : Owner[d] # s.user

KeptListed ==
    /\ kept \cap gone = {}
    /\ \A d \in kept : Has(Listed(Owner[d]), d)
    /\ \A p \in Delivery : Spares(p)

(* Somebody is about to dump the list of u.                                *)
Dirty(u) ==
    \/ subscriber.at = "dump" /\ Owner[subscriber.device] = u
    \/ \E p \in Delivery : delivery[p].at \in {"check", "del", "dump"} /\ delivery[p].user = u

Covers(f) == \A u \in User : \A d \in Device : Has(Listed(u), d) => Dirty(u) \/ Has(f[u], d)

(* At most one save is under way; it, or the file without one, has all but *)
(* the lists that are about to be dumped.                                  *)
FileCovers ==
    ~overlapped =>
      /\ \A p, q \in Saving : p = q
      /\ subscriber.at = "write" => Saving = {} /\ Covers(subscriber.new)
      /\ \A p \in Saving : Covers(delivery[p].new)
      /\ Saving = {} /\ subscriber.at # "write" => Covers(file)

(* The devices a delivery has reached, and those it has yet to reach or    *)
(* has failed to (due is without these).                                   *)
Reached(p) ==
    LET s == delivery[p] IN
    /\ \A d \in Device : got[p][d] <= 1
    /\ s.at \in {"none", "begin"} => \A d \in Device : got[p][d] = 0
    /\ s.at \notin {"none", "begin"} => \A d \in Device : Owner[d] \in s.users => got[p][d] = 0
    /\ s.at = "send" =>
         /\ s.user \notin s.users
         /\ \A d \in Device : Owner[d] = s.user /\ got[p][d] = 1 => \E j \in 1 .. s.i - 1 : heap[s.list][j] = d

Reaches(p, d) ==
    LET s == delivery[p] IN
    \/ Owner[d] \in s.users \/ got[p][d] = 1
    \/ s.at = "send" /\ Owner[d] = s.user /\ \E j \in s.i .. Len(heap[s.list]) : heap[s.list][j] = d

ToReach(p) ==
    /\ \A d \in due[p] :
         /\ d \in kept /\ delivery[p].category \notin muted[Owner[d]]
         /\ delivery[p].at \notin {"none", "begin", "raised"} => Reaches(p, d)
    /\ delivery[p].at = "ended" => delivery[p].users = {}

PushIInv == PushTypeOK /\ Objects /\ KeptListed /\ FileCovers /\ \A p \in Delivery : Reached(p) /\ ToReach(p)

-----------------------------------------------------------------------------
(* Lists without an endpoint.                                              *)

(* A set of numbers that is closed under the next number has them all.     *)
LEMMA Induct ==
    ASSUME NEW n \in Nat, NEW T, 0 \in T, \A m \in 0 .. n - 1 : m \in T => m + 1 \in T
    PROVE  0 .. n \subseteq T
<1> DEFINE Bad == (0 .. n) \ T
<1> SUFFICES ASSUME Bad # {} PROVE FALSE
  OBVIOUS
<1>1. Bad \subseteq Nat
  OBVIOUS
<1>2. PICK m \in Bad : \A k \in Bad : ~ (<<k, m>> \in OpToRel(<, Nat))
  BY <1>1, WFMin, NatLessThanWellFounded, Zenon
<1>3. \A k \in Bad : ~ (k < m)
  BY <1>1, <1>2 DEF OpToRel
<1>4. m \in 0 .. n /\ m \notin T
  OBVIOUS
<1>5. m - 1 \in 0 .. n - 1
  BY <1>4
<1>6. m - 1 \in 0 .. n /\ m - 1 < m /\ (m - 1) + 1 = m
  BY <1>5
<1>7. m - 1 \in T
  BY <1>3, <1>6
<1> QED BY <1>4, <1>5, <1>6, <1>7

(* upTo in Without is what its definition says.                            *)
UpTo(l, d, n, f) ==
    f = [m \in 0 .. n |-> IF m = 0 THEN <<>>
                          ELSE IF l[m] = d THEN f[m - 1] ELSE Append(f[m - 1], l[m])]

(* There is such a function: the CHOOSE in Without finds one.              *)
LEMMA UpToExists ==
    ASSUME NEW D, NEW l \in Seq(D), NEW d
    PROVE  \E f : UpTo(l, d, Len(l), f)
<1> DEFINE T == {n \in 0 .. Len(l) : \E f \in [0 .. n -> Seq(D)] : UpTo(l, d, n, f)}
<1>1. 0 \in T
  <2>1. [m \in 0 .. 0 |-> <<>>] \in [0 .. 0 -> Seq(D)]
    OBVIOUS
  <2>2. UpTo(l, d, 0, [m \in 0 .. 0 |-> <<>>])
    BY DEF UpTo
  <2> QED BY <2>1, <2>2
<1>2. ASSUME NEW n \in 0 .. Len(l) - 1, n \in T PROVE n + 1 \in T
  <2>1. PICK f \in [0 .. n -> Seq(D)] : UpTo(l, d, n, f)
    BY <1>2
  <2> DEFINE e == IF l[n + 1] = d THEN f[n] ELSE Append(f[n], l[n + 1])
             g == [m \in 0 .. n + 1 |-> IF m = n + 1 THEN e ELSE f[m]]
  <2>2. e \in Seq(D)
    OBVIOUS
  <2>3. g \in [0 .. n + 1 -> Seq(D)]
    BY <2>2
  <2>4. \A m \in 0 .. n : f[m] = IF m = 0 THEN <<>>
                                 ELSE IF l[m] = d THEN f[m - 1] ELSE Append(f[m - 1], l[m])
    BY <2>1 DEF UpTo
  <2>5. \A m \in 0 .. n + 1 : g[m] = IF m = 0 THEN <<>>
                                     ELSE IF l[m] = d THEN g[m - 1] ELSE Append(g[m - 1], l[m])
    <3> SUFFICES ASSUME NEW m \in 0 .. n + 1
                 PROVE  g[m] = IF m = 0 THEN <<>>
                               ELSE IF l[m] = d THEN g[m - 1] ELSE Append(g[m - 1], l[m])
      OBVIOUS
    <3>1. CASE m = n + 1
      <4>1. g[m] = e /\ m # 0 /\ m - 1 = n /\ g[m - 1] = f[n]
        BY <3>1
      <4> QED BY <3>1, <4>1
    <3>2. CASE m # n + 1
      <4>1. m \in 0 .. n /\ g[m] = f[m] /\ (m # 0 => m - 1 \in 0 .. n /\ g[m - 1] = f[m - 1])
        BY <3>2
      <4> QED BY <2>4, <4>1
    <3> QED BY <3>1, <3>2
  <2>6. UpTo(l, d, n + 1, g)
    <3>1. g = [m \in 0 .. n + 1 |-> g[m]]
      OBVIOUS
    <3> HIDE DEF g
    <3> QED BY <2>5, <3>1 DEF UpTo
  <2>7. n + 1 \in 0 .. Len(l)
    OBVIOUS
  <2> HIDE DEF g
  <2> QED BY <2>3, <2>6, <2>7
<1>3. Len(l) \in T
  <2> HIDE DEF T
  <2>1. Len(l) \in Nat
    OBVIOUS
  <2>2. 0 .. Len(l) \subseteq T
    BY <1>1, <1>2, <2>1, Induct
  <2> QED BY <2>1, <2>2
<1> QED BY <1>3

(* What an append adds.                                                    *)
LEMMA AppendHas ==
    ASSUME NEW D, NEW l \in Seq(D), NEW y \in D
    PROVE  /\ Append(l, y) \in Seq(D)
           /\ \A x : Has(Append(l, y), x) <=> Has(l, x) \/ x = y
           /\ Once(l) /\ ~Has(l, y) => Once(Append(l, y))
<1> DEFINE a == Append(l, y)
<1>1. a \in Seq(D) /\ Len(a) = Len(l) + 1 /\ a[Len(l) + 1] = y /\ \A i \in 1 .. Len(l) : a[i] = l[i]
  OBVIOUS
<1>2. DOMAIN l = 1 .. Len(l) /\ DOMAIN a = 1 .. Len(l) + 1 /\ Len(l) \in Nat
  BY <1>1
<1> HIDE DEF a
<1>3. ASSUME NEW x PROVE Has(a, x) <=> Has(l, x) \/ x = y
  BY <1>1, <1>2 DEF Has
<1>4. Once(l) /\ ~Has(l, y) => Once(a)
  <2> SUFFICES ASSUME Once(l), ~Has(l, y), NEW i \in 1 .. Len(l) + 1, NEW j \in 1 .. Len(l) + 1, a[i] = a[j]
               PROVE  i = j
    BY <1>2 DEF Once
  <2>1. CASE i \in 1 .. Len(l) /\ j \in 1 .. Len(l)
    BY <1>1, <1>2, <2>1 DEF Once
  <2>2. CASE i = Len(l) + 1 \/ j = Len(l) + 1
    BY <1>1, <1>2, <2>2 DEF Has
  <2> QED BY <1>2, <2>1, <2>2
<1> QED BY <1>1, <1>3, <1>4 DEF a

(* Filtering a list out leaves the others, each as often as before.        *)
LEMMA WithoutFacts ==
    ASSUME NEW D, NEW l \in Seq(D), NEW d
    PROVE  /\ Without(l, d) \in Seq(D)
           /\ \A x : Has(Without(l, d), x) <=> Has(l, x) /\ x # d
           /\ Once(l) => Once(Without(l, d))
<1>1. PICK f : UpTo(l, d, Len(l), f) /\ Without(l, d) = f[Len(l)]
  <2> DEFINE upTo == CHOOSE f : UpTo(l, d, Len(l), f)
  <2>1. UpTo(l, d, Len(l), upTo)
    <3>1. \E f : UpTo(l, d, Len(l), f)
      BY UpToExists
    <3> QED BY <3>1, Zenon
  <2>2. Without(l, d) = upTo[Len(l)]
    BY DEF UpTo, Without
  <2> QED BY <2>1, <2>2
<1>2. \A m \in 0 .. Len(l) : f[m] = IF m = 0 THEN <<>>
                                    ELSE IF l[m] = d THEN f[m - 1] ELSE Append(f[m - 1], l[m])
  BY <1>1 DEF UpTo
<1> DEFINE Part(n, x) == \E i \in 1 .. n : l[i] = x
           T == {n \in 0 .. Len(l) : /\ f[n] \in Seq(D)
                                     /\ \A x \in D : Has(f[n], x) <=> Part(n, x) /\ x # d
                                     /\ Once(l) => Once(f[n])}
<1>3. Len(l) \in Nat /\ DOMAIN l = 1 .. Len(l)
  OBVIOUS
<1>4. 0 \in T
  <2>1. f[0] = <<>>
    BY <1>2, <1>3
  <2>2. \A x : ~Has(<<>>, x)
    BY DEF Has
  <2>3. Once(<<>>)
    BY DEF Once
  <2>4. \A x : ~Part(0, x)
    OBVIOUS
  <2>5. f[0] \in Seq(D) /\ 0 \in 0 .. Len(l)
    BY <2>1, <1>3
  <2> HIDE DEF Part
  <2> QED BY <2>1, <2>2, <2>3, <2>4, <2>5
<1>5. ASSUME NEW n \in 0 .. Len(l) - 1, n \in T PROVE n + 1 \in T
  <2>1. /\ n \in Nat /\ n + 1 \in 0 .. Len(l) /\ n + 1 \in 1 .. Len(l) /\ l[n + 1] \in D
        /\ f[n] \in Seq(D) /\ (\A x \in D : Has(f[n], x) <=> Part(n, x) /\ x # d) /\ (Once(l) => Once(f[n]))
    BY <1>3, <1>5
  <2>2. f[n + 1] = IF l[n + 1] = d THEN f[n] ELSE Append(f[n], l[n + 1])
    BY <1>2, <2>1
  <2>3. ASSUME NEW x PROVE Part(n + 1, x) <=> Part(n, x) \/ x = l[n + 1]
    BY <2>1
  <2>4. Once(l) => ~Part(n, l[n + 1])
    BY <2>1, <1>3 DEF Once
  <2> HIDE DEF Part
  <2>5. CASE l[n + 1] = d
    BY <2>1, <2>2, <2>3, <2>5
  <2>6. CASE l[n + 1] # d
    <3>1. /\ f[n + 1] \in Seq(D)
          /\ \A x : Has(f[n + 1], x) <=> Has(f[n], x) \/ x = l[n + 1]
          /\ Once(f[n]) /\ ~Has(f[n], l[n + 1]) => Once(f[n + 1])
      BY <2>1, <2>2, <2>6, AppendHas
    <3> QED BY <2>1, <2>3, <2>4, <2>6, <3>1
  <2> QED BY <2>5, <2>6
<1>6. Len(l) \in T
  <2> HIDE DEF T
  <2>1. 0 .. Len(l) \subseteq T
    BY <1>3, <1>4, <1>5, Induct
  <2> QED BY <1>3, <2>1
<1>7. /\ f[Len(l)] \in Seq(D)
      /\ \A x \in D : Has(f[Len(l)], x) <=> Part(Len(l), x) /\ x # d
      /\ Once(l) => Once(f[Len(l)])
  BY <1>6
<1>8. ASSUME NEW x PROVE Has(f[Len(l)], x) <=> Has(l, x) /\ x # d
  <2>1. Part(Len(l), x) <=> Has(l, x)
    BY <1>3 DEF Has
  <2>2. (Has(l, x) => x \in D) /\ (Has(f[Len(l)], x) => x \in D)
    BY <1>3, <1>7 DEF Has
  <2> HIDE DEF Part
  <2> QED BY <1>7, <2>1, <2>2
<1> QED BY <1>1, <1>7, <1>8

-----------------------------------------------------------------------------
(* Types                                                                   *)

(* The list of every user.                                                 *)
LEMMA ListTypes ==
    ASSUME PushTypeOK
    PROVE  /\ \A u \in User : Listed(u) \in Lists
           /\ Contents \in Saves /\ \A u \in User : Contents[u] = Listed(u)
<1>1. ASSUME NEW u \in User PROVE Listed(u) \in Lists
  BY DEF PushTypeOK, Listed, Lists
<1> QED BY <1>1 DEF Contents, Saves

(* One user gets a new list, the others keep theirs.                       *)
LEMMA RebindFacts ==
    ASSUME PushTypeOK, NEW u \in User, NEW l \in Lists, Rebind(u, l)
    PROVE  /\ heap' \in Seq(Lists) /\ table' \in [User -> 0 .. Len(heap')]
           /\ Len(heap') = Len(heap) + 1 /\ DOMAIN heap' = 1 .. Len(heap) + 1 /\ DOMAIN heap = 1 .. Len(heap)
           /\ \A k \in DOMAIN heap : heap'[k] = heap[k]
           /\ Listed(u)' = l /\ table'[u] = Len(heap) + 1
           /\ \A v \in User \ {u} : Listed(v)' = Listed(v) /\ table'[v] = table[v]
<1>1. /\ heap \in Seq(Lists) /\ table \in [User -> 0 .. Len(heap)] /\ Len(heap) \in Nat
      /\ heap' = Append(heap, l) /\ table' = [table EXCEPT ![u] = Len(heap) + 1]
  BY DEF PushTypeOK, Rebind
<1>2. /\ heap' \in Seq(Lists) /\ Len(heap') = Len(heap) + 1 /\ heap'[Len(heap) + 1] = l
      /\ DOMAIN heap' = 1 .. Len(heap) + 1 /\ DOMAIN heap = 1 .. Len(heap)
      /\ \A k \in DOMAIN heap : heap'[k] = heap[k]
  BY <1>1
<1>3. /\ table' \in [User -> 0 .. Len(heap')] /\ table'[u] = Len(heap) + 1
      /\ \A v \in User \ {u} : table'[v] = table[v]
  BY <1>1, <1>2
<1>4. Listed(u)' = l
  BY <1>1, <1>2, <1>3 DEF Listed
<1>5. \A v \in User \ {u} : Listed(v)' = Listed(v)
  BY <1>1, <1>2, <1>3 DEF Listed
<1> QED BY <1>2, <1>3, <1>4, <1>5

(* Changes of one delivery.                                                *)
LEMMA StateTypes ==
    ASSUME PushTypeOK, NEW p \in Delivery
    PROVE  /\ delivery[p] \in State
           /\ delivery[p].users \subseteq User /\ delivery[p].user \in User \cup {None}
           /\ delivery[p].list \in Nat /\ delivery[p].i \in Nat /\ delivery[p].stale \in Lists
           /\ delivery[p].category \in Categories
BY DEF PushTypeOK, State

(* Every event has a category, or none.                                    *)
LEMMA Categorized == \A e : Category(e) \in Categories
BY DEF Category, Categories, Preference

(* Types after a step of a delivery.                                       *)
LEMMA DeliverTypes ==
    ASSUME PushTypeOK, Objects, NEW p \in Delivery, Deliver(p)
    PROVE  PushTypeOK'
<1> DEFINE s == delivery[p]
<1>0. /\ s \in State /\ s.users \subseteq User /\ s.user \in User \cup {None} /\ s.list \in Nat
      /\ s.i \in Nat /\ s.stale \in Lists /\ s.category \in Categories
  BY StateTypes
<1>a. /\ <<>> \in Lists /\ Len(heap) \in Nat /\ \A u \in User : table[u] \in Nat
      /\ Lists \subseteq Lists \cup Saves /\ Saves \subseteq Lists \cup Saves
  BY DEF PushTypeOK, Lists
<1>b. ASSUME NEW t \in State, delivery' = [delivery EXCEPT ![p] = t] PROVE delivery' \in [Delivery -> State]
  BY <1>b DEF PushTypeOK
<1>1. CASE Begin(p)
  <2>1. delivery' \in [Delivery -> State]
    BY <1>0, <1>1 DEF Begin, PushTypeOK, State
  <2> QED BY <1>1, <2>1 DEF Begin, Quiet, PushTypeOK
<1>2. ASSUME NEW u \in User, NextUser(p, u) PROVE PushTypeOK'
  <2>1. delivery' \in [Delivery -> State]
    <3> DEFINE t == [s EXCEPT !.users = @ \ {u},
                       !.at = IF s.category \in muted[u] \/ Listed(u) = <<>> THEN "users" ELSE "send",
                       !.user = u, !.list = table[u], !.i = 1, !.stale = <<>>]
    <3>1. t \in State
      BY <1>0, <1>a DEF State
    <3>2. delivery' = [delivery EXCEPT ![p] = t]
      BY <1>2 DEF NextUser, PushTypeOK
    <3> HIDE DEF t
    <3> QED BY <1>b, <3>1, <3>2
  <2> QED BY <1>2, <2>1 DEF NextUser, Quiet, PushTypeOK
<1>3. CASE DeliveryEnds(p)
  <2>1. delivery' \in [Delivery -> State]
    <3>1. [Idle EXCEPT !.at = "ended", !.category = s.category] \in State
      BY <1>0, <1>a DEF State, Idle
    <3> QED BY <1>b, <1>3, <3>1 DEF DeliveryEnds
  <2> QED BY <1>3, <2>1 DEF DeliveryEnds, Quiet, PushTypeOK
<1>4. CASE Send(p)
  <2> DEFINE d == heap[s.list][s.i]
  <2>1. d \in Device
    BY <1>4, <1>0 DEF Send, Objects, WorksFor, PushTypeOK, Lists
  <2>2. delivery' \in [Delivery -> State]
    <3> DEFINE t == [s EXCEPT !.i = @ + 1]
               r == [s EXCEPT !.i = @ + 1, !.stale = Append(@, d)]
    <3>1. t \in State /\ r \in State
      <4>1. s.i + 1 \in Nat /\ Append(s.stale, d) \in Lists
        BY <1>0, <2>1 DEF Lists
      <4> QED BY <1>0, <4>1 DEF State
    <3>2. delivery' = [delivery EXCEPT ![p] = t] \/ delivery' = [delivery EXCEPT ![p] = r]
      BY <1>4 DEF Send, PushTypeOK
    <3> HIDE DEF t, r
    <3> QED BY <1>b, <3>1, <3>2
  <2>3. got' \in [Delivery -> [Device -> Nat]]
    <3>1. got \in [Delivery -> [Device -> Nat]]
      BY DEF PushTypeOK
    <3>2. got' = got \/ got' = [got EXCEPT ![p][d] = @ + 1]
      BY <1>4 DEF Send
    <3> HIDE DEF d
    <3> QED BY <2>1, <3>1, <3>2
  <2> QED BY <1>4, <2>2, <2>3 DEF Send, Quiet, PushTypeOK
<1>11. CASE SendFails(p)
  <2> DEFINE d == heap[s.list][s.i]
  <2>1. d \in Device
    BY <1>11, <1>0 DEF SendFails, Objects, WorksFor, PushTypeOK, Lists
  <2>2. delivery' \in [Delivery -> State]
    <3>1. [s EXCEPT !.i = @ + 1] \in State
      <4>1. s.i + 1 \in Nat
        BY <1>0
      <4> QED BY <1>0, <4>1 DEF State
    <3>2. delivery' = [delivery EXCEPT ![p] = [s EXCEPT !.i = @ + 1]]
      BY <1>11 DEF SendFails, PushTypeOK
    <3> QED BY <1>b, <3>1, <3>2
  <2>3. got' \in [Delivery -> [Device -> Nat]]
    <3>1. got \in [Delivery -> [Device -> Nat]]
      BY DEF PushTypeOK
    <3>2. got' = got \/ got' = [got EXCEPT ![p][d] = @ + 1]
      BY <1>11 DEF SendFails
    <3> HIDE DEF d
    <3> QED BY <2>1, <3>1, <3>2
  <2>4. due' \in [Delivery -> SUBSET Device]
    BY <1>11 DEF SendFails, PushTypeOK
  <2> QED BY <1>11, <2>2, <2>3, <2>4 DEF SendFails, PushTypeOK
<1>5. CASE NextStale(p)
  <2>1. s.user \in User
    BY <1>5 DEF NextStale, Objects, WorksFor
  <2>2. Listed(s.user) \in Lists
    BY <2>1, ListTypes
  <2>3. Without(Listed(s.user), Head(s.stale)) \in Lists
    BY <2>2, WithoutFacts DEF Lists
  <2>4. s.stale # <<>> => Tail(s.stale) \in Lists
    BY <1>0 DEF Lists
  <2>5. delivery' \in [Delivery -> State]
    BY <1>0, <1>5, <2>3, <2>4 DEF NextStale, PushTypeOK, State
  <2> QED BY <1>5, <2>5 DEF NextStale, Quiet, PushTypeOK
<1>6. CASE Assign(p)
  <2>1. s.user \in User /\ s.new \in Lists
    BY <1>6 DEF Assign, Objects, WorksFor
  <2>2. delivery' \in [Delivery -> State]
    <3>1. [s EXCEPT !.at = "check", !.new = <<>>] \in State
      BY <1>0, <1>a DEF State
    <3>2. delivery' = [delivery EXCEPT ![p] = [s EXCEPT !.at = "check", !.new = <<>>]]
      BY <1>6 DEF Assign, PushTypeOK
    <3> QED BY <1>b, <3>1, <3>2
  <2>3. heap' \in Seq(Lists) /\ table' \in [User -> 0 .. Len(heap')]
    BY <1>6, <2>1, RebindFacts DEF Assign
  <2> QED BY <1>6, <2>2, <2>3 DEF Assign, Quiet, PushTypeOK
<1>7. CASE CheckEmpty(p)
  <2>1. delivery' \in [Delivery -> State]
    BY <1>0, <1>7 DEF CheckEmpty, PushTypeOK, State
  <2> QED BY <1>7, <2>1 DEF CheckEmpty, Quiet, PushTypeOK
<1>8. CASE Del(p)
  <2>1. delivery' \in [Delivery -> State]
    <3>1. [s EXCEPT !.at = "raised"] \in State /\ [s EXCEPT !.at = "dump"] \in State
      BY <1>0 DEF State
    <3>2. \/ delivery' = [delivery EXCEPT ![p] = [s EXCEPT !.at = "raised"]]
          \/ delivery' = [delivery EXCEPT ![p] = [s EXCEPT !.at = "dump"]]
      BY <1>8 DEF Del, PushTypeOK
    <3> QED BY <1>b, <3>1, <3>2
  <2>2. table' \in [User -> 0 .. Len(heap)]
    BY <1>8 DEF Del, PushTypeOK
  <2> QED BY <1>8, <2>1, <2>2 DEF Del, Quiet, PushTypeOK
<1>9. CASE Dump(p)
  <2>1. delivery' \in [Delivery -> State]
    BY <1>0, <1>9, ListTypes DEF Dump, PushTypeOK, State
  <2>2. overlapped' \in BOOLEAN
    BY <1>9 DEF Dump, Dumps, PushTypeOK
  <2> QED BY <1>9, <2>1, <2>2 DEF Dump, PushTypeOK
<1>10. CASE Write(p)
  <2>1. delivery' \in [Delivery -> State]
    <3>1. [s EXCEPT !.at = "stale", !.new = <<>>] \in State
      BY <1>0, <1>a DEF State
    <3>2. delivery' = [delivery EXCEPT ![p] = [s EXCEPT !.at = "stale", !.new = <<>>]]
      BY <1>10 DEF Write, PushTypeOK
    <3> QED BY <1>b, <3>1, <3>2
  <2>2. file' \in Saves
    BY <1>10 DEF Write, Objects, WorksFor
  <2> QED BY <1>10, <2>1, <2>2 DEF Write, PushTypeOK
<1> QED BY <1>1, <1>2, <1>3, <1>4, <1>5, <1>6, <1>7, <1>8, <1>9, <1>10, <1>11 DEF Deliver

(* What the loop, the users and the push service do.                       *)
PushInput ==
    \/ \E d \in Device : Subscribe(d) \/ Gone(d)
    \/ \E u \in User, c \in Preference, on \in BOOLEAN : SetPreferences(u, c, on)
    \/ \E e : MaybePush(e)
    \/ SubscriberStep

(* Types after the other steps.                                            *)
LEMMA InputTypes ==
    ASSUME PushTypeOK, PushInput
    PROVE  PushTypeOK'
<1>a. /\ <<>> \in Lists /\ Len(heap) \in Nat /\ \A d \in Device : Owner[d] \in User
  BY PushAssumption DEF PushTypeOK, Lists
<1>1. ASSUME NEW d \in Device, Subscribe(d) PROVE PushTypeOK'
  <2>1. subscriber' \in [at : {"append", "dump"}, device : Device]
    BY <1>1 DEF Subscribe
  <2>2. CASE table[Owner[d]] = 0
    <3>1. heap' \in Seq(Lists) /\ table' \in [User -> 0 .. Len(heap')]
      BY <1>1, <1>a, <2>2, RebindFacts DEF Subscribe
    <3> QED BY <1>1, <2>1, <3>1 DEF Subscribe, PushTypeOK
  <2>3. CASE table[Owner[d]] # 0
    BY <1>1, <2>1, <2>3 DEF Subscribe, PushTypeOK
  <2> QED BY <2>2, <2>3
<1>2. ASSUME NEW d \in Device, Gone(d) PROVE PushTypeOK'
  <2>1. due' \in [Delivery -> SUBSET Device]
    BY <1>2 DEF Gone, PushTypeOK
  <2> QED BY <1>2, <2>1 DEF Gone, PushTypeOK
<1>3. ASSUME NEW u \in User, NEW c \in Preference, NEW on \in BOOLEAN, SetPreferences(u, c, on)
      PROVE  PushTypeOK'
  <2>1. due' \in [Delivery -> SUBSET Device] /\ muted' \in [User -> SUBSET Preference]
    BY <1>3 DEF SetPreferences, PushTypeOK
  <2> QED BY <1>3, <2>1 DEF SetPreferences, PushTypeOK
<1>4. ASSUME NEW e, MaybePush(e) PROVE PushTypeOK'
  <2>1. CASE UNCHANGED pushVars
    BY <2>1 DEF pushVars, PushTypeOK
  <2>2. CASE ~UNCHANGED pushVars
    <3>1. PICK p \in Delivery :
            /\ delivery' = [delivery EXCEPT ![p].at = "begin", ![p].category = Category(e)]
            /\ due' = [due EXCEPT ![p] = {d \in kept \ gone : Category(e) \notin muted[Owner[d]]}]
      BY <1>4, <2>2 DEF MaybePush
    <3>2. delivery' \in [Delivery -> State]
      <4>1. delivery[p] \in State /\ Category(e) \in Categories
        BY Categorized, StateTypes
      <4>2. [delivery[p] EXCEPT !.at = "begin", !.category = Category(e)] \in State
        BY <4>1 DEF State
      <4>3. delivery' = [delivery EXCEPT ![p] = [delivery[p] EXCEPT !.at = "begin", !.category = Category(e)]]
        BY <3>1 DEF PushTypeOK
      <4> QED BY <4>2, <4>3 DEF PushTypeOK
    <3>3. due' \in [Delivery -> SUBSET Device]
      BY <3>1 DEF PushTypeOK
    <3> QED BY <1>4, <2>2, <3>2, <3>3 DEF MaybePush, PushTypeOK
  <2> QED BY <2>1, <2>2
<1>5. CASE AppendDevice
  <2> DEFINE d == subscriber.device
             u == Owner[d]
  <2>1. d \in Device /\ u \in User
    BY <1>5, PushAssumption DEF AppendDevice, PushTypeOK, NoCall
  <2>2. heap' \in Seq(Lists) /\ Len(heap') = Len(heap)
    <3>1. CASE table[u] = 0
      BY <1>5, <3>1 DEF AppendDevice, PushTypeOK
    <3>2. CASE table[u] # 0
      <4> DEFINE l == heap[table[u]]
                 m == IF Contains(l, d) THEN l ELSE Append(l, d)
      <4>1. table[u] \in 1 .. Len(heap) /\ l \in Lists /\ heap \in Seq(Lists)
        BY <2>1, <3>2 DEF PushTypeOK
      <4>2. m \in Lists
        BY <2>1, <4>1 DEF Lists
      <4>3. heap' = [heap EXCEPT ![table[u]] = m]
        BY <1>5, <3>2 DEF AppendDevice
      <4> HIDE DEF m
      <4> QED BY <4>1, <4>2, <4>3
    <3> QED BY <3>1, <3>2
  <2>3. /\ subscriber' \in {NoCall} \cup [at : {"append", "dump"}, device : Device]
        /\ kept' \subseteq Device
    BY <1>5, <2>1 DEF AppendDevice, PushTypeOK
  <2> QED BY <1>5, <2>2, <2>3 DEF AppendDevice, PushTypeOK
<1>6. CASE DumpSubscribed
  <2>1. subscriber' \in [at : {"write"}, new : Saves] /\ overlapped' \in BOOLEAN
    BY <1>6, ListTypes DEF DumpSubscribed, Dumps, PushTypeOK
  <2> QED BY <1>6, <2>1 DEF DumpSubscribed, PushTypeOK
<1>7. CASE WriteSubscribed
  <2>1. file' \in Saves
    BY <1>7 DEF WriteSubscribed, PushTypeOK, NoCall
  <2> QED BY <1>7, <2>1 DEF WriteSubscribed, PushTypeOK
<1> QED BY <1>1, <1>2, <1>3, <1>4, <1>5, <1>6, <1>7 DEF PushInput, SubscriberStep

-----------------------------------------------------------------------------
(* What a step does to the lists.                                          *)

(* A delivery leaves every list as it is; it gives a user a new one, or    *)
(* none.                                                                   *)
LEMMA DeliverLists ==
    ASSUME PushTypeOK, Objects, NEW p \in Delivery, Deliver(p)
    PROVE  /\ \A k \in DOMAIN heap : k \in DOMAIN heap' /\ heap'[k] = heap[k]
           /\ \A u \in User : table'[u] # 0 /\ table'[u] \in DOMAIN heap => table'[u] = table[u]
           /\ \A u, v \in User : table'[u] # 0 /\ table'[u] = table'[v] => u = v
           /\ \A u \in User :
                \/ Listed(u)' = Listed(u)
                \/ delivery[p].at = "assign" /\ u = delivery[p].user /\ Listed(u)' = delivery[p].new
                \/ delivery[p].at = "del" /\ u = delivery[p].user /\ Listed(u)' = <<>>
           /\ \A q \in Delivery \ {p} : delivery'[q] = delivery[q]
<1>1. CASE UNCHANGED <<heap, table>>
  <2>1. \A u \in User : Listed(u)' = Listed(u)
    BY <1>1 DEF Listed
  <2>2. \A q \in Delivery \ {p} : delivery'[q] = delivery[q]
    BY DEF Deliver, Begin, NextUser, DeliveryEnds, Send, SendFails, NextStale, Assign, CheckEmpty, Del, Dump,
           Write, PushTypeOK
  <2> QED BY <1>1, <2>1, <2>2 DEF Objects, WorksFor
<1>2. CASE Assign(p)
  <2> DEFINE s == delivery[p]
  <2>0. PICK w \in User : w = s.user
    BY <1>2 DEF Assign, Objects, WorksFor
  <2>1. s.at = "assign" /\ s.user \in User /\ s.new \in Lists /\ Rebind(w, s.new)
    BY <1>2, <2>0 DEF Assign, Objects, WorksFor
  <2>2. /\ Len(heap) \in Nat /\ table \in [User -> 0 .. Len(heap)]
        /\ DOMAIN heap' = 1 .. Len(heap) + 1 /\ DOMAIN heap = 1 .. Len(heap)
        /\ \A k \in DOMAIN heap : heap'[k] = heap[k]
        /\ Listed(w)' = s.new /\ table'[w] = Len(heap) + 1
        /\ \A v \in User \ {w} : Listed(v)' = Listed(v) /\ table'[v] = table[v]
    BY <2>1, RebindFacts DEF PushTypeOK
  <2>3. \A q \in Delivery \ {p} : delivery'[q] = delivery[q]
    BY <1>2 DEF Assign, PushTypeOK
  <2>4. \A k \in DOMAIN heap : k \in DOMAIN heap' /\ heap'[k] = heap[k]
    BY <2>2
  <2>5. \A u \in User : table'[u] # 0 /\ table'[u] \in DOMAIN heap => table'[u] = table[u]
    BY <2>2
  <2>6. \A u, v \in User : table'[u] # 0 /\ table'[u] = table'[v] => u = v
    BY <2>2 DEF Objects, WorksFor
  <2>7. \A u \in User : Listed(u)' = Listed(u) \/ (u = s.user /\ Listed(u)' = s.new)
    BY <2>0, <2>2
  <2> QED BY <2>1, <2>3, <2>4, <2>5, <2>6, <2>7
<1>3. CASE Del(p) /\ table[delivery[p].user] # 0
  <2> DEFINE s == delivery[p]
  <2>0. PICK w \in User : w = s.user
    BY <1>3 DEF Del, Objects, WorksFor
  <2>1. s.at = "del" /\ s.user \in User /\ heap' = heap /\ table' = [table EXCEPT ![w] = 0]
    BY <1>3, <2>0 DEF Del, Objects, WorksFor
  <2>2. /\ table \in [User -> 0 .. Len(heap)] /\ table'[w] = 0
        /\ \A v \in User \ {w} : table'[v] = table[v]
    BY <2>1 DEF PushTypeOK
  <2>3. Listed(w)' = <<>> /\ \A v \in User \ {w} : Listed(v)' = Listed(v)
    BY <2>1, <2>2 DEF Listed
  <2>4. \A q \in Delivery \ {p} : delivery'[q] = delivery[q]
    BY <1>3 DEF Del, PushTypeOK
  <2>5. \A u, v \in User : table'[u] # 0 /\ table'[u] = table'[v] => u = v
    BY <2>2 DEF Objects, WorksFor
  <2> QED BY <2>0, <2>1, <2>2, <2>3, <2>4, <2>5
<1> QED
  BY <1>1, <1>2, <1>3 DEF Deliver, Begin, NextUser, DeliveryEnds, Send, SendFails, NextStale, CheckEmpty, Del,
                          Dump, Write

(* No list changes, but a user without one may get an empty one.           *)
Steady ==
    /\ \A k \in DOMAIN heap : k \in DOMAIN heap' /\ heap'[k] = heap[k]
    /\ \A u \in User : table'[u] # 0 /\ table'[u] \in DOMAIN heap => table'[u] = table[u]
    /\ \A u, v \in User : table'[u] # 0 /\ table'[u] = table'[v] => u = v
    /\ \A u \in User : Listed(u)' = Listed(u)

(* Only a subscribe changes a list, by adding a device to it.              *)
LEMMA InputLists ==
    ASSUME PushTypeOK, Objects, PushInput
    PROVE  Steady \/ AppendDevice
<1>1. CASE UNCHANGED <<heap, table>>
  BY <1>1 DEF Steady, Listed, Objects, WorksFor
<1>2. ASSUME NEW d \in Device, Subscribe(d), table[Owner[d]] = 0 PROVE Steady
  <2> DEFINE u == Owner[d]
  <2>1. u \in User /\ <<>> \in Lists /\ Rebind(u, <<>>) /\ Listed(u) = <<>>
    BY <1>2, PushAssumption DEF Subscribe, Lists, Listed
  <2>2. /\ Len(heap) \in Nat /\ table \in [User -> 0 .. Len(heap)]
        /\ DOMAIN heap' = 1 .. Len(heap) + 1 /\ DOMAIN heap = 1 .. Len(heap)
        /\ \A k \in DOMAIN heap : heap'[k] = heap[k]
        /\ Listed(u)' = <<>> /\ table'[u] = Len(heap) + 1
        /\ \A v \in User \ {u} : Listed(v)' = Listed(v) /\ table'[v] = table[v]
    BY <2>1, RebindFacts DEF PushTypeOK
  <2>3. \A k \in DOMAIN heap : k \in DOMAIN heap' /\ heap'[k] = heap[k]
    BY <2>2
  <2>4. \A v \in User : table'[v] # 0 /\ table'[v] \in DOMAIN heap => table'[v] = table[v]
    BY <2>2
  <2>5. \A v, w \in User : table'[v] # 0 /\ table'[v] = table'[w] => v = w
    BY <2>2 DEF Objects, WorksFor
  <2>6. \A v \in User : Listed(v)' = Listed(v)
    BY <2>1, <2>2
  <2> QED BY <2>3, <2>4, <2>5, <2>6 DEF Steady
<1> QED
  BY <1>1, <1>2 DEF PushInput, Subscribe, Gone, SetPreferences, MaybePush, SubscriberStep, DumpSubscribed,
                    WriteSubscribed, pushVars

(* What it adds, and what stays where it was.                              *)
LEMMA AppendLists ==
    ASSUME PushTypeOK, Objects, AppendDevice, NEW d \in Device, NEW u \in User,
           d = subscriber.device, u = Owner[d], table[u] # 0
    PROVE  /\ table' = table /\ DOMAIN heap' = DOMAIN heap
           /\ \A k \in DOMAIN heap : k # table[u] => heap'[k] = heap[k]
           /\ table[u] \in DOMAIN heap
           /\ Listed(u) = heap[table[u]] /\ Listed(u)' = heap'[table[u]]
           /\ \A x : Has(Listed(u)', x) <=> Has(Listed(u), x) \/ x = d
           /\ ListOf(Listed(u)', u)
           /\ Len(Listed(u)') >= Len(Listed(u))
           /\ \A i \in DOMAIN Listed(u) : i \in DOMAIN Listed(u)' /\ Listed(u)'[i] = Listed(u)[i]
           /\ \A v \in User \ {u} : Listed(v)' = Listed(v)
<1> DEFINE k == table[u]
           l == heap[k]
           m == IF Contains(l, d) THEN l ELSE Append(l, d)
<1>2. /\ k \in 1 .. Len(heap) /\ heap \in Seq(Lists) /\ DOMAIN heap = 1 .. Len(heap)
      /\ l \in Lists /\ l = Listed(u) /\ k # 0
  BY DEF PushTypeOK, Listed
<1>3. heap' = [heap EXCEPT ![k] = m] /\ table' = table
  BY DEF AppendDevice
<1>4. ListOf(l, u)
  BY <1>2 DEF Objects, WorksFor
<1>5. Contains(l, d) <=> Has(l, d)
  BY <1>2 DEF Contains, Has, Lists
<1>6. /\ m \in Lists /\ \A x : Has(m, x) <=> Has(l, x) \/ x = d
      /\ Once(m) /\ Len(m) >= Len(l)
      /\ \A i \in DOMAIN l : i \in DOMAIN m /\ m[i] = l[i]
  <2>1. CASE Has(l, d)
    BY <1>2, <1>4, <1>5, <2>1 DEF Lists, ListOf
  <2>2. CASE ~Has(l, d)
    <3>1. /\ Append(l, d) \in Lists /\ Len(Append(l, d)) >= Len(l)
          /\ \A i \in DOMAIN l : i \in DOMAIN Append(l, d) /\ Append(l, d)[i] = l[i]
      BY <1>2 DEF Lists
    <3>2. (\A x : Has(Append(l, d), x) <=> Has(l, x) \/ x = d) /\ Once(Append(l, d))
      BY <1>2, <1>4, <2>2, AppendHas DEF Lists, ListOf
    <3> QED BY <1>5, <2>2, <3>1, <3>2
  <2> QED BY <2>1, <2>2
<1>7. ListOf(m, u)
  <2> SUFFICES ASSUME NEW i \in DOMAIN m PROVE Owner[m[i]] = u
    BY <1>6 DEF ListOf
  <2>1. Has(l, m[i]) \/ m[i] = d
    BY <1>6 DEF Has
  <2> HIDE DEF m, l
  <2> QED BY <1>4, <2>1 DEF Has, ListOf
<1> HIDE DEF m
<1>8. /\ DOMAIN heap' = DOMAIN heap /\ heap'[k] = m /\ \A j \in DOMAIN heap : j # k => heap'[j] = heap[j]
  BY <1>2, <1>3
<1>9. Listed(u)' = m
  BY <1>2, <1>3, <1>8 DEF Listed
<1>10. \A v \in User \ {u} : Listed(v)' = Listed(v)
  <2> SUFFICES ASSUME NEW v \in User, v # u PROVE Listed(v)' = Listed(v)
    OBVIOUS
  <2>1. table[v] \in 0 .. Len(heap) /\ (table[v] # 0 => table[v] # k)
    BY <1>2 DEF Objects, WorksFor, PushTypeOK
  <2> QED BY <1>2, <1>3, <1>8, <2>1 DEF Listed
<1> QED BY <1>2, <1>3, <1>6, <1>7, <1>8, <1>9, <1>10

-----------------------------------------------------------------------------
(* Lists and users                                                         *)

(* Filtering leaves a list its user's.                                     *)
LEMMA WithoutOf ==
    ASSUME NEW l \in Lists, NEW u, ListOf(l, u), NEW d
    PROVE  Without(l, d) \in Lists /\ ListOf(Without(l, d), u)
<1>1. /\ Without(l, d) \in Lists /\ Once(Without(l, d))
      /\ \A x : Has(Without(l, d), x) => Has(l, x)
  BY WithoutFacts DEF Lists, ListOf
<1>2. \A i \in DOMAIN Without(l, d) : Has(l, Without(l, d)[i])
  BY <1>1 DEF Has
<1>3. \A x : Has(l, x) => Owner[x] = u
  BY DEF Has, ListOf
<1> QED BY <1>1, <1>2, <1>3 DEF ListOf

(* An empty list is anybody's.                                             *)
LEMMA EmptyListOf == ASSUME NEW u PROVE ListOf(<<>>, u) /\ \A x : ~Has(<<>>, x)
BY DEF ListOf, Once, Has

(* The delivery that takes a step still works for its user.                *)
LEMMA DeliverWorksFor ==
    ASSUME PushTypeOK, Objects, NEW p \in Delivery, Deliver(p)
    PROVE  WorksFor(p)'
<1> DEFINE s == delivery[p]
<1>0. /\ s \in State /\ WorksFor(p) /\ delivery \in [Delivery -> State]
  BY StateTypes DEF Objects, PushTypeOK
<1>1. CASE Begin(p) \/ DeliveryEnds(p)
  <2>1. delivery'[p].at \in {"users", "ended"}
    BY <1>0, <1>1 DEF Begin, DeliveryEnds, State, Idle
  <2> QED BY <2>1 DEF WorksFor
<1>2. ASSUME NEW u \in User, NextUser(p, u) PROVE WorksFor(p)'
  <2>1. UNCHANGED <<heap, table>>
    BY <1>2 DEF NextUser
  <2>2. /\ delivery'[p].at = IF s.category \in muted[u] \/ Listed(u) = <<>> THEN "users" ELSE "send"
        /\ delivery'[p].user = u /\ delivery'[p].list = table[u] /\ delivery'[p].i = 1
    BY <1>0, <1>2 DEF NextUser, State
  <2>3. CASE delivery'[p].at = "users"
    BY <2>3 DEF WorksFor
  <2>4. CASE delivery'[p].at # "users"
    <3>1. delivery'[p].at = "send" /\ Listed(u) # <<>>
      BY <2>2, <2>4
    <3>2. table[u] # 0 /\ table[u] \in DOMAIN heap /\ Listed(u) = heap[table[u]] /\ heap[table[u]] \in Lists
      BY <3>1 DEF Listed, PushTypeOK
    <3>3. 1 \in 1 .. Len(heap[table[u]]) + 1
      BY <3>2 DEF Lists
    <3>4. ListOf(heap[table[u]], u) /\ \A v \in User : table[v] = table[u] => v = u
      BY <3>2 DEF Objects
    <3> QED BY <2>1, <2>2, <3>1, <3>2, <3>3, <3>4 DEF WorksFor
  <2> QED BY <2>3, <2>4
<1>3. CASE Send(p) \/ SendFails(p)
  <2>1. UNCHANGED <<heap, table>>
    BY <1>3 DEF Send, SendFails
  <2>2. /\ s.at = "send" /\ s.i <= Len(heap[s.list]) /\ delivery'[p].at = "send" /\ delivery'[p].i = s.i + 1
        /\ delivery'[p].user = s.user /\ delivery'[p].list = s.list
    BY <1>0, <1>3 DEF Send, SendFails, State
  <2>3. s.i + 1 \in 1 .. Len(heap[s.list]) + 1
    BY <1>0, <2>2 DEF WorksFor, PushTypeOK, Lists
  <2> QED BY <1>0, <2>1, <2>2, <2>3 DEF WorksFor
<1>4. CASE NextStale(p)
  <2>1. s.user \in User
    BY <1>0, <1>4 DEF NextStale, WorksFor
  <2>2. /\ delivery'[p].user = s.user
        /\ \/ delivery'[p].at \in {"users", "stale"}
           \/ delivery'[p].at = "assign" /\ delivery'[p].new = Without(Listed(s.user), Head(s.stale))
    BY <1>0, <1>4 DEF NextStale, State
  <2>3. Without(Listed(s.user), Head(s.stale)) \in Lists /\ ListOf(Without(Listed(s.user), Head(s.stale)), s.user)
    BY <2>1, WithoutOf, ListTypes DEF Objects
  <2> QED BY <2>1, <2>2, <2>3 DEF WorksFor
<1>5. CASE Assign(p) \/ CheckEmpty(p) \/ Del(p)
  <2>1. s.user \in User
    BY <1>0, <1>5 DEF Assign, CheckEmpty, Del, WorksFor
  <2>2. delivery'[p].user = s.user /\ delivery'[p].at \in {"check", "raised", "del", "dump"}
    BY <1>0, <1>5 DEF Assign, CheckEmpty, Del, State
  <2> QED BY <2>1, <2>2 DEF WorksFor
<1>6. CASE Dump(p) \/ Write(p)
  <2>1. s.user \in User /\ Contents \in Saves
    BY <1>0, <1>6, ListTypes DEF Dump, Write, WorksFor
  <2>2. /\ delivery'[p].user = s.user
        /\ delivery'[p].at = "stale" \/ (delivery'[p].at = "write" /\ delivery'[p].new = Contents)
    BY <1>0, <1>6 DEF Dump, Write, State
  <2> QED BY <2>1, <2>2 DEF WorksFor
<1> QED BY <1>1, <1>2, <1>3, <1>4, <1>5, <1>6 DEF Deliver

(* No list becomes that of two users, by a delivery or otherwise.          *)
LEMMA DeliverObjects ==
    ASSUME PushTypeOK, Objects, NEW p \in Delivery, Deliver(p)
    PROVE  Objects'
<1>1. \A u, v \in User : table'[u] # 0 /\ table'[u] = table'[v] => u = v
  BY DeliverLists
<1>2. ASSUME NEW u \in User PROVE ListOf(Listed(u)', u)
  BY DeliverLists, EmptyListOf DEF Objects, WorksFor
<1>3. ASSUME NEW q \in Delivery, q # p PROVE WorksFor(q)'
  <2>1. delivery'[q] = delivery[q] /\ WorksFor(q)
    BY <1>3, DeliverLists DEF Objects
  <2> DEFINE s == delivery[q]
  <2>2. CASE s.at = "send"
    <3>1. s.list \in DOMAIN heap /\ s.list # 0 /\ \A u \in User : table[u] = s.list => u = s.user
      BY <2>1, <2>2 DEF WorksFor, PushTypeOK
    <3>2. s.list \in DOMAIN heap' /\ heap'[s.list] = heap[s.list]
      BY <3>1, DeliverLists
    <3>3. \A u \in User : table'[u] = s.list => table[u] = s.list
      BY <3>1, DeliverLists
    <3> QED BY <2>1, <2>2, <3>1, <3>2, <3>3 DEF WorksFor
  <2>3. CASE s.at # "send"
    BY <2>1, <2>3 DEF WorksFor
  <2> QED BY <2>2, <2>3
<1> QED BY <1>1, <1>2, <1>3, DeliverWorksFor DEF Objects

(* The delivery of an event is scheduled; nothing else changes.            *)
Scheduled(p, c) ==
    /\ delivery[p] = Idle
    /\ delivery'[p] = [Idle EXCEPT !.at = "begin", !.category = c]
    /\ due'[p] = {d \in kept \ gone : c \notin muted[Owner[d]]}
    /\ \A q \in Delivery \ {p} : delivery'[q] = delivery[q] /\ due'[q] = due[q]
    /\ UNCHANGED <<heap, table, file, muted, gone, subscriber, got, kept, overlapped>>

(* That, or nothing, is what _maybe_push does.                             *)
LEMMA MaybePushFacts ==
    ASSUME PushTypeOK, NEW e, MaybePush(e)
    PROVE  UNCHANGED pushVars \/ \E p \in Delivery : Scheduled(p, Category(e))
<1>1. CASE UNCHANGED pushVars
  BY <1>1
<1>2. CASE ~UNCHANGED pushVars
  <2>1. PICK p \in Delivery :
          /\ delivery[p] = Idle
          /\ delivery' = [delivery EXCEPT ![p].at = "begin", ![p].category = Category(e)]
          /\ due' = [due EXCEPT ![p] = {d \in kept \ gone : Category(e) \notin muted[Owner[d]]}]
          /\ UNCHANGED <<heap, table, file, muted, gone, subscriber, got, kept, overlapped>>
    BY <1>2 DEF MaybePush
  <2>2. delivery \in [Delivery -> State] /\ due \in [Delivery -> SUBSET Device]
    BY DEF PushTypeOK
  <2>3. delivery'[p] = [delivery[p] EXCEPT !.at = "begin", !.category = Category(e)]
    BY <2>1, <2>2
  <2> QED BY <2>1, <2>2, <2>3 DEF Scheduled
<1> QED BY <1>1, <1>2

(* The same of the other steps.                                            *)
LEMMA InputObjects ==
    ASSUME PushTypeOK, Objects, PushInput
    PROVE  Objects'
<1>1. ASSUME Steady, NEW q \in Delivery, delivery'[q] = delivery[q] PROVE WorksFor(q)'
  <2> DEFINE s == delivery[q]
  <2>1. WorksFor(q)
    BY DEF Objects
  <2>2. CASE s.at = "send"
    <3>1. s.list \in DOMAIN heap /\ s.list # 0 /\ \A u \in User : table[u] = s.list => u = s.user
      BY <2>1, <2>2 DEF WorksFor, PushTypeOK
    <3>2. s.list \in DOMAIN heap' /\ heap'[s.list] = heap[s.list]
      BY <1>1, <3>1 DEF Steady
    <3>3. \A u \in User : table'[u] = s.list => table[u] = s.list
      BY <1>1, <3>1 DEF Steady
    <3> QED BY <1>1, <2>1, <2>2, <3>1, <3>2, <3>3 DEF WorksFor
  <2>3. CASE s.at # "send"
    BY <1>1, <2>1, <2>3 DEF WorksFor
  <2> QED BY <2>2, <2>3
<1>2. CASE Steady /\ ~AppendDevice
  <2>1. ASSUME NEW q \in Delivery PROVE delivery'[q] = delivery[q] \/ delivery'[q].at = "begin"
    <3>1. CASE delivery' = delivery
      BY <3>1
    <3>2. ASSUME NEW e, MaybePush(e) PROVE delivery'[q] = delivery[q] \/ delivery'[q].at = "begin"
      <4>1. CASE UNCHANGED pushVars
        BY <4>1 DEF pushVars
      <4>2. ASSUME NEW p \in Delivery, Scheduled(p, Category(e)) PROVE delivery'[q] = delivery[q] \/ delivery'[q].at = "begin"
        <5>1. delivery'[p].at = "begin"
          BY <4>2 DEF Scheduled, Idle
        <5> QED BY <4>2, <5>1 DEF Scheduled
      <4> QED BY <3>2, <4>1, <4>2, MaybePushFacts
    <3> QED
      BY <1>2, <3>1, <3>2 DEF PushInput, Subscribe, Gone, SetPreferences, SubscriberStep, DumpSubscribed,
                              WriteSubscribed
  <2>2. \A q \in Delivery : WorksFor(q)'
    <3>1. \A q \in Delivery : delivery'[q].at = "begin" => WorksFor(q)'
      BY DEF WorksFor
    <3> QED BY <1>1, <1>2, <2>1, <3>1
  <2> QED BY <1>2, <2>2 DEF Objects, Steady
<1>3. CASE AppendDevice
  <2>0. PICK d \in Device, u \in User : d = subscriber.device /\ u = Owner[d]
    BY <1>3, PushAssumption DEF AppendDevice, PushTypeOK, NoCall
  <2>1. CASE table[u] = 0
    <3>1. UNCHANGED <<heap, table, delivery>>
      BY <1>3, <2>0, <2>1 DEF AppendDevice
    <3>2. Steady
      BY <3>1 DEF Steady, Objects, Listed
    <3>3. \A q \in Delivery : WorksFor(q)'
      BY <1>1, <3>1, <3>2
    <3> QED BY <3>2, <3>3 DEF Objects, Steady
  <2>2. CASE table[u] # 0
    <3>1. /\ table' = table /\ DOMAIN heap' = DOMAIN heap
          /\ \A k \in DOMAIN heap : k # table[u] => heap'[k] = heap[k]
          /\ Listed(u) = heap[table[u]] /\ Listed(u)' = heap'[table[u]]
          /\ ListOf(Listed(u)', u) /\ Len(Listed(u)') >= Len(Listed(u))
          /\ \A v \in User \ {u} : Listed(v)' = Listed(v)
      BY <1>3, <2>0, <2>2, AppendLists
    <3>2. ASSUME NEW q \in Delivery PROVE WorksFor(q)'
      <4> DEFINE s == delivery[q]
      <4>1. WorksFor(q) /\ delivery' = delivery
        BY <1>3 DEF Objects, AppendDevice
      <4>2. CASE s.at = "send" /\ s.list = table[u]
        <5>1. u = s.user
          BY <4>1, <4>2 DEF WorksFor
        <5>2. Len(heap[s.list]) \in Nat /\ Len(heap'[s.list]) \in Nat
          BY <1>3, <4>1, <4>2, <3>1, InputTypes DEF WorksFor, PushTypeOK, Lists, PushInput, SubscriberStep
        <5>3. s.i \in 1 .. Len(heap'[s.list]) + 1
          BY <3>1, <4>1, <4>2, <5>2 DEF WorksFor
        <5> QED BY <3>1, <4>1, <4>2, <5>1, <5>3 DEF WorksFor
      <4>3. CASE s.at = "send" /\ s.list # table[u]
        BY <3>1, <4>1, <4>3 DEF WorksFor
      <4>4. CASE s.at # "send"
        BY <4>1, <4>4 DEF WorksFor
      <4> QED BY <4>2, <4>3, <4>4
    <3>3. \A v \in User : ListOf(Listed(v)', v)
      BY <3>1 DEF Objects
    <3> QED BY <3>1, <3>2, <3>3 DEF Objects
  <2> QED BY <2>1, <2>2
<1> QED BY <1>2, <1>3, InputLists

-----------------------------------------------------------------------------
(* What is kept is listed                                                  *)

(* A delivery takes out only what is gone, so nothing that is kept.        *)
LEMMA DeliverKept ==
    ASSUME PushTypeOK, Objects, KeptListed, NEW p \in Delivery, Deliver(p)
    PROVE  KeptListed'
<1> DEFINE s == delivery[p]
<1>0. /\ s \in State /\ Spares(p) /\ WorksFor(p) /\ delivery \in [Delivery -> State]
      /\ \A d \in kept : Owner[d] \in User
  BY StateTypes, PushAssumption DEF Objects, KeptListed, PushTypeOK
<1>1. UNCHANGED <<kept, gone>>
  BY DEF Deliver, Begin, NextUser, DeliveryEnds, Send, SendFails, NextStale, Assign, CheckEmpty, Del, Dump, Write,
         Quiet
<1>2. ASSUME NEW d \in kept PROVE Has(Listed(Owner[d])', d)
  BY <1>0, DeliverLists DEF KeptListed, Spares
<1>3. ASSUME NEW q \in Delivery, q # p PROVE Spares(q)'
  BY <1>1, <1>3, DeliverLists DEF KeptListed, Spares
<1>4. Spares(p)'
  <2>1. CASE Begin(p) \/ DeliveryEnds(p) \/ SendFails(p) \/ Assign(p) \/ Dump(p) \/ Write(p) \/ Del(p)
    <3>1. delivery'[p].at \notin {"assign", "del"} /\ (delivery'[p].stale = <<>> \/ delivery'[p].stale = s.stale)
      <4>1. CASE DeliveryEnds(p)
        BY <1>0, <4>1 DEF DeliveryEnds, Idle
      <4>2. CASE Begin(p)
        BY <1>0, <4>2 DEF Begin, State
      <4>3. CASE Assign(p) \/ Dump(p) \/ Write(p)
        BY <1>0, <4>3 DEF Assign, Dump, Write, State
      <4>4. CASE Del(p)
        BY <1>0, <4>4 DEF Del, State
      <4>5. CASE SendFails(p)
        BY <1>0, <4>5 DEF SendFails, State
      <4> QED BY <2>1, <4>1, <4>2, <4>3, <4>4, <4>5
    <3> QED BY <1>0, <1>1, <3>1 DEF Spares
  <2>2. ASSUME NEW u \in User, NextUser(p, u) PROVE Spares(p)'
    <3>1. delivery'[p].at \in {"users", "send"} /\ delivery'[p].stale = <<>>
      BY <1>0, <2>2 DEF NextUser, State
    <3> QED BY <3>1 DEF Spares
  <2>3. CASE Send(p)
    <3> DEFINE d == heap[s.list][s.i]
    <3>1. delivery'[p].at = "send"
      BY <1>0, <2>3 DEF Send, State
    <3>2. delivery'[p].stale = s.stale \/ (d \in gone /\ delivery'[p].stale = Append(s.stale, d))
      BY <1>0, <2>3 DEF Send, State
    <3>3. \A i \in DOMAIN delivery'[p].stale : delivery'[p].stale[i] \in gone
      <4>1. s.stale \in Lists
        BY StateTypes
      <4>2. CASE delivery'[p].stale = s.stale
        BY <1>0, <4>2 DEF Spares
      <4>3. CASE d \in gone /\ delivery'[p].stale = Append(s.stale, d)
        <5>1. d \in Device
          BY <4>3 DEF PushTypeOK
        <5>2. \A x : Has(Append(s.stale, d), x) => Has(s.stale, x) \/ x = d
          BY <4>1, <5>1, AppendHas DEF Lists
        <5> QED BY <1>0, <4>3, <5>2 DEF Has, Spares
      <4> QED BY <3>2, <4>2, <4>3
    <3> QED BY <1>1, <3>1, <3>3 DEF Spares
  <2>4. CASE NextStale(p)
    <3>1. s.user \in User /\ s.stale \in Lists
      BY <1>0, <2>4, StateTypes DEF NextStale, WorksFor
    <3>2. CASE s.stale = <<>>
      <4>1. delivery'[p].at = "users" /\ delivery'[p].stale = s.stale
        BY <1>0, <2>4, <3>2 DEF NextStale, State
      <4> QED BY <1>0, <1>1, <4>1 DEF Spares
    <3>3. CASE s.stale # <<>>
      <4>1. /\ delivery'[p].user = s.user /\ delivery'[p].stale = Tail(s.stale)
            /\ \/ delivery'[p].at = "stale"
               \/ delivery'[p].at = "assign" /\ delivery'[p].new = Without(Listed(s.user), Head(s.stale))
        BY <1>0, <2>4, <3>3 DEF NextStale, State
      <4>2. Head(s.stale) \in gone
        BY <1>0, <3>1, <3>3 DEF Lists, Spares
      <4>3. \A i \in DOMAIN Tail(s.stale) : Tail(s.stale)[i] \in gone
        BY <1>0, <3>1, <3>3 DEF Lists, Spares
      <4>4. \A d \in kept : Owner[d] = s.user => Has(Without(Listed(s.user), Head(s.stale)), d)
        <5>1. \A x : Has(Without(Listed(s.user), Head(s.stale)), x) <=> Has(Listed(s.user), x) /\ x # Head(s.stale)
          BY <3>1, ListTypes, WithoutFacts DEF Lists
        <5> QED BY <4>2, <5>1 DEF KeptListed
      <4> QED BY <1>1, <4>1, <4>3, <4>4 DEF Spares
    <3> QED BY <3>2, <3>3
  <2>5. CASE CheckEmpty(p)
    <3>1. /\ delivery'[p].user = s.user /\ delivery'[p].stale = s.stale
          /\ delivery'[p].at \in {"raised", "dump"} \/ (delivery'[p].at = "del" /\ Listed(s.user) = <<>>)
      BY <1>0, <2>5 DEF CheckEmpty, State, Emptied
    <3>2. Listed(s.user) = <<>> => \A d \in kept : Owner[d] # s.user
      BY EmptyListOf DEF KeptListed
    <3> QED BY <1>0, <1>1, <3>1, <3>2 DEF Spares
  <2> QED BY <2>1, <2>2, <2>3, <2>4, <2>5 DEF Deliver
<1> QED BY <1>1, <1>2, <1>3, <1>4 DEF KeptListed

(* What is subscribed is in no list that a clean-up is about to put back.  *)
LEMMA InputKept ==
    ASSUME PushTypeOK, Objects, KeptListed, PushInput
    PROVE  KeptListed'
<1>0. \A d \in Device : Owner[d] \in User
  BY PushAssumption
<1>1. ASSUME Steady, kept' \subseteq kept, UNCHANGED <<delivery, gone>> PROVE KeptListed'
  <2>1. \A d \in kept : Has(Listed(Owner[d])', d)
    BY <1>0, <1>1 DEF KeptListed, Steady, PushTypeOK
  <2>2. \A p \in Delivery : Spares(p)'
    BY <1>1 DEF KeptListed, Spares
  <2> QED BY <1>1, <2>1, <2>2 DEF KeptListed
<1>2. ASSUME NEW e, MaybePush(e), Steady PROVE KeptListed'
  <2>1. CASE UNCHANGED pushVars
    BY <1>1, <1>2, <2>1 DEF pushVars
  <2>2. ASSUME NEW p \in Delivery, Scheduled(p, Category(e)) PROVE KeptListed'
    <3>1. delivery'[p].at = "begin" /\ delivery'[p].stale = <<>> /\ \A q \in Delivery \ {p} : delivery'[q] = delivery[q]
      BY <2>2 DEF Scheduled, Idle
    <3>2. \A q \in Delivery : Spares(q)'
      <4>1. Spares(p)'
        BY <3>1 DEF Spares
      <4>2. ASSUME NEW q \in Delivery \ {p} PROVE Spares(q)'
        BY <2>2, <3>1 DEF Scheduled, KeptListed, Spares
      <4> QED BY <4>1, <4>2
    <3>3. \A d \in kept : Has(Listed(Owner[d])', d)
      BY <1>0, <1>2 DEF KeptListed, Steady, PushTypeOK
    <3> QED BY <2>2, <3>2, <3>3 DEF KeptListed, Scheduled
  <2> QED BY <1>2, <2>1, <2>2, MaybePushFacts
<1>3. ASSUME NEW d \in Device, Gone(d), Steady PROVE KeptListed'
  <2>1. kept' = kept \ {d} /\ gone' = gone \cup {d} /\ delivery' = delivery
    BY <1>3 DEF Gone
  <2>2. \A c \in kept' : Has(Listed(Owner[c])', c)
    BY <1>0, <1>3, <2>1 DEF KeptListed, Steady, PushTypeOK
  <2>3. \A p \in Delivery : Spares(p)'
    BY <2>1 DEF KeptListed, Spares
  <2> QED BY <2>1, <2>2, <2>3 DEF KeptListed
<1>4. CASE AppendDevice
  <2>0. PICK d \in Device, u \in User : d = subscriber.device /\ u = Owner[d]
    BY <1>4, PushAssumption DEF AppendDevice, PushTypeOK, NoCall
  <2>1. CASE table[u] = 0
    <3>1. UNCHANGED <<heap, table, delivery, kept, gone>>
      BY <1>4, <2>0, <2>1 DEF AppendDevice
    <3> QED BY <1>1, <3>1 DEF Steady, Objects, Listed
  <2>2. CASE table[u] # 0
    <3>1. UNCHANGED <<delivery, gone>> /\ kept' = IF Cleaning(u) \/ d \in gone THEN kept ELSE kept \cup {d}
      BY <1>4, <2>0, <2>2 DEF AppendDevice
    <3>2. /\ \A x : Has(Listed(u)', x) <=> Has(Listed(u), x) \/ x = d
          /\ \A v \in User \ {u} : Listed(v)' = Listed(v)
      BY <1>4, <2>0, <2>2, AppendLists
    <3>3. \A c \in kept' : Has(Listed(Owner[c])', c)
      <4> SUFFICES ASSUME NEW c \in kept' PROVE \A v \in User : v = Owner[c] => Has(Listed(v)', c)
        BY <1>0, <3>1 DEF PushTypeOK
      <4> QED BY <2>0, <3>1, <3>2 DEF KeptListed
    <3>4. ASSUME NEW p \in Delivery PROVE Spares(p)'
      <4>2. delivery[p].at \in {"assign", "del"} /\ delivery[p].user = u => Cleaning(u)
        BY DEF Cleaning
      <4>3. \A c \in kept' : c \in kept \/ (c = d /\ Owner[c] = u /\ ~Cleaning(u))
        BY <2>0, <3>1
      <4>4. Spares(p)
        BY DEF KeptListed
      <4> QED BY <3>1, <4>2, <4>3, <4>4 DEF Spares
    <3>5. kept' \cap gone' = {}
      BY <3>1 DEF KeptListed
    <3> QED BY <3>3, <3>4, <3>5 DEF KeptListed
  <2> QED BY <2>1, <2>2
<1> QED
  BY <1>1, <1>2, <1>3, <1>4, InputLists DEF PushInput, Subscribe, SetPreferences, SubscriberStep, DumpSubscribed,
                                          WriteSubscribed

-----------------------------------------------------------------------------
(* What the file has                                                       *)

(* A list that changes is dirty, and stays so until it is dumped.          *)
Neat == \A u \in User : \A d \in Device : Has(Listed(u)', d) => Dirty(u)' \/ (Has(Listed(u), d) /\ ~Dirty(u))

(* A step that dumps and writes nothing.                                   *)
LEMMA NeatStep ==
    ASSUME FileCovers, Neat, UNCHANGED <<file, overlapped>>, Saving' = Saving,
           \A p \in Saving : delivery'[p].new = delivery[p].new,
           subscriber.at = "write" \/ subscriber'.at = "write" => subscriber' = subscriber
    PROVE  FileCovers'
<1>1. ASSUME NEW f, Covers(f) PROVE Covers(f)'
  BY <1>1 DEF Neat, Covers
<1> SUFFICES ASSUME ~overlapped PROVE FileCovers'
  BY DEF FileCovers
<1>2. \A p, q \in Saving' : p = q
  BY DEF FileCovers
<1>3. subscriber'.at = "write" => Saving' = {} /\ Covers(subscriber.new)' /\ subscriber' = subscriber
  <2> SUFFICES ASSUME subscriber'.at = "write" PROVE Saving' = {} /\ Covers(subscriber.new)'
    OBVIOUS
  <2>1. subscriber' = subscriber /\ Saving = {} /\ Covers(subscriber.new)
    BY DEF FileCovers
  <2> QED BY <2>1 DEF Covers, Neat
<1>4. \A p \in Saving' : Covers(delivery[p].new)'
  <2> SUFFICES ASSUME NEW p \in Saving PROVE Covers(delivery[p].new)'
    OBVIOUS
  <2>1. Covers(delivery[p].new) /\ delivery'[p].new = delivery[p].new
    BY DEF FileCovers
  <2> QED BY <2>1 DEF Covers, Neat
<1>5. Saving' = {} /\ subscriber'.at # "write" => Covers(file)'
  BY DEF FileCovers, Covers, Neat
<1> QED BY <1>2, <1>3, <1>4, <1>5 DEF FileCovers

(* A dump has everything.                                                  *)
LEMMA ContentsCover ==
    ASSUME PushTypeOK, UNCHANGED <<heap, table>>, NEW f, f = Contents
    PROVE  Covers(f)'
<1>1. \A u \in User : f[u] = Listed(u) /\ Listed(u)' = Listed(u)
  BY ListTypes DEF Listed
<1> QED BY <1>1 DEF Covers

(* The file after a step of a delivery.                                    *)
LEMMA DeliverCovers ==
    ASSUME PushTypeOK, Objects, FileCovers, NEW p \in Delivery, Deliver(p)
    PROVE  FileCovers'
<1> DEFINE s == delivery[p]
<1>0. /\ s \in State /\ WorksFor(p) /\ delivery \in [Delivery -> State]
  BY StateTypes DEF Objects, PushTypeOK
<1>a. \A q \in Delivery \ {p} : delivery'[q] = delivery[q]
  BY DeliverLists
<1>1. CASE ~Dump(p) /\ ~Write(p)
  <2>1. UNCHANGED <<file, overlapped, subscriber>>
    BY <1>1 DEF Deliver, Begin, NextUser, DeliveryEnds, Send, SendFails, NextStale, Assign, CheckEmpty, Del, Quiet
  <2>2. s.at # "write" /\ s.at # "dump"
    BY <1>1 DEF Deliver, Begin, NextUser, DeliveryEnds, Send, SendFails, NextStale, Assign, CheckEmpty, Del
  <2>3. /\ delivery'[p].at # "write"
        /\ s.at = "assign" => delivery'[p].at = "check" /\ delivery'[p].user = s.user
        /\ s.at \in {"check", "del"} =>
             \/ delivery'[p].at \in {"del", "dump"} /\ delivery'[p].user = s.user
             \/ delivery'[p].at = "raised" /\ table[s.user] = 0 /\ UNCHANGED <<heap, table>>
    <3>1. CASE Begin(p) \/ DeliveryEnds(p) \/ Send(p) \/ SendFails(p) \/ NextStale(p)
      <4>1. CASE Begin(p)
        BY <1>0, <4>1 DEF Begin, State
      <4>2. CASE DeliveryEnds(p)
        BY <1>0, <4>2 DEF DeliveryEnds, State, Idle
      <4>3. CASE Send(p) \/ SendFails(p)
        BY <1>0, <4>3 DEF Send, SendFails, State
      <4>4. CASE NextStale(p)
        BY <1>0, <4>4 DEF NextStale, State
      <4> QED BY <3>1, <4>1, <4>2, <4>3, <4>4
    <3>2. CASE \E u \in User : NextUser(p, u)
      BY <1>0, <3>2 DEF NextUser, State
    <3>3. CASE Assign(p)
      BY <1>0, <3>3 DEF Assign, State
    <3>4. CASE CheckEmpty(p) \/ Del(p)
      BY <1>0, <3>4 DEF CheckEmpty, Del, State
    <3> QED BY <1>1, <3>1, <3>2, <3>3, <3>4 DEF Deliver
  <2>4. Neat
    <3> SUFFICES ASSUME NEW u \in User, NEW d \in Device, Has(Listed(u)', d), ~Dirty(u)'
                 PROVE  Has(Listed(u), d) /\ ~Dirty(u)
      BY DEF Neat
    <3>1. s.at = "assign" => s.user # u
      BY <2>3 DEF Dirty
    <3>2. Has(Listed(u), d)
      BY <3>1, DeliverLists, EmptyListOf
    <3>3. ~ (subscriber.at = "dump" /\ Owner[subscriber.device] = u)
      BY <2>1 DEF Dirty
    <3>4. ASSUME NEW q \in Delivery, delivery[q].at \in {"check", "del", "dump"}, delivery[q].user = u PROVE FALSE
      <4>1. CASE q = p
        <5>1. table[u] = 0
          BY <2>2, <2>3, <3>4, <4>1 DEF Dirty
        <5>2. Listed(u) = <<>>
          BY <5>1 DEF Listed
        <5> QED BY <3>2, <5>2, EmptyListOf
      <4>2. CASE q # p
        BY <1>a, <3>4, <4>2 DEF Dirty
      <4> QED BY <4>1, <4>2
    <3> QED BY <3>2, <3>3, <3>4 DEF Dirty
  <2>5. Saving' = Saving /\ \A q \in Saving : delivery'[q].new = delivery[q].new
    BY <1>a, <2>2, <2>3 DEF Saving
  <2> QED BY <2>1, <2>4, <2>5, NeatStep
<1>2. CASE Dump(p)
  <2>1. SUFFICES ASSUME ~overlapped' PROVE FileCovers'
    BY DEF FileCovers
  <2>2. s.at = "dump" /\ Saving = {} /\ subscriber.at # "write" /\ UNCHANGED <<heap, table, subscriber, file>>
    BY <1>2, <2>1 DEF Dump, Dumps
  <2>3. delivery'[p].at = "write" /\ delivery'[p].new = Contents
    BY <1>0, <1>2 DEF Dump, State
  <2>4. Saving' = {p}
    BY <1>a, <2>2, <2>3 DEF Saving
  <2>5. Covers(delivery[p].new)'
    <3>1. PICK f : f = Contents
      OBVIOUS
    <3>2. Covers(f)' /\ delivery'[p].new = f
      BY <2>2, <2>3, <3>1, ContentsCover
    <3> QED BY <3>2 DEF Covers
  <2> QED BY <2>2, <2>4, <2>5 DEF FileCovers
<1>3. CASE Write(p)
  <2>1. SUFFICES ASSUME ~overlapped' PROVE FileCovers'
    BY DEF FileCovers
  <2>2. s.at = "write" /\ file' = s.new /\ UNCHANGED <<heap, table, subscriber>> /\ ~overlapped
    BY <1>3, <2>1 DEF Write
  <2>3. delivery'[p].at = "stale"
    BY <1>0, <1>3 DEF Write, State
  <2>4. Saving = {p} /\ subscriber.at # "write" /\ Covers(s.new)
    BY <2>2 DEF FileCovers, Saving
  <2>5. Saving' = {}
    BY <1>a, <2>3, <2>4 DEF Saving
  <2>6. Covers(file)'
    <3>1. \A u \in User : Listed(u)' = Listed(u)
      BY <2>2 DEF Listed
    <3>2. \A u \in User : Dirty(u) => Dirty(u)'
      BY <1>a, <2>2 DEF Dirty
    <3> QED BY <2>2, <2>4, <3>1, <3>2 DEF Covers
  <2> QED BY <2>2, <2>4, <2>5, <2>6 DEF FileCovers
<1> QED BY <1>1, <1>2, <1>3

(* The file after the other steps.                                         *)
LEMMA InputCovers ==
    ASSUME PushTypeOK, Objects, FileCovers, PushInput
    PROVE  FileCovers'
<1>0. \A d \in Device : Owner[d] \in User
  BY PushAssumption
<1>1. ASSUME Steady, UNCHANGED <<file, overlapped, delivery>>,
             subscriber.at \notin {"dump", "write"}, subscriber'.at # "write" \/ subscriber' = subscriber
      PROVE  FileCovers'
  <2>1. Neat
    BY <1>1 DEF Steady, Neat, Dirty
  <2>2. Saving' = Saving
    BY <1>1 DEF Saving
  <2> QED BY <1>1, <2>1, <2>2, NeatStep
<1>2. ASSUME Steady, UNCHANGED <<file, overlapped, subscriber>>,
             \A q \in Delivery : delivery'[q] = delivery[q] \/ (delivery[q].at = "none" /\ delivery'[q].at = "begin")
      PROVE  FileCovers'
  <2>1. Neat
    BY <1>2 DEF Steady, Neat, Dirty
  <2>2. Saving' = Saving /\ \A q \in Saving : delivery'[q].new = delivery[q].new
    BY <1>2 DEF Saving
  <2> QED BY <1>2, <2>1, <2>2, NeatStep
<1>3. ASSUME NEW d \in Device, Subscribe(d), Steady PROVE FileCovers'
  BY <1>1, <1>3 DEF Subscribe, NoCall
<1>4. ASSUME Steady, \/ \E d \in Device : Gone(d)
                     \/ \E u \in User, c \in Preference, on \in BOOLEAN : SetPreferences(u, c, on)
      PROVE  FileCovers'
  BY <1>2, <1>4 DEF Gone, SetPreferences
<1>5. ASSUME NEW e, MaybePush(e), Steady PROVE FileCovers'
  <2>1. CASE UNCHANGED pushVars
    BY <1>2, <1>5, <2>1 DEF pushVars
  <2>2. ASSUME NEW p \in Delivery, Scheduled(p, Category(e)) PROVE FileCovers'
    <3>1. delivery[p].at = "none" /\ delivery'[p].at = "begin"
      BY <2>2 DEF Scheduled, Idle
    <3> QED BY <1>2, <1>5, <2>2, <3>1 DEF Scheduled
  <2> QED BY <1>5, <2>1, <2>2, MaybePushFacts
<1>6. CASE AppendDevice
  <2>0. PICK d \in Device, u \in User : d = subscriber.device /\ u = Owner[d]
    BY <1>6, PushAssumption DEF AppendDevice, PushTypeOK, NoCall
  <2>1. CASE table[u] = 0
    <3>1. UNCHANGED <<heap, table, delivery, file, overlapped>> /\ subscriber.at = "append" /\ subscriber' = NoCall
      BY <1>6, <2>0, <2>1 DEF AppendDevice
    <3>2. Steady
      BY <3>1 DEF Steady, Objects, Listed
    <3> QED BY <1>1, <3>1, <3>2 DEF NoCall
  <2>2. CASE table[u] # 0
    <3>1. /\ UNCHANGED <<delivery, file, overlapped>> /\ subscriber.at = "append"
          /\ subscriber' = [at |-> "dump", device |-> d]
      BY <1>6, <2>0, <2>2 DEF AppendDevice
    <3>2. /\ \A x : Has(Listed(u)', x) <=> Has(Listed(u), x) \/ x = d
          /\ \A v \in User \ {u} : Listed(v)' = Listed(v)
      BY <1>6, <2>0, <2>2, AppendLists
    <3>3. Neat
      <4> SUFFICES ASSUME NEW v \in User, NEW c \in Device, Has(Listed(v)', c), ~Dirty(v)'
                   PROVE  Has(Listed(v), c) /\ ~Dirty(v)
        BY DEF Neat
      <4>1. v # u
        BY <2>0, <3>1 DEF Dirty
      <4> QED BY <3>1, <3>2, <4>1 DEF Dirty
    <3>4. Saving' = Saving
      BY <3>1 DEF Saving
    <3> QED BY <3>1, <3>3, <3>4, NeatStep
  <2> QED BY <2>1, <2>2
<1>7. CASE DumpSubscribed
  <2>1. SUFFICES ASSUME ~overlapped' PROVE FileCovers'
    BY DEF FileCovers
  <2>2. /\ Saving = {} /\ UNCHANGED <<heap, table, delivery>>
        /\ subscriber'.at = "write" /\ subscriber'.new = Contents
    BY <1>7, <2>1 DEF DumpSubscribed, Dumps
  <2>3. Saving' = {}
    BY <2>2 DEF Saving
  <2>4. Covers(subscriber.new)'
    <3>1. PICK f : f = Contents
      OBVIOUS
    <3>2. Covers(f)' /\ subscriber'.new = f
      BY <2>2, <3>1, ContentsCover
    <3> QED BY <3>2 DEF Covers
  <2> QED BY <2>2, <2>3, <2>4 DEF FileCovers
<1>8. CASE WriteSubscribed
  <2>1. SUFFICES ASSUME ~overlapped' PROVE FileCovers'
    BY DEF FileCovers
  <2>2. /\ ~overlapped /\ subscriber.at = "write" /\ file' = subscriber.new /\ subscriber'.at = "none"
        /\ UNCHANGED <<heap, table, delivery>>
    BY <1>8, <2>1 DEF WriteSubscribed, NoCall
  <2>3. Saving = {} /\ Covers(subscriber.new)
    BY <2>2 DEF FileCovers
  <2>4. Saving' = {}
    BY <2>2, <2>3 DEF Saving
  <2>5. Covers(file)'
    BY <2>2, <2>3 DEF Covers, Dirty, Listed
  <2> QED BY <2>2, <2>4, <2>5 DEF FileCovers
<1> QED
  BY <1>3, <1>4, <1>5, <1>6, <1>7, <1>8, InputLists DEF PushInput, SubscriberStep, AppendDevice

-----------------------------------------------------------------------------
(* Who is reached                                                          *)

(* Who is due is no longer a question once a delivery has begun.           *)
LEMMA ToReachKept ==
    ASSUME NEW p \in Delivery, ToReach(p), muted' = muted, kept' = kept, due'[p] \subseteq due[p],
           delivery'[p].category = delivery[p].category,
           delivery'[p].at # "raised" => \A d \in due'[p] : Reaches(p, d)',
           delivery'[p].at = "ended" => delivery'[p].users = {}
    PROVE  ToReach(p)'
BY DEF ToReach

(* A delivery goes through a list once and skips nobody who is due.        *)
LEMMA DeliverReached ==
    ASSUME PushTypeOK, Objects, KeptListed, NEW p \in Delivery, Deliver(p),
           \A q \in Delivery : Reached(q) /\ ToReach(q)
    PROVE  \A q \in Delivery : Reached(q)' /\ ToReach(q)'
<1> DEFINE s == delivery[p]
<1>0. /\ s \in State /\ WorksFor(p) /\ delivery \in [Delivery -> State] /\ Reached(p) /\ ToReach(p)
      /\ got \in [Delivery -> [Device -> Nat]] /\ due \in [Delivery -> SUBSET Device]
      /\ \A d \in Device : Owner[d] \in User
  BY StateTypes, PushAssumption DEF Objects, PushTypeOK
<1>a. /\ \A q \in Delivery \ {p} : delivery'[q] = delivery[q]
      /\ \A k \in DOMAIN heap : heap'[k] = heap[k]
  BY DeliverLists
<1>b. muted' = muted /\ kept' = kept /\ (\A q \in Delivery : due'[q] \subseteq due[q])
  <2>1. CASE SendFails(p)
    BY <1>0, <2>1 DEF SendFails
  <2>2. CASE ~SendFails(p)
    BY <2>2 DEF Deliver, Begin, NextUser, DeliveryEnds, Send, NextStale, Assign, CheckEmpty, Del, Dump, Write, Quiet
  <2> QED BY <2>1, <2>2
<1>c. ~Send(p) /\ ~SendFails(p) => got' = got
  BY DEF Deliver, Begin, NextUser, DeliveryEnds, NextStale, Assign, CheckEmpty, Del, Dump, Write
<1>1. ASSUME NEW q \in Delivery, q # p PROVE Reached(q)' /\ ToReach(q)'
  <2>1. delivery'[q] = delivery[q] /\ got'[q] = got[q]
    <3>1. got' = got \/ \E d : got' = [got EXCEPT ![p][d] = @ + 1]
      BY <1>c DEF Send, SendFails
    <3> QED BY <1>0, <1>1, <1>a, <3>1
  <2>2. delivery[q].at = "send" => heap'[delivery[q].list] = heap[delivery[q].list]
    BY <1>a DEF Objects, WorksFor
  <2>3. Reached(q) /\ ToReach(q)
    OBVIOUS
  <2>4. Reached(q)'
    BY <2>1, <2>2, <2>3 DEF Reached
  <2>5. ToReach(q)'
    <3>1. \A d \in due[q] : Reaches(q, d) => Reaches(q, d)'
      BY <2>1, <2>2 DEF Reaches
    <3> QED BY <1>b, <2>1, <2>3, <3>1 DEF ToReach
  <2> QED BY <2>4, <2>5
<1>2. ASSUME Begin(p) PROVE Reached(p)' /\ ToReach(p)'
  <2>1. /\ s.at = "begin" /\ delivery'[p].at = "users" /\ delivery'[p].category = s.category
        /\ delivery'[p].users = {u \in User : table[u] # 0} /\ got' = got
    BY <1>0, <1>2 DEF Begin, State
  <2>2. Reached(p)'
    BY <1>0, <2>1 DEF Reached
  <2>3. \A d \in due[p] : Reaches(p, d)'
    <3> SUFFICES ASSUME NEW d \in due[p] PROVE table[Owner[d]] # 0
      BY <1>0, <2>1 DEF Reaches
    <3>1. Has(Listed(Owner[d]), d)
      BY <1>0 DEF ToReach, KeptListed
    <3> QED BY <3>1, EmptyListOf DEF Listed
  <2>4. ToReach(p)'
    BY <1>0, <1>b, <2>1, <2>3, ToReachKept
  <2> QED BY <2>2, <2>4
<1>3. ASSUME NEW u \in User, NextUser(p, u) PROVE Reached(p)' /\ ToReach(p)'
  <2>1. /\ s.at = "users" /\ u \in s.users /\ UNCHANGED <<heap, table, got>>
        /\ delivery'[p].at = IF s.category \in muted[u] \/ Listed(u) = <<>> THEN "users" ELSE "send"
        /\ delivery'[p].users = s.users \ {u} /\ delivery'[p].category = s.category
        /\ delivery'[p].user = u /\ delivery'[p].list = table[u] /\ delivery'[p].i = 1
    BY <1>0, <1>3 DEF NextUser, State
  <2>2. Reached(p)'
    <3>1. \A d \in Device : Owner[d] \in s.users => got[p][d] = 0
      BY <1>0, <2>1 DEF Reached
    <3>2. delivery'[p].at \in {"users", "send"}
      BY <2>1
    <3> QED BY <1>0, <2>1, <3>1, <3>2 DEF Reached
  <2>3. ASSUME NEW d \in due[p] PROVE Reaches(p, d)'
    <3>1. d \in kept /\ s.category \notin muted[Owner[d]] /\ (Owner[d] \in s.users \/ got[p][d] = 1)
      BY <1>0, <2>1 DEF ToReach, Reaches
    <3>2. CASE Owner[d] = u
      <4>1. Has(Listed(u), d)
        BY <3>1, <3>2 DEF KeptListed
      <4>2. delivery'[p].at = "send"
        BY <2>1, <3>1, <3>2, <4>1, EmptyListOf
      <4>3. table[u] # 0 /\ heap[table[u]] \in Lists /\ Listed(u) = heap[table[u]]
        <5>1. table[u] # 0
          BY <4>1, EmptyListOf DEF Listed
        <5> QED BY <5>1 DEF Listed, PushTypeOK
      <4>4. \E j \in 1 .. Len(heap[table[u]]) : heap[table[u]][j] = d
        BY <4>1, <4>3 DEF Has, Lists
      <4> QED BY <2>1, <3>2, <4>2, <4>4 DEF Reaches
    <3>3. CASE Owner[d] # u
      BY <1>0, <2>1, <3>1, <3>3 DEF Reaches
    <3> QED BY <3>2, <3>3
  <2>4. ToReach(p)'
    BY <1>0, <1>b, <2>1, <2>3, ToReachKept
  <2> QED BY <2>2, <2>4
<1>4. ASSUME DeliveryEnds(p) PROVE Reached(p)' /\ ToReach(p)'
  <2>1. /\ s.at = "users" /\ s.users = {} /\ got' = got
        /\ delivery'[p].at = "ended" /\ delivery'[p].users = {} /\ delivery'[p].category = s.category
    BY <1>0, <1>4 DEF DeliveryEnds, Idle
  <2>2. Reached(p)'
    BY <1>0, <2>1 DEF Reached
  <2>3. \A d \in due[p] : Reaches(p, d)'
    BY <1>0, <2>1 DEF ToReach, Reaches
  <2>4. ToReach(p)'
    BY <1>0, <1>b, <2>1, <2>3, ToReachKept
  <2> QED BY <2>2, <2>4
<1>5. ASSUME Send(p) \/ SendFails(p) PROVE Reached(p)' /\ ToReach(p)'
  <2> DEFINE d == heap[s.list][s.i]
  <2>1. /\ s.at = "send" /\ s.i <= Len(heap[s.list]) /\ UNCHANGED <<heap, table>>
        /\ delivery'[p].at = "send" /\ delivery'[p].i = s.i + 1 /\ delivery'[p].user = s.user
        /\ delivery'[p].list = s.list /\ delivery'[p].users = s.users /\ delivery'[p].category = s.category
        /\ \/ (d \in gone \/ d \notin due'[p]) /\ got' = got
           \/ got' = [got EXCEPT ![p][d] = @ + 1]
    <3>1. CASE Send(p)
      BY <1>0, <3>1 DEF Send, State
    <3>2. CASE SendFails(p)
      BY <1>0, <3>2 DEF SendFails, State
    <3> QED BY <1>5, <3>1, <3>2
  <2>2. /\ heap[s.list] \in Lists /\ ListOf(heap[s.list], s.user) /\ s.i \in 1 .. Len(heap[s.list])
        /\ DOMAIN heap[s.list] = 1 .. Len(heap[s.list]) /\ Len(heap[s.list]) \in Nat
    BY <1>0, <2>1 DEF WorksFor, PushTypeOK, Lists
  <2>3. d \in Device /\ Owner[d] = s.user
    BY <2>2 DEF ListOf, Lists
  <2>4. got[p][d] = 0
    <3>1. \A j \in 1 .. s.i - 1 : heap[s.list][j] # d
      BY <2>2 DEF ListOf, Once
    <3>2. got[p][d] <= 1 /\ got[p][d] \in Nat
      BY <1>0, <2>3 DEF Reached
    <3>3. got[p][d] = 1 => \E j \in 1 .. s.i - 1 : heap[s.list][j] = d
      <4> HIDE DEF d
      <4> QED BY <1>0, <2>1, <2>3 DEF Reached
    <3> HIDE DEF d
    <3> QED BY <3>1, <3>2, <3>3
  <2>5. /\ \A e \in Device : e # d => got'[p][e] = got[p][e]
        /\ (got'[p][d] = 0 /\ (d \in gone \/ d \notin due'[p])) \/ got'[p][d] = 1
    <3>1. CASE got' = got
      BY <2>1, <2>4, <3>1, <1>0, <2>3
    <3>2. CASE got' = [got EXCEPT ![p][d] = @ + 1]
      <4> HIDE DEF d
      <4> QED BY <1>0, <2>3, <2>4, <3>2
    <3> QED BY <2>1, <3>1, <3>2
  <2> HIDE DEF d
  <2>6. Reached(p)'
    <3>1. \A e \in Device : got'[p][e] <= 1
      BY <1>0, <2>5 DEF Reached
    <3>2. s.user \notin s.users /\ \A e \in Device : Owner[e] \in s.users => got'[p][e] = 0
      BY <1>0, <2>1, <2>3, <2>5 DEF Reached
    <3>3. ASSUME NEW e \in Device, Owner[e] = s.user, got'[p][e] = 1
          PROVE  \E j \in 1 .. (s.i + 1) - 1 : heap[s.list][j] = e
      <4>1. CASE e = d
        <5>1. s.i \in 1 .. (s.i + 1) - 1 /\ heap[s.list][s.i] = d
          BY <2>2 DEF d
        <5> QED BY <4>1, <5>1
      <4>2. CASE e # d
        <5>1. PICK j \in 1 .. s.i - 1 : heap[s.list][j] = e
          BY <1>0, <2>1, <2>5, <3>3, <4>2 DEF Reached
        <5>2. j \in 1 .. (s.i + 1) - 1
          BY <2>2
        <5> QED BY <5>1, <5>2
      <4> QED BY <4>1, <4>2
    <3> QED BY <2>1, <3>1, <3>2, <3>3 DEF Reached
  <2>7. ASSUME NEW e \in due'[p] PROVE Reaches(p, e)'
    <3>1. e \in due[p] /\ e \in kept /\ e \in Device /\ e \notin gone
      BY <1>0, <1>b DEF ToReach, KeptListed
    <3>2. CASE e = d
      BY <2>5, <3>1, <3>2 DEF Reaches
    <3>3. CASE e # d
      <4>1. \/ Owner[e] \in s.users \/ got[p][e] = 1
            \/ Owner[e] = s.user /\ \E j \in s.i .. Len(heap[s.list]) : heap[s.list][j] = e
        BY <1>0, <2>1, <3>1 DEF ToReach, Reaches
      <4>2. ASSUME NEW j \in s.i .. Len(heap[s.list]), heap[s.list][j] = e PROVE j \in s.i + 1 .. Len(heap[s.list])
        <5>1. j # s.i
          BY <3>3, <4>2 DEF d
        <5> QED BY <2>2, <5>1
      <4> QED BY <2>1, <2>5, <3>1, <3>3, <4>1, <4>2 DEF Reaches
    <3> QED BY <3>2, <3>3
  <2>8. ToReach(p)'
    BY <1>0, <1>b, <2>1, <2>7, ToReachKept
  <2> QED BY <2>6, <2>8
<1>6. ASSUME NextStale(p) PROVE Reached(p)' /\ ToReach(p)'
  <2>1. /\ s.at = "stale" \/ (s.at = "send" /\ s.i > Len(heap[s.list]))
        /\ delivery'[p].at \in {"users", "stale", "assign"} /\ got' = got
        /\ delivery'[p].users = s.users /\ delivery'[p].category = s.category
    BY <1>0, <1>6 DEF NextStale, State
  <2>2. Reached(p)'
    BY <1>0, <2>1 DEF Reached
  <2>3. s.at = "send" => ~ \E j \in s.i .. Len(heap[s.list]) : TRUE
    BY <1>0, <2>1 DEF WorksFor, PushTypeOK, Lists
  <2>4. \A d \in due[p] : Reaches(p, d)'
    BY <1>0, <2>1, <2>3 DEF ToReach, Reaches
  <2>5. ToReach(p)'
    BY <1>0, <1>b, <2>1, <2>4, ToReachKept
  <2> QED BY <2>2, <2>5
<1>7. ASSUME Assign(p) \/ CheckEmpty(p) \/ Del(p) \/ Dump(p) \/ Write(p) PROVE Reached(p)' /\ ToReach(p)'
  <2>1. /\ s.at \in {"assign", "check", "del", "dump", "write"}
        /\ delivery'[p].at \in {"check", "raised", "del", "dump", "write", "stale"} /\ got' = got
        /\ delivery'[p].users = s.users /\ delivery'[p].category = s.category
    <3>1. CASE Assign(p)
      BY <1>0, <3>1 DEF Assign, State
    <3>2. CASE CheckEmpty(p) \/ Del(p)
      BY <1>0, <3>2 DEF CheckEmpty, Del, State
    <3>3. CASE Dump(p) \/ Write(p)
      BY <1>0, <3>3 DEF Dump, Write, State
    <3> QED BY <1>7, <3>1, <3>2, <3>3
  <2>2. Reached(p)'
    BY <1>0, <2>1 DEF Reached
  <2>3. \A d \in due[p] : Reaches(p, d)'
    BY <1>0, <2>1 DEF ToReach, Reaches
  <2>4. ToReach(p)'
    BY <1>0, <1>b, <2>1, <2>3, ToReachKept
  <2> QED BY <2>2, <2>4
<1> QED BY <1>1, <1>2, <1>3, <1>4, <1>5, <1>6, <1>7 DEF Deliver

(* The other steps do not disturb it.                                      *)
LEMMA InputReached ==
    ASSUME PushTypeOK, Objects, PushInput, \A q \in Delivery : Reached(q) /\ ToReach(q)
    PROVE  \A q \in Delivery : Reached(q)' /\ ToReach(q)'
<1>0. /\ got \in [Delivery -> [Device -> Nat]] /\ due \in [Delivery -> SUBSET Device]
      /\ delivery \in [Delivery -> State] /\ muted \in [User -> SUBSET Preference]
      /\ \A d \in Device : Owner[d] \in User
  BY PushAssumption DEF PushTypeOK
<1>1. ASSUME Steady, NEW q \in Delivery, delivery'[q] = delivery[q], got' = got,
             due'[q] \subseteq due[q] \cap kept',
             \A d \in due'[q] : delivery[q].category \notin muted'[Owner[d]]
      PROVE  Reached(q)' /\ ToReach(q)'
  <2>1. delivery[q].at = "send" => heap'[delivery[q].list] = heap[delivery[q].list]
    BY <1>1 DEF Objects, WorksFor, Steady
  <2>2. Reached(q) /\ ToReach(q)
    OBVIOUS
  <2>3. Reached(q)'
    BY <1>1, <2>1, <2>2 DEF Reached
  <2>4. ToReach(q)'
    BY <1>1, <2>1, <2>2 DEF ToReach, Reaches
  <2> QED BY <2>3, <2>4
<1>2. \A q \in Delivery : due[q] \subseteq kept /\ \A d \in due[q] : delivery[q].category \notin muted[Owner[d]]
  BY DEF ToReach, Reaches
<1>3. ASSUME Steady, UNCHANGED <<delivery, got, due, kept, muted>> PROVE \A q \in Delivery : Reached(q)' /\ ToReach(q)'
  BY <1>1, <1>2, <1>3
<1>4. ASSUME Steady, NEW d \in Device, Gone(d) PROVE \A q \in Delivery : Reached(q)' /\ ToReach(q)'
  BY <1>0, <1>1, <1>2, <1>4 DEF Gone
<1>5. ASSUME Steady, NEW u \in User, NEW c \in Preference, NEW on \in BOOLEAN, SetPreferences(u, c, on)
      PROVE  \A q \in Delivery : Reached(q)' /\ ToReach(q)'
  <2> SUFFICES ASSUME NEW q \in Delivery PROVE Reached(q)' /\ ToReach(q)'
    OBVIOUS
  <2>1. due'[q] = due[q] \ {d \in Device : Owner[d] = u /\ delivery[q].category = c}
    BY <1>5 DEF SetPreferences
  <2>2. \A d \in due'[q] : delivery[q].category \notin muted'[Owner[d]]
    <3> SUFFICES ASSUME NEW d \in due'[q] PROVE delivery[q].category \notin muted'[Owner[d]]
      OBVIOUS
    <3>1. d \in due[q] /\ d \in Device /\ ~ (Owner[d] = u /\ delivery[q].category = c)
      BY <1>0, <2>1
    <3>2. muted'[u] \subseteq muted[u] \cup {c} /\ \A v \in User \ {u} : muted'[v] = muted[v]
      BY <1>0, <1>5 DEF SetPreferences
    <3> QED BY <1>0, <1>2, <3>1, <3>2
  <2> QED BY <1>1, <1>2, <1>5, <2>1, <2>2 DEF SetPreferences
<1>6. ASSUME Steady, NEW e, MaybePush(e) PROVE \A q \in Delivery : Reached(q)' /\ ToReach(q)'
  <2>1. CASE UNCHANGED pushVars
    BY <1>3, <1>6, <2>1 DEF pushVars
  <2>2. ASSUME NEW p \in Delivery, Scheduled(p, Category(e)) PROVE \A q \in Delivery : Reached(q)' /\ ToReach(q)'
    <3>1. /\ delivery[p].at = "none"
          /\ delivery'[p].at = "begin" /\ delivery'[p].category = Category(e)
      BY <2>2 DEF Scheduled, Idle
    <3>2. Reached(p)'
      BY <2>2, <3>1 DEF Scheduled, Reached
    <3>3. ToReach(p)'
      BY <2>2, <3>1 DEF Scheduled, ToReach
    <3>4. ASSUME NEW q \in Delivery \ {p} PROVE Reached(q)' /\ ToReach(q)'
      BY <1>1, <1>2, <1>6, <2>2 DEF Scheduled
    <3> QED BY <3>2, <3>3, <3>4
  <2> QED BY <1>6, <2>1, <2>2, MaybePushFacts
<1>7. CASE AppendDevice
  <2>0. PICK d \in Device, u \in User : d = subscriber.device /\ u = Owner[d]
    BY <1>7, PushAssumption DEF AppendDevice, PushTypeOK, NoCall
  <2>1. CASE table[u] = 0
    <3>1. UNCHANGED <<heap, table, delivery, got, due, kept, muted>>
      BY <1>7, <2>0, <2>1 DEF AppendDevice
    <3> QED BY <1>3, <3>1 DEF Steady, Objects, Listed
  <2>2. CASE table[u] # 0
    <3>1. UNCHANGED <<delivery, got, due, muted>> /\ kept \subseteq kept'
      BY <1>7, <2>0, <2>2 DEF AppendDevice
    <3>2. /\ \A k \in DOMAIN heap : k # table[u] => heap'[k] = heap[k]
          /\ Listed(u) = heap[table[u]] /\ Listed(u)' = heap'[table[u]]
          /\ Len(Listed(u)') >= Len(Listed(u))
          /\ \A i \in DOMAIN Listed(u) : i \in DOMAIN Listed(u)' /\ Listed(u)'[i] = Listed(u)[i]
      BY <1>7, <2>0, <2>2, AppendLists
    <3>3. ASSUME NEW q \in Delivery PROVE Reached(q)' /\ ToReach(q)'
      <4> DEFINE s == delivery[q]
                 l == heap[s.list]
      <4>1. Reached(q) /\ ToReach(q) /\ WorksFor(q)
        BY DEF Objects
      <4>2. s.at = "send" =>
              /\ Len(l) \in Nat /\ DOMAIN l = 1 .. Len(l) /\ s.i \in 1 .. Len(l) + 1
              /\ Len(heap'[s.list]) \in Nat /\ Len(heap'[s.list]) >= Len(l)
              /\ \A i \in 1 .. Len(l) : heap'[s.list][i] = l[i]
        <5> SUFFICES ASSUME s.at = "send"
                     PROVE  /\ Len(l) \in Nat /\ DOMAIN l = 1 .. Len(l) /\ s.i \in 1 .. Len(l) + 1
                            /\ Len(heap'[s.list]) \in Nat /\ Len(heap'[s.list]) >= Len(l)
                            /\ \A i \in 1 .. Len(l) : heap'[s.list][i] = l[i]
          OBVIOUS
        <5>1. s.list \in DOMAIN heap /\ s.i \in 1 .. Len(l) + 1
          BY <4>1 DEF WorksFor
        <5>2. Len(l) \in Nat /\ DOMAIN l = 1 .. Len(l)
          BY <5>1 DEF PushTypeOK, Lists
        <5>3. CASE s.list # table[u]
          BY <3>2, <5>1, <5>2, <5>3
        <5>4. CASE s.list = table[u]
          <6>1. Len(Listed(u)') \in Nat
            <7>1. PushTypeOK'
              BY <1>7, InputTypes DEF PushInput, SubscriberStep
            <7> QED BY <7>1, ListTypes DEF PushTypeOK, Listed, Lists
          <6> QED BY <3>2, <5>1, <5>2, <5>4, <6>1
        <5> QED BY <5>1, <5>2, <5>3, <5>4
      <4>3. Reached(q)'
        <5>1. s.at = "send" => \A j \in 1 .. s.i - 1 : heap'[s.list][j] = l[j]
          <6> SUFFICES ASSUME s.at = "send", NEW j \in 1 .. s.i - 1 PROVE heap'[s.list][j] = l[j]
            OBVIOUS
          <6>1. s.i \in 1 .. Len(l) + 1 /\ Len(l) \in Nat
            BY <4>2
          <6>2. j \in 1 .. Len(l)
            BY <6>1
          <6> QED BY <4>2, <6>2
        <5> HIDE DEF l
        <5>2. s.at = "send" =>
                \A c \in Device : Owner[c] = s.user /\ got[q][c] = 1 => \E j \in 1 .. s.i - 1 : l[j] = c
          BY <4>1 DEF Reached, l
        <5> QED BY <3>1, <4>1, <5>1, <5>2 DEF Reached
      <4>4. ToReach(q)'
        BY <3>1, <4>1, <4>2, SMTT(20) DEF ToReach, Reaches
      <4> QED BY <4>3, <4>4
    <3> QED BY <3>3
  <2> QED BY <2>1, <2>2
<1> QED
  BY <1>3, <1>4, <1>5, <1>6, <1>7, InputLists DEF PushInput, Subscribe, SubscriberStep, DumpSubscribed, WriteSubscribed

-----------------------------------------------------------------------------
(* Every step                                                              *)

(* Steps elsewhere.                                                        *)
LEMMA PushUnchanged == ASSUME PushIInv, UNCHANGED pushVars PROVE PushIInv'
BY SMTT(30) DEF pushVars, PushIInv, PushTypeOK, Objects, WorksFor, KeptListed, Spares, FileCovers, Covers, Dirty, Saving,
       Reached, ToReach, Reaches, Listed

(* Every step of TestRuns.                                                 *)
LEMMA PushStep == PushIInv /\ [WorkNext]_workVars => PushIInv'
<1>1. ASSUME PushIInv, PushInput PROVE PushIInv'
  <2>1. PushTypeOK' /\ Objects' /\ KeptListed' /\ FileCovers'
    BY <1>1, InputTypes, InputObjects, InputKept, InputCovers DEF PushIInv
  <2>2. \A p \in Delivery : Reached(p)' /\ ToReach(p)'
    BY <1>1, InputReached DEF PushIInv
  <2> QED BY <2>1, <2>2 DEF PushIInv
<1>2. ASSUME PushIInv, NEW p \in Delivery, Deliver(p) PROVE PushIInv'
  <2>1. PushTypeOK' /\ Objects' /\ KeptListed' /\ FileCovers'
    BY <1>2, DeliverTypes, DeliverObjects, DeliverKept, DeliverCovers DEF PushIInv
  <2>2. \A q \in Delivery : Reached(q)' /\ ToReach(q)'
    BY <1>2, DeliverReached DEF PushIInv
  <2> QED BY <2>1, <2>2 DEF PushIInv
<1>3. ASSUME [WorkNext]_workVars PROVE UNCHANGED pushVars \/ PushInput \/ \E p \in Delivery : Deliver(p)
  <2>1. CASE Input
    <3>1. ASSUME NEW u \in User, NEW c, NEW on \in BOOLEAN, SetPreferences(u, c, on) PROVE PushInput
      BY <3>1 DEF SetPreferences, PushInput
    <3> QED BY <2>1, <3>1 DEF Input, RunTests, StopRequested, PushInput
  <2>2. ASSUME NEW r \in Run, Forward(r) PROVE PushInput
    BY <2>2 DEF Forward, PushInput
  <2>3. ASSUME NEW r \in Run,
               \/ Popen(r) \/ Registered(r) \/ ReadLine(r) \/ FireLine(r) \/ FireDone(r) \/ FireEnds(r)
               \/ Undecodable(r) \/ Handle(r) \/ Prints(r) \/ Exit(r) \/ ChildExits(r) \/ StopEnds(r)
        PROVE  UNCHANGED pushVars
    BY <2>3 DEF Popen, Registered, ReadLine, FireLine, FireDone, FireEnds, Undecodable, Handle, Prints, Exit,
                ChildExits, StopEnds
  <2> QED BY <1>3, <2>1, <2>2, <2>3 DEF WorkNext, workVars, PushInput
<1> QED BY <1>1, <1>2, <1>3, PushUnchanged

(* The inductive invariant of notifications: whose the lists are, what the *)
(* file lacks of them and whom every delivery has reached or failed to     *)
(* (push.py:117-245).                                                      *)
THEOREM PushInvariant == WorkSpec => []PushIInv
<1>1. ASSUME WorkInit PROVE PushIInv
  <2>0. PushInit /\ <<>> \in Lists
    BY <1>1 DEF WorkInit, Lists
  <2>1. PushTypeOK
    <3>1. Idle \in State
      BY <2>0 DEF Idle, State, Categories
    <3>2. heap \in Seq(Lists) /\ Len(heap) = 0 /\ table \in [User -> 0 .. Len(heap)]
      BY <2>0 DEF PushInit
    <3> QED BY <2>0, <3>1, <3>2 DEF PushInit, PushTypeOK, Saves
  <2>2. \A u \in User : Listed(u) = <<>> /\ table[u] = 0
    BY <2>0 DEF PushInit, Listed
  <2>3. \A p \in Delivery : /\ delivery[p].at = "none" /\ delivery[p].stale = <<>> /\ due[p] = {}
                            /\ \A d \in Device : got[p][d] = 0
    BY <2>0 DEF PushInit, Idle
  <2>4. Objects
    BY <2>2, <2>3, EmptyListOf DEF Objects, WorksFor
  <2>5. KeptListed
    <3>1. kept = {}
      BY <2>0 DEF PushInit
    <3>2. \A p \in Delivery : Spares(p)
      BY <2>3 DEF Spares
    <3> QED BY <3>1, <3>2 DEF KeptListed
  <2>6. FileCovers
    <3>1. Saving = {} /\ subscriber.at = "none"
      BY <2>0, <2>3 DEF Saving, PushInit, NoCall
    <3>2. Covers(file)
      BY <2>2, EmptyListOf DEF Covers
    <3> QED BY <3>1, <3>2 DEF FileCovers
  <2>7. \A p \in Delivery : Reached(p) /\ ToReach(p)
    BY <2>3 DEF Reached, ToReach
  <2> QED BY <2>1, <2>4, <2>5, <2>6, <2>7 DEF PushIInv
<1> QED BY <1>1, PushStep, PTL DEF WorkSpec

(* A subscription is lost only when a clean-up of its user overlapped the  *)
(* call that made it; the file has what the table has, unless two saves    *)
(* overlapped (push.py:117-147, 231-233).                                  *)
THEOREM SubscriptionsKept == WorkSpec => []KeptUnlessRaced
<1>1. PushIInv => KeptUnlessRaced
  <2> SUFFICES ASSUME PushIInv PROVE KeptUnlessRaced
    OBVIOUS
  <2>0. PushTypeOK /\ Objects /\ KeptListed /\ FileCovers /\ \A d \in Device : Owner[d] \in User
    BY PushAssumption DEF PushIInv
  <2>1. ASSUME NEW u \in User, NEW d, Has(Listed(u), d) PROVE Contains(Listed(u), d) /\ d \in Device
    BY <2>0, <2>1, ListTypes DEF Contains, Has, Lists
  <2>2. \A d \in kept : Contains(Listed(Owner[d]), d)
    BY <2>0, <2>1 DEF KeptListed, PushTypeOK
  <2>3. ASSUME ~overlapped, ~Subscribing, \A p \in Delivery : delivery[p].at \notin {"check", "del", "dump", "write"},
               NEW u \in User, NEW d \in ToSet(Listed(u))
        PROVE  Contains(file[u], d)
    <3>1. Has(Listed(u), d) /\ d \in Device
      <4>1. Has(Listed(u), d)
        BY DEF Has, ToSet
      <4> QED BY <2>1, <4>1
    <3>2. subscriber.at = "none"
      BY <2>3 DEF Subscribing, NoCall
    <3>3. Saving = {}
      BY <2>3 DEF Saving
    <3>4. ~Dirty(u)
      BY <2>3, <3>2 DEF Dirty
    <3>5. Has(file[u], d)
      BY <2>0, <2>3, <3>1, <3>2, <3>3, <3>4 DEF FileCovers, Covers
    <3> QED BY <2>0, <3>5 DEF Contains, Has, PushTypeOK, Saves, Lists
  <2> QED BY <2>2, <2>3 DEF KeptUnlessRaced
<1> QED BY <1>1, PushInvariant, PTL

(* A device that stays subscribed gets a notification exactly once, unless *)
(* the send to that very device failed or the delivery raised, and none    *)
(* ever gets it twice, however many devices are gone or fail               *)
(* (push.py:205-245).                                                      *)
THEOREM DevicesReached == WorkSpec => []EachDeviceOnce
<1>1. PushIInv => EachDeviceOnce
  <2> SUFFICES ASSUME PushIInv PROVE EachDeviceOnce
    OBVIOUS
  <2>1. \A p \in Delivery, d \in Device : got[p][d] <= 1
    BY DEF PushIInv, Reached
  <2>2. ASSUME NEW p \in Delivery, delivery[p].at = "ended", NEW d \in due[p] PROVE got[p][d] = 1
    BY <2>2 DEF PushIInv, ToReach, Reaches
  <2> QED BY <2>1, <2>2 DEF EachDeviceOnce
<1> QED BY <1>1, PushInvariant, PTL
=============================================================================
