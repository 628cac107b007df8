---------------------------- MODULE StoresProofs ----------------------------
(***************************************************************************)
(* What holds of Stores and its PortAllocator for any number of threads,   *)
(* processes, keys, services, branches and slots, and of ConfigPatch for   *)
(* files of any length, with any sections and keys.                        *)
(*                                                                         *)
(* Every store needs an invariant of its own, since each is protected in a *)
(* way of its own.  What they share is Held: a call that has read holds,   *)
(* until it writes, what the last changes of all other keys have left.     *)
(***************************************************************************)
EXTENDS Stores, SequenceTheorems, FiniteSetTheorems, WellFoundedInduction, TLAPS

-----------------------------------------------------------------------------
(* The invariant.                                                          *)

Call == [at : {"idle", "lock"} \union Inside, store : Store, op : {"set", "delete", "clean", "write"},
         key : Key, value : Value \union {None}, data : [Key -> Value \union {None}],
         into : {"tmp", "file"}]

Distinct(t) ==
  /\ \A s, r \in Service : s # r /\ t.compose[s] = Default => t.compose[r] # Default
  /\ \A b, c \in Branch : b # c /\ t.slots[b] # NoPort => t.slots[b] # t.slots[c]

(* A stack that is up and no stray has its slot in memory and in the file, *)
(* also in the middle of a save.                                           *)
PortsKnown ==
  /\ Distinct(table) /\ Distinct(portFile)
  /\ torn => saving = "write"
  /\ saving = "no" => portFile = table
  /\ \A b \in Branch \ stray : up[b] # NoPort => up[b] = table.slots[b] /\ up[b] = portFile.slots[b]

In(a, s) == call[a].store = s /\ call[a].at \in Inside
Writes(s) == \E a \in Actor : call[a].store = s /\ At(a, "write")

(* What the steps of a call tell of it. *)
Label(a, r) ==
  /\ r.at \in {"truncate", "write"} => r.store # "state"
  /\ r.at \in {"open", "fill", "replace"} => r.store = "state"
  /\ r.store # "state" => a \in Thread
  /\ r.op = "write" => r.store = "state" /\ plain
  /\ r.op = "clean" => r.store = "github"
  /\ r.op = "delete" => r.value = None
  /\ r.op = "set" => r.value # None
  /\ r.store = "github" => r.key = Github /\ r.value = None

Labels == \A a \in Actor : call[a].at # "idle" => Label(a, call[a])

Exclusive ==
  \A a, b \in Actor, s \in Store :
    In(a, s) /\ In(b, s) /\ a # b => call[a].op = "write" \/ call[b].op = "write"

(* What does not parse has no entries; the older files stay as they are,   *)
(* and the newer github file only ever says that there is no token.        *)
Files ==
  /\ \A s \in Store : home[s].is # "whole" => home[s].data = Nothing
  /\ tmp.is # "whole" => tmp.data = Nothing
  /\ old["state"] = Absent
  /\ home["github"].is # "absent" => home["github"].data[Github] = None
  /\ \A a \in Actor : In(a, "github") => call[a].data[Github] = None

(* Call a has read the entries d and changes its key in them.              *)
Held(a, d) == call[a].data = [d EXCEPT ![call[a].key] = call[a].value]

StateKept ==
  ~plain =>
    /\ home["state"].is # "torn"
    /\ last["state"] = home["state"].data
    /\ \A a \in Actor : In(a, "state") =>
         /\ Held(a, last["state"])
         /\ At(a, "fill") => call[a].into = "tmp"
         /\ At(a, "replace") => tmp = Whole(call[a].data)

PreferencesKept ==
  HomeHas =>
    /\ from = "home" /\ home["preferences"].is # "absent"
    /\ "preferences" \notin lost =>
         /\ ~Writes("preferences") => home["preferences"].data = last["preferences"]
         /\ \A a \in Actor : In(a, "preferences") => Held(a, last["preferences"])

(* d is what the connections file says, or said before the write under way. *)
Connections == Contents("connections", Place("connections"))
Deleting == \E a \in Actor : call[a].store = "github" /\ ~At(a, "idle")
Means(d) ==
  /\ ~Writes("connections") => Connections = d
  /\ \A a \in Actor : In(a, "connections") => Held(a, d)
  /\ \A k \in Key \ {Github} : last["connections"][k] = d[k]
  /\ IF last["connections"][Github] = Unsure THEN d[Github] = None /\ Deleting
     ELSE /\ last["connections"][Github] = IF d[Github] = None THEN GithubToken ELSE d[Github]
          /\ Deleting => d[Github] # None \/ GithubToken = None

ConnectionsKept == "connections" \notin lost => \E d \in [Key -> Value \union {None}] : Means(d)

Callers == Labels /\ Exclusive /\ Files

IInv ==
  /\ TypeOK /\ PortsKnown /\ Callers
  /\ StateKept /\ PreferencesKept /\ ConnectionsKept

-----------------------------------------------------------------------------
(* The slots                                                               *)

(* A branch gets a slot that exists and that no other has.                 *)
LEMMA FreeSlot ==
  ASSUME NEW used, used \subseteq Slot, Cardinality(used) < MaxStacks
  PROVE  LowestFree(used) \in Slot \ used
<1> DEFINE free == Slot \ used
<1>1. IsFiniteSet(Slot) /\ Cardinality(Slot) = MaxStacks
  BY FS_Interval, PortsAssumption DEF Slot
<1>2. free # {}
  <2> SUFFICES ASSUME free = {} PROVE FALSE
    OBVIOUS
  <2>1. used = Slot
    OBVIOUS
  <2> QED
    BY <1>1, <2>1, PortsAssumption
<1>3. free \subseteq Nat
  BY PortsAssumption DEF Slot
<1>4. PICK n \in free : \A m \in free : ~ (<<m, n>> \in OpToRel(<, Nat))
  BY <1>2, <1>3, WFMin, NatLessThanWellFounded, Zenon
<1>5. \A m \in free : ~ (m < n)
  BY <1>3, <1>4 DEF OpToRel
<1>6. n \in Slot /\ n \notin used /\ \A m \in Slot : m < n => m \in used
  BY <1>5
<1> QED
  BY <1>6 DEF LowestFree

-----------------------------------------------------------------------------
(* Types                                                                   *)

PortSteps == PortsStep \/ SaveTruncates \/ SaveWrites

LEMMA PortTypes == PortsTypeOK /\ (PortSteps \/ PortsCrash) => PortsTypeOK'
<1> SUFFICES ASSUME PortsTypeOK, PortSteps \/ PortsCrash PROVE PortsTypeOK'
  OBVIOUS
<1> USE PortsAssumption DEF PortsTypeOK, Change
<1>1. ASSUME NEW s \in Service, Allocate(s) \/ Release(s)
      PROVE  PortsTypeOK'
  BY <1>1 DEF Allocate, Release, FreePort
<1>2. ASSUME NEW b \in Branch, AllocateSlot(b)
      PROVE  PortsTypeOK'
  <2>1. Taken(table.slots) \subseteq Slot
    BY DEF Taken
  <2>2. LowestFree(Taken(table.slots)) \in Slot
    BY <1>2, <2>1, FreeSlot DEF AllocateSlot
  <2> QED
    BY <1>2, <2>2 DEF AllocateSlot
<1>3. ASSUME NEW b \in Branch, ReleaseSlot(b) \/ StackStarts(b) \/ StackStops(b)
      PROVE  PortsTypeOK'
  BY <1>3 DEF ReleaseSlot, StackStarts, StackStops
<1>4. CASE SaveTruncates \/ SaveWrites
  BY <1>4 DEF SaveTruncates, SaveWrites
<1>5. CASE PortsCrash
  BY <1>5 DEF PortsCrash, Reload, Empty
<1> QED
  BY <1>1, <1>2, <1>3, <1>4, <1>5 DEF PortSteps, PortsStep

LEMMA TypeInit == Init => TypeOK
<1> SUFFICES ASSUME Init PROVE TypeOK
  OBVIOUS
<1> USE StoresAssumption
<1>1. PortsTypeOK
  BY PortsAssumption DEF Init, PortsInit, PortsTypeOK, Empty
<1>2. Nothing \in [Key -> Value \union {None}]
  BY DEF Nothing
<1>3. home \in [Store -> File] /\ old \in [Store -> File]
  <2>1. PICK v \in Value, moved \in BOOLEAN :
          /\ home = [s \in Store |->
               IF s = "preferences" /\ HomeHas THEN Whole(Nothing) ELSE Absent]
          /\ old = [s \in Store |->
               CASE s = "github" -> Whole([Nothing EXCEPT ![Github] = v])
                 [] s = "connections" /\ moved -> Whole([k \in Key |-> IF k = Github THEN None ELSE v])
                 [] OTHER -> Absent]
    BY DEF Init
  <2> QED
    BY <2>1, <1>2 DEF File, Whole, Absent
<1>4. call \in [Actor ->
         [at : {"idle", "lock"} \cup Inside, store : Store, op : {"set", "delete", "clean", "write"},
          key : Key, value : Value \cup {None}, data : [Key -> Value \cup {None}],
          into : {"tmp", "file"}]]
  BY <1>2 DEF Init, Idle, Store
<1>5. \A s \in Store, k \in Key : Entry(s, k) \in Value \union {None}
  BY <1>3 DEF Entry, Preference, Token, State, GithubToken, Contents, File, Store
<1> QED
  <2>1. calls = 0 /\ plain = FALSE /\ lost = {} /\ from = Resolve(home["preferences"])
    BY DEF Init
  <2>2. tmp \in File
    BY <1>2 DEF Init, Absent, File
  <2>3. last \in [Store -> [Key -> Value \union {None, Unsure}]]
    BY <1>5 DEF Init
  <2>4. calls \in 0 .. MaxCalls
    BY <2>1, SMT
  <2>6. lost \subseteq Store
    BY <2>1
  <2>7. plain \in BOOLEAN
    BY <2>1
  <2>5. from \in {"home", "old"}
    BY <2>1 DEF Resolve
  <2> QED
    BY <1>1, <1>3, <1>4, <2>2, <2>3, <2>4, <2>5, <2>6, <2>7 DEF TypeOK

LEMMA CallStep == TypeOK /\ [Next]_vars => call' \in [Actor -> Call]
<1> SUFFICES ASSUME TypeOK, [Next]_vars PROVE call' \in [Actor -> Call]
  OBVIOUS
<1> USE StoresAssumption
<1>1. call \in [Actor -> Call]
  BY DEF TypeOK, Call
<1>2. ASSUME NEW a \in Actor, NEW r \in Call, Goes(a, r)
      PROVE  call' \in [Actor -> Call]
  BY <1>1, <1>2 DEF Goes
<1>3. Idle \in Call
  BY DEF Idle, Call, Nothing, Store
<1>4. ASSUME NEW a \in Actor PROVE Rest(a) \in Call
  BY <1>1 DEF Rest, Call, Nothing
<1>5. ASSUME NEW a \in Actor, NEW s \in Store, Begin(a, s)
      PROVE  call' \in [Actor -> Call]
  <2>1. PICK k \in Key, v \in Value \union {None} :
          Goes(a, [Idle EXCEPT !.at = "lock", !.store = s, !.key = k, !.value = v,
                               !.op = IF v = None THEN "delete" ELSE "set"])
    BY <1>5 DEF Begin
  <2>2. [Idle EXCEPT !.at = "lock", !.store = s, !.key = k, !.value = v,
                     !.op = IF v = None THEN "delete" ELSE "set"] \in Call
    BY DEF Idle, Call, Nothing
  <2> QED
    BY <1>2, <2>1, <2>2
<1>6. ASSUME NEW a \in Actor, PlainWrite(a)
      PROVE  call' \in [Actor -> Call]
  <2>1. PICK k \in Key, v \in Value :
          Goes(a, [Idle EXCEPT !.at = "open", !.op = "write", !.key = k, !.value = v,
                               !.data = [Nothing EXCEPT ![k] = v]])
    BY <1>6 DEF PlainWrite
  <2>2. [Idle EXCEPT !.at = "open", !.op = "write", !.key = k, !.value = v,
                     !.data = [Nothing EXCEPT ![k] = v]] \in Call
    BY DEF Idle, Call, Nothing, Inside, Store
  <2> QED
    BY <1>2, <2>1, <2>2
<1>7. ASSUME NEW a \in Actor, NEW l \in Inside
      PROVE  [call[a] EXCEPT !.at = l] \in Call /\ [call[a] EXCEPT !.at = l, !.into = "tmp"] \in Call
  BY <1>1 DEF Call
<1>8. ASSUME NEW a \in Actor, NEW o \in {"delete", "clean"}
      PROVE  ToGithub(a, o) \in Call
  BY <1>1 DEF Call, ToGithub, Store
<1>9. ASSUME NEW a \in Actor, Enter(a)
      PROVE  call' \in [Actor -> Call]
  <2>1. CASE Reads(a)
    <3>1. Changed(a) \in [Key -> Value \union {None}]
      BY <1>1 DEF Changed, Contents, TypeOK, File, Call
    <3>2. [call[a] EXCEPT !.at = IF call[a].store = "state" THEN "open" ELSE "truncate",
                          !.data = Changed(a)] \in Call
      BY <1>1, <3>1 DEF Call, Inside
    <3> QED
      BY <1>2, <2>1, <3>2 DEF Reads
  <2>2. CASE DeletesNothing(a)
    BY <1>2, <1>4, <1>8, <2>2 DEF DeletesNothing
  <2>3. CASE CannotRead(a)
    BY <1>2, <1>4, <2>3 DEF CannotRead
  <2> QED
    BY <1>9, <2>1, <2>2, <2>3 DEF Enter
<1>10. ASSUME NEW a \in Actor, Truncate(a) \/ Open(a) \/ FillTmp(a)
       PROVE  call' \in [Actor -> Call]
  BY <1>2, <1>7, <1>10 DEF Truncate, Open, FillTmp, Inside
<1>11. ASSUME NEW a \in Actor, Fill(a) \/ ReplaceFails(a)
       PROVE  call' \in [Actor -> Call]
  BY <1>2, <1>4, <1>8, <1>11 DEF Fill, ReplaceFails
<1>12. ASSUME NEW a \in Actor, Replace(a)
       PROVE  call' \in [Actor -> Call]
  <2>1. \A b \in Actor : [call[b] EXCEPT !.into = "file"] \in Call
    BY <1>1 DEF Call
  <2> QED
    BY <1>1, <1>4, <1>12, <2>1 DEF Replace
<1>13. ASSUME NEW c \in Client, ClientDies(c)
       PROVE  call' \in [Actor -> Call]
  BY <1>2, <1>3, <1>13 DEF ClientDies, Actor
<1>14. CASE ServerDies
  BY <1>1, <1>3, <1>14 DEF ServerDies
<1>15. CASE Ports \/ UNCHANGED vars
  BY <1>1, <1>15 DEF Ports, vars, storeVars
<1> QED
  BY <1>5, <1>6, <1>9, <1>10, <1>11, <1>12, <1>13, <1>14, <1>15
     DEF Next, ChangePreference, ChangeToken, ChangeState, Store

LEMMA LastStep == TypeOK /\ [Next]_vars => last' \in [Store -> [Key -> Value \union {None, Unsure}]]
<1> SUFFICES ASSUME TypeOK, [Next]_vars
             PROVE  last' \in [Store -> [Key -> Value \union {None, Unsure}]]
  OBVIOUS
<1>1. last \in [Store -> [Key -> Value \union {None, Unsure}]] /\ call \in [Actor -> Call]
  BY DEF TypeOK, Call
<1>2. ASSUME NEW s \in Store, NEW k \in Key, NEW v \in Value \union {None, Unsure}, Commits(s, k, v)
      PROVE  last' \in [Store -> [Key -> Value \union {None, Unsure}]]
  BY <1>1, <1>2 DEF Commits
<1>3. ASSUME NEW a \in Actor, Commits(call[a].store, call[a].key, call[a].value)
      PROVE  last' \in [Store -> [Key -> Value \union {None, Unsure}]]
  BY <1>1, <1>2, <1>3 DEF Call
<1>4. ASSUME NEW v \in {None, Unsure}, Commits("connections", Github, v)
      PROVE  last' \in [Store -> [Key -> Value \union {None, Unsure}]]
  BY <1>2, <1>4, StoresAssumption DEF Store
<1>5. ASSUME NEW k \in Key, NEW v \in Value \union {None}, Commits("state", k, v)
      PROVE  last' \in [Store -> [Key -> Value \union {None, Unsure}]]
  BY <1>2, <1>5 DEF Store
<1>6. ASSUME NEW a \in Actor, Enter(a)
      PROVE  last' \in [Store -> [Key -> Value \union {None, Unsure}]]
  BY <1>1, <1>4, <1>6 DEF Enter, DeletesNothing, Reads, CannotRead
<1>7. ASSUME NEW a \in Actor, Fill(a)
      PROVE  last' \in [Store -> [Key -> Value \union {None, Unsure}]]
  BY <1>1, <1>3, <1>4, <1>7 DEF Fill
<1>8. ASSUME NEW a \in Actor, Replace(a)
      PROVE  last' \in [Store -> [Key -> Value \union {None, Unsure}]]
  BY <1>1, <1>5, <1>8 DEF Replace, Call
<1> QED
  BY <1>1, <1>6, <1>7, <1>8 DEF Next, ChangePreference, ChangeToken, ChangeState, Begin, Truncate,
     PlainWrite, Open, FillTmp, ReplaceFails, ClientDies, ServerDies, Ports, storeVars, vars

LEMMA FileStep ==
  TypeOK /\ [Next]_vars => home' \in [Store -> File] /\ old' = old /\ tmp' \in File
<1> SUFFICES ASSUME TypeOK, [Next]_vars PROVE home' \in [Store -> File] /\ old' = old /\ tmp' \in File
  OBVIOUS
<1>1. home \in [Store -> File] /\ tmp \in File
  BY DEF TypeOK
<1>2. Torn \in File /\ Absent \in File /\ \A d \in [Key -> Value \union {None}] : Whole(d) \in File
  BY DEF Torn, Absent, Whole, File, Nothing
<1>3. \A a \in Actor : call[a].data \in [Key -> Value \union {None}]
  BY DEF TypeOK
<1>4. ASSUME NEW a \in Actor, Truncate(a) \/ Fill(a) \/ Open(a) \/ FillTmp(a) \/ Replace(a)
      PROVE  home' \in [Store -> File] /\ old' = old /\ tmp' \in File
  BY <1>1, <1>2, <1>3, <1>4 DEF Truncate, Fill, Open, FillTmp, Replace
<1> QED
  BY <1>1, <1>4 DEF Next, ChangePreference, ChangeToken, ChangeState, Begin, Enter,
     PlainWrite, ReplaceFails, ClientDies, ServerDies, Ports, storeVars, vars

LEMMA TypeStep == TypeOK /\ [Next]_vars => TypeOK'
<1> SUFFICES ASSUME TypeOK, [Next]_vars PROVE TypeOK'
  OBVIOUS
<1> USE StoresAssumption
<1>1. PortsTypeOK'
  <2>1. portVars' = portVars => PortsTypeOK'
    BY DEF TypeOK, portVars, PortsTypeOK
  <2> QED
    BY <2>1, PortTypes DEF TypeOK, Next, Ports, PortSteps, ChangePreference, ChangeToken, ChangeState,
       Begin, Enter, Truncate, Fill, PlainWrite, Open, FillTmp, Replace, ReplaceFails, ClientDies,
       ServerDies, vars
<1>2. from' \in {"home", "old"} /\ calls' \in 0 .. MaxCalls /\ plain' \in BOOLEAN
  <2>1. from' \in {"home", "old"} /\ plain' \in BOOLEAN
    BY DEF TypeOK, Next, Ports, storeVars, ChangePreference, ChangeToken, ChangeState,
       Begin, Enter, Truncate, Fill, PlainWrite, Open, FillTmp, Replace, ReplaceFails, ClientDies,
       ServerDies, Resolve, vars
  <2>2. calls \in 0 .. MaxCalls
    BY DEF TypeOK
  <2>3. ASSUME NEW n \in {1, 2}, calls + n <= MaxCalls, calls' = calls + n
        PROVE  calls' \in 0 .. MaxCalls
    BY <2>2, <2>3
  <2>4. calls' = calls \/ \E n \in {1, 2} : calls + n <= MaxCalls /\ calls' = calls + n
    <3>1. Ports => calls' = calls \/ (calls + 1 <= MaxCalls /\ calls' = calls + 1)
      BY <2>2 DEF Ports
    <3> QED
      BY <3>1 DEF Next, ChangePreference, ChangeToken, ChangeState,
       Begin, Enter, Truncate, Fill, PlainWrite, Open, FillTmp, Replace, ReplaceFails, ClientDies,
       ServerDies, vars
  <2> QED
    BY <2>1, <2>2, <2>3, <2>4
<1>3. lost' \subseteq Store
  <2>1. LeftTorn(Thread) \subseteq Store
    BY DEF LeftTorn, Actor, TypeOK
  <2>2. ServerDies => lost' \subseteq Store
    BY <2>1 DEF TypeOK, ServerDies, Store
  <2> QED
    BY <2>2 DEF TypeOK, Next, Ports, storeVars, ChangePreference, ChangeToken, ChangeState,
       Begin, Enter, Truncate, Fill, PlainWrite, Open, FillTmp, Replace, ReplaceFails, ClientDies, vars
<1> QED
  BY <1>1, <1>2, <1>3, CallStep, LastStep, FileStep DEF TypeOK, Call

-----------------------------------------------------------------------------
(* The port file                                                           *)

LEMMA PortsInvariant ==
  ASSUME TypeOK, PortsKnown, [Next]_vars
  PROVE  PortsKnown'
<1> USE PortsAssumption DEF PortsKnown, Distinct, Change
<1>1. PortsTypeOK
  BY DEF TypeOK
<1>2. ASSUME NEW s \in Service, Allocate(s) \/ Release(s)
      PROVE  PortsKnown'
  BY <1>1, <1>2 DEF PortsTypeOK, Allocate, Release, FreePort, Taken
<1>3. ASSUME NEW b \in Branch, AllocateSlot(b)
      PROVE  PortsKnown'
  <2> DEFINE n == LowestFree(Taken(table.slots))
  <2>1. n \in Slot /\ n \notin Taken(table.slots)
    BY <1>1, <1>3, FreeSlot DEF PortsTypeOK, AllocateSlot, Taken
  <2>2. \A c \in Branch : table.slots[c] # n
    <3>1. n # NoPort
      BY <2>1 DEF Slot
    <3>2. \A c \in Branch : table.slots[c] # NoPort => table.slots[c] \in Taken(table.slots)
      BY <1>1 DEF PortsTypeOK, Taken
    <3> QED
      BY <2>1, <3>1, <3>2
  <2>3. Distinct(table)'
    BY <1>1, <1>3, <2>2 DEF PortsTypeOK, AllocateSlot
  <2> HIDE DEF n
  <2> QED
    BY <1>1, <1>3, <2>3 DEF PortsTypeOK, AllocateSlot
<1>4. ASSUME NEW b \in Branch, ReleaseSlot(b) \/ StackStarts(b) \/ StackStops(b)
      PROVE  PortsKnown'
  BY <1>1, <1>4 DEF PortsTypeOK, ReleaseSlot, StackStarts, StackStops
<1>5. ASSUME SaveTruncates \/ SaveWrites
      PROVE  PortsKnown'
  BY <1>5 DEF SaveTruncates, SaveWrites
<1>6. ASSUME ServerDies
      PROVE  PortsKnown'
  BY <1>1, <1>6 DEF PortsTypeOK, ServerDies, PortsCrash, Reload, Empty
<1>7. portVars' = portVars => PortsKnown'
  BY DEF portVars
<1> QED
  BY <1>2, <1>3, <1>4, <1>5, <1>6, <1>7 DEF Next, Ports, PortsStep, ChangePreference, ChangeToken,
     ChangeState, Begin, Enter, Truncate, Fill, PlainWrite, Open, FillTmp, Replace, ReplaceFails,
     ClientDies, vars

-----------------------------------------------------------------------------
(* The calls under way                                                     *)

LEMMA LabelsStep ==
  ASSUME TypeOK, Labels, [Next]_vars
  PROVE  Labels'
<1> USE StoresAssumption DEF At
<1>1. call \in [Actor -> Call] /\ plain \in BOOLEAN
  BY DEF TypeOK, Call
<1>2. ASSUME NEW a \in Actor, NEW r, Goes(a, r), plain' = plain, r.at = "idle" \/ Label(a, r)
      PROVE  Labels'
  BY <1>1, <1>2 DEF Goes, Labels, Label
<1>3. ASSUME NEW a \in Actor, NEW s \in Store, s = "state" \/ a \in Thread, s # "github", Begin(a, s)
      PROVE  Labels'
  <2>1. PICK k \in Key, v \in Value \union {None} :
          Goes(a, [Idle EXCEPT !.at = "lock", !.store = s, !.key = k, !.value = v,
                               !.op = IF v = None THEN "delete" ELSE "set"])
    BY <1>3 DEF Begin
  <2>2. Label(a, [Idle EXCEPT !.at = "lock", !.store = s, !.key = k, !.value = v,
                              !.op = IF v = None THEN "delete" ELSE "set"])
    BY <1>3 DEF Label, Idle
  <2> QED
    BY <1>2, <1>3, <2>1, <2>2 DEF Begin
<1>4. ASSUME NEW a \in Actor PROVE Rest(a).at = "idle"
  BY <1>1 DEF Rest, Call
<1>5. ASSUME NEW a \in Actor, call[a].at # "idle", GoesOn(a), NEW o \in {"delete", "clean"}
      PROVE  Label(a, ToGithub(a, o))
  BY <1>1, <1>5 DEF Labels, Label, GoesOn, ToGithub, Call
<1>6. ASSUME NEW a \in Actor, Enter(a)
      PROVE  Labels'
  <2>1. CASE DeletesNothing(a)
    BY <1>2, <1>4, <1>5, <1>6, <2>1 DEF Enter, DeletesNothing
  <2>2. CASE Reads(a)
    <3>1. Label(a, [call[a] EXCEPT !.at = IF call[a].store = "state" THEN "open" ELSE "truncate",
                                   !.data = Changed(a)])
      BY <1>1, <1>6 DEF Enter, Labels, Label, Call
    <3> QED
      BY <1>2, <1>6, <2>2, <3>1 DEF Enter, Reads
  <2>3. CASE CannotRead(a)
    BY <1>2, <1>4, <1>6, <2>3 DEF Enter, CannotRead
  <2> QED
    BY <1>6, <2>1, <2>2, <2>3 DEF Enter
<1>7. ASSUME NEW a \in Actor, Truncate(a) \/ Open(a) \/ FillTmp(a)
      PROVE  Labels'
  <2>1. ASSUME Truncate(a) PROVE Label(a, [call[a] EXCEPT !.at = "write"])
    BY <1>1, <2>1 DEF Truncate, Labels, Label, Call
  <2>2. ASSUME Open(a) PROVE Label(a, [call[a] EXCEPT !.at = "fill", !.into = "tmp"])
    BY <1>1, <2>2 DEF Open, Labels, Label, Call
  <2>3. ASSUME FillTmp(a) PROVE Label(a, [call[a] EXCEPT !.at = "replace"])
    BY <1>1, <2>3 DEF FillTmp, Labels, Label, Call
  <2> QED
    BY <1>2, <1>7, <2>1, <2>2, <2>3 DEF Truncate, Open, FillTmp
<1>8. ASSUME NEW a \in Actor, Fill(a) \/ ReplaceFails(a)
      PROVE  Labels'
  BY <1>2, <1>4, <1>5, <1>8 DEF Fill, ReplaceFails
<1>9. ASSUME NEW a \in Actor, PlainWrite(a)
      PROVE  Labels'
  BY <1>1, <1>9 DEF PlainWrite, Goes, Labels, Label, Call, Idle
<1>10. ASSUME NEW a \in Actor, Replace(a)
       PROVE  Labels'
  <2>1. \A b \in Actor \ {a} :
          call'[b] = call[b] \/ call'[b] = [call[b] EXCEPT !.into = "file"]
    BY <1>10 DEF Replace
  <2>2. ASSUME NEW b \in Actor \ {a}
        PROVE  /\ call'[b].at = call[b].at /\ call'[b].op = call[b].op
               /\ call'[b].store = call[b].store
               /\ call'[b].key = call[b].key /\ call'[b].value = call[b].value
    <3>1. CASE call'[b] = call[b]
      BY <3>1
    <3>2. CASE call'[b] = [call[b] EXCEPT !.into = "file"]
      BY <1>1, <3>2 DEF Call
    <3> QED
      BY <2>1, <3>1, <3>2
  <2>3. call'[a].at = "idle" /\ plain' = plain
    BY <1>4, <1>10 DEF Replace
  <2> QED
    BY <2>2, <2>3 DEF Labels, Label
<1>11. ASSUME NEW c \in Client, ClientDies(c)
       PROVE  Labels'
  BY <1>2, <1>11 DEF ClientDies, Idle, Actor
<1>12. CASE ServerDies
  BY <1>1, <1>12 DEF ServerDies, Idle, Labels, Label
<1>13. CASE Ports \/ UNCHANGED vars
  BY <1>13 DEF Ports, storeVars, vars, Labels, Label
<1> QED
  BY <1>3, <1>6, <1>7, <1>8, <1>9, <1>10, <1>11, <1>12, <1>13
     DEF Next, ChangePreference, ChangeToken, ChangeState, Store

LEMMA ExclusiveStep ==
  ASSUME TypeOK, Labels, Exclusive, [Next]_vars
  PROVE  Exclusive'
<1> USE DEF At
<1>1. call \in [Actor -> Call]
  BY DEF TypeOK, Call
<1>2. ASSUME NEW a \in Actor, NEW r, Goes(a, r), r.at \notin Inside
      PROVE  Exclusive'
  BY <1>1, <1>2 DEF Goes, Exclusive, In
<1>3. ASSUME NEW a \in Actor, NEW r, Goes(a, r), call[a].at \in Inside,
             r.store = call[a].store, r.op = call[a].op
      PROVE  Exclusive'
  BY <1>1, <1>3 DEF Goes, Exclusive, In
<1>4. ASSUME NEW a \in Actor, NEW s \in Store, Begin(a, s)
      PROVE  Exclusive'
  <2>1. PICK k \in Key, v \in Value \union {None} :
          Goes(a, [Idle EXCEPT !.at = "lock", !.store = s, !.key = k, !.value = v,
                               !.op = IF v = None THEN "delete" ELSE "set"])
    BY <1>4 DEF Begin
  <2> QED
    BY <1>2, <2>1 DEF Idle, Inside
<1>5. ASSUME NEW a \in Actor PROVE  Rest(a).at \notin Inside /\ \A o \in {"delete", "clean"} : ToGithub(a, o).at \notin Inside
  BY <1>1 DEF Rest, ToGithub, Call, Inside
<1>6. ASSUME NEW a \in Actor, Enter(a)
      PROVE  Exclusive'
  <2>1. CASE DeletesNothing(a) \/ CannotRead(a)
    BY <1>2, <1>5, <2>1 DEF DeletesNothing, CannotRead
  <2>2. CASE Reads(a)
    <3>1. \A b \in Actor \ {a} : In(b, call[a].store) => call[b].op = "write"
      BY <2>2 DEF Reads, Excluded, In
    <3>2. \A b \in Actor \ {a} : call'[b] = call[b]
      BY <1>1, <2>2 DEF Reads, Goes
    <3>3. call'[a].store = call[a].store
      BY <1>1, <2>2 DEF Reads, Goes, Call
    <3> QED
      BY <3>1, <3>2, <3>3 DEF Exclusive, In
  <2> QED
    BY <1>6, <2>1, <2>2 DEF Enter
<1>7. ASSUME NEW a \in Actor, Truncate(a) \/ Open(a) \/ FillTmp(a)
      PROVE  Exclusive'
  <2>1. call[a].at \in Inside
    BY <1>7 DEF Truncate, Open, FillTmp, Inside
  <2> QED
    BY <1>1, <1>3, <1>7, <2>1 DEF Truncate, Open, FillTmp, Call
<1>8. ASSUME NEW a \in Actor, Fill(a) \/ ReplaceFails(a)
      PROVE  Exclusive'
  BY <1>2, <1>5, <1>8 DEF Fill, ReplaceFails
<1>9. ASSUME NEW a \in Actor, PlainWrite(a)
      PROVE  Exclusive'
  BY <1>1, <1>9 DEF PlainWrite, Goes, Exclusive, In, Call, Idle
<1>10. ASSUME NEW a \in Actor, Replace(a)
       PROVE  Exclusive'
  <2>1. \A b \in Actor \ {a} :
          call'[b] = call[b] \/ call'[b] = [call[b] EXCEPT !.into = "file"]
    BY <1>10 DEF Replace
  <2>2. \A b \in Actor \ {a} :
          call'[b].at = call[b].at /\ call'[b].op = call[b].op /\ call'[b].store = call[b].store
    <3> SUFFICES ASSUME NEW b \in Actor \ {a}
                 PROVE  /\ call'[b].at = call[b].at /\ call'[b].op = call[b].op
                        /\ call'[b].store = call[b].store
      OBVIOUS
    <3>1. call[b] \in Call
      BY <1>1
    <3>2. CASE call'[b] = call[b]
      BY <3>2
    <3>3. CASE call'[b] = [call[b] EXCEPT !.into = "file"]
      BY <3>1, <3>3 DEF Call
    <3> QED BY <2>1, <3>2, <3>3
  <2>3. call'[a].at \notin Inside
    BY <1>5, <1>10 DEF Replace
  <2> QED
    BY <2>2, <2>3 DEF Exclusive, In
<1>11. ASSUME NEW c \in Client, ClientDies(c)
       PROVE  Exclusive'
  BY <1>2, <1>11 DEF ClientDies, Idle, Actor, Inside
<1>12. CASE ServerDies
  BY <1>1, <1>12 DEF ServerDies, Idle, Exclusive, In, Inside
<1>13. CASE Ports \/ UNCHANGED vars
  BY <1>13 DEF Ports, storeVars, vars, Exclusive, In
<1> QED
  BY <1>4, <1>6, <1>7, <1>8, <1>9, <1>10, <1>11, <1>12, <1>13
     DEF Next, ChangePreference, ChangeToken, ChangeState, Store

(* A step of actor a leaves the calls of the others alone, but for the file *)
(* a rename takes from under them.                                         *)
StepOf(a) ==
  \/ ChangePreference(a) \/ ChangeToken(a) \/ ChangeState(a)
  \/ Enter(a) \/ Truncate(a) \/ Fill(a)
  \/ PlainWrite(a) \/ Open(a) \/ FillTmp(a) \/ Replace(a) \/ ReplaceFails(a)

LEMMA Elsewhere ==
  ASSUME TypeOK, NEW a \in Actor, StepOf(a), NEW b \in Actor \ {a}
  PROVE  /\ Replace(a) \/ call'[b] = call[b]
         /\ call'[b].at = call[b].at /\ call'[b].store = call[b].store
         /\ call'[b].op = call[b].op /\ call'[b].key = call[b].key
         /\ call'[b].value = call[b].value /\ call'[b].data = call[b].data
<1>1. call \in [Actor -> Call]
  BY DEF TypeOK, Call
<1>2. ASSUME NEW r, Goes(a, r) PROVE call'[b] = call[b]
  BY <1>1, <1>2 DEF Goes
<1>3. ASSUME NEW s \in Store, Begin(a, s) PROVE call'[b] = call[b]
  BY <1>2, <1>3 DEF Begin
<1>4. ASSUME PlainWrite(a) PROVE call'[b] = call[b]
  BY <1>2, <1>4 DEF PlainWrite
<1>5. ASSUME Enter(a) PROVE call'[b] = call[b]
  BY <1>2, <1>5 DEF Enter, DeletesNothing, Reads, CannotRead
<1>6. ASSUME Truncate(a) \/ Open(a) \/ FillTmp(a) \/ ReplaceFails(a) PROVE call'[b] = call[b]
  BY <1>2, <1>6 DEF Truncate, Open, FillTmp, ReplaceFails
<1>7. ASSUME Fill(a) PROVE call'[b] = call[b]
  BY <1>2, <1>7 DEF Fill
<1>8. CASE Replace(a)
  <2>1. call'[b] = IF call[b].at = "fill" THEN [call[b] EXCEPT !.into = "file"] ELSE call[b]
    BY <1>8 DEF Replace
  <2>2. call[b] \in Call
    BY <1>1
  <2> QED
    BY <1>8, <2>1, <2>2 DEF Call
<1>9. ASSUME call'[b] = call[b] PROVE
         /\ call'[b].at = call[b].at /\ call'[b].store = call[b].store
         /\ call'[b].op = call[b].op /\ call'[b].key = call[b].key
         /\ call'[b].value = call[b].value /\ call'[b].data = call[b].data
  BY <1>9
<1> QED
  BY <1>3, <1>4, <1>5, <1>6, <1>7, <1>8, <1>9
     DEF StepOf, ChangePreference, ChangeToken, ChangeState, Store

(* What the steps make of the call of the actor itself.                    *)
LEMMA Own ==
  ASSUME TypeOK, NEW a \in Actor
  PROVE  /\ \A s \in Store : Begin(a, s) => call'[a].at = "lock" /\ call'[a].store = s
         /\ Truncate(a) => call'[a] = [call[a] EXCEPT !.at = "write"]
         /\ Open(a) => call'[a] = [call[a] EXCEPT !.at = "fill", !.into = "tmp"]
         /\ FillTmp(a) => call'[a] = [call[a] EXCEPT !.at = "replace"]
         /\ Reads(a) => call'[a] = [call[a] EXCEPT
                          !.at = IF call[a].store = "state" THEN "open" ELSE "truncate",
                          !.data = Changed(a)]
         /\ Replace(a) \/ ReplaceFails(a) \/ CannotRead(a) => call'[a].at = "idle"
         /\ Fill(a) => IF GoesOn(a) THEN call'[a] = ToGithub(a, "delete") ELSE call'[a].at = "idle"
         /\ DeletesNothing(a) =>
              IF GoesOn(a) THEN call'[a] = ToGithub(a, "clean") ELSE call'[a].at = "idle"
<1>1. call \in [Actor -> Call]
  BY DEF TypeOK, Call
<1>2. ASSUME NEW r, Goes(a, r) PROVE call'[a] = r
  BY <1>1, <1>2 DEF Goes
<1>3. Rest(a).at = "idle"
  BY <1>1 DEF Rest, Call
<1>4. ASSUME NEW s \in Store, Begin(a, s) PROVE call'[a].at = "lock" /\ call'[a].store = s
  <2>1. PICK k \in Key, v \in Value \union {None} :
          Goes(a, [Idle EXCEPT !.at = "lock", !.store = s, !.key = k, !.value = v,
                               !.op = IF v = None THEN "delete" ELSE "set"])
    BY <1>4 DEF Begin
  <2> QED
    BY <1>2, <2>1 DEF Idle
<1>5. Truncate(a) => call'[a] = [call[a] EXCEPT !.at = "write"]
  BY <1>2 DEF Truncate
<1>6. Open(a) => call'[a] = [call[a] EXCEPT !.at = "fill", !.into = "tmp"]
  BY <1>2 DEF Open
<1>7. FillTmp(a) => call'[a] = [call[a] EXCEPT !.at = "replace"]
  BY <1>2 DEF FillTmp
<1>8. Reads(a) => call'[a] = [call[a] EXCEPT
                    !.at = IF call[a].store = "state" THEN "open" ELSE "truncate",
                    !.data = Changed(a)]
  BY <1>2 DEF Reads
<1>9. Replace(a) \/ ReplaceFails(a) \/ CannotRead(a) => call'[a].at = "idle"
  BY <1>2, <1>3 DEF Replace, ReplaceFails, CannotRead
<1>10. Fill(a) => IF GoesOn(a) THEN call'[a] = ToGithub(a, "delete") ELSE call'[a].at = "idle"
  BY <1>2, <1>3 DEF Fill
<1>11. DeletesNothing(a) => IF GoesOn(a) THEN call'[a] = ToGithub(a, "clean") ELSE call'[a].at = "idle"
  BY <1>2, <1>3 DEF DeletesNothing
<1> QED
  BY <1>4, <1>5, <1>6, <1>7, <1>8, <1>9, <1>10, <1>11

LEMMA FilesInvariant ==
  ASSUME TypeOK, Callers, [Next]_vars
  PROVE  Files'
<1> USE StoresAssumption DEF Files, Callers, At
<1>1. call \in [Actor -> Call] /\ home \in [Store -> File] /\ tmp \in File
  BY DEF TypeOK, Call
<1>2. old' = old
  BY FileStep
<1>3. ASSUME NEW a \in Actor, StepOf(a), In(a, "github")' => call'[a].data[Github] = None
      PROVE  \A b \in Actor : In(b, "github")' => call'[b].data[Github] = None
  <2>1. ASSUME NEW b \in Actor \ {a}, In(b, "github")'
        PROVE  call'[b].data[Github] = None
    <3>1. call'[b].at = call[b].at /\ call'[b].store = call[b].store /\ call'[b].data = call[b].data
      BY <1>3, Elsewhere
    <3> QED
      BY <2>1, <3>1 DEF In
  <2> QED
    BY <1>3, <2>1
<1>4. /\ Torn.is = "torn" /\ Torn.data = Nothing /\ Absent.is = "absent" /\ Absent.data = Nothing
      /\ \A d \in [Key -> Value \union {None}] : Whole(d).is = "whole" /\ Whole(d).data = d
      /\ Nothing[Github] = None
  BY DEF Torn, Absent, Whole, Nothing
<1>5. \A a \in Actor : call[a].store \in Store /\ call[a].data \in [Key -> Value \union {None}]
  BY <1>1 DEF Call
<1>6. ASSUME NEW a \in Actor, NEW s \in Store, Begin(a, s), StepOf(a)
      PROVE  Files'
  BY <1>1, <1>2, <1>3, <1>6, Own DEF Begin, In, Inside
<1>7. ASSUME NEW a \in Actor, Enter(a)
      PROVE  Files'
  <2>1. Labels /\ call[a].at = "lock"
    BY <1>7 DEF Enter
  <2>2. ASSUME Reads(a), call[a].store = "github" PROVE call'[a].data[Github] = None
    <3>1. call[a].key = Github /\ call[a].value = None
      BY <2>1, <2>2 DEF Labels, Label
    <3>2. Contents("github", Place("github")) \in [Key -> Value \union {None}]
      BY <1>1 DEF Contents, TypeOK, File, Store
    <3>3. Changed(a)[Github] = None
      BY <2>2, <3>1, <3>2 DEF Changed
    <3> QED
      BY <1>1, <2>2, <3>3, Own, ZenonT(20) DEF Call
  <2>3. ASSUME Reads(a) PROVE call'[a].store = call[a].store
    <3>1. call'[a] = [call[a] EXCEPT !.at = IF call[a].store = "state" THEN "open" ELSE "truncate",
                                     !.data = Changed(a)]
      BY <2>3, Own
    <3> QED
      BY <1>1, <3>1 DEF Call
  <2>4. \A o \in {"delete", "clean"} : ToGithub(a, o).at = "lock"
    BY <1>1 DEF ToGithub, Call
  <2>5. In(a, "github")' => call'[a].data[Github] = None
    BY <1>7, <2>2, <2>3, <2>4, Own DEF Enter, In, Inside
  <2> QED
    BY <1>2, <1>3, <1>7, <2>5 DEF Enter, StepOf
<1>8. ASSUME NEW a \in Actor, Truncate(a)
      PROVE  Files'
  <2>1. In(a, "github")' => In(a, "github") /\ call'[a].data = call[a].data
    BY <1>1, <1>8, Own DEF Truncate, In, Inside, Call
  <2>2. \A s \in Store : home'[s] = home[s] \/ home'[s] = Torn
    BY <1>1, <1>8 DEF Truncate
  <2> QED
    <3>1. \A b \in Actor : In(b, "github")' => call'[b].data[Github] = None
      BY <1>3, <1>8, <2>1 DEF StepOf
    <3>2. \A s \in Store : home'[s].is # "whole" => home'[s].data = Nothing
      BY <1>4, <2>2
    <3>3. tmp' = tmp
      BY <1>8 DEF Truncate
    <3>4. home'["github"].is # "absent" => home'["github"].data[Github] = None
      BY <1>4, <2>2 DEF Store
    <3> QED
      BY <1>2, <3>1, <3>2, <3>3, <3>4
<1>9. ASSUME NEW a \in Actor, Fill(a)
      PROVE  Files'
  <2>1. ToGithub(a, "delete").at = "lock"
    BY <1>1 DEF ToGithub, Call
  <2>2. ~In(a, "github")'
    BY <1>9, <2>1, Own DEF In, Inside
  <2>3. \A s \in Store : home'[s] = IF s = call[a].store THEN Whole(call[a].data) ELSE home[s]
    BY <1>1, <1>9 DEF Fill
  <2>4. call[a].store = "github" => call[a].data[Github] = None
    BY <1>9 DEF Fill, In, Inside
  <2> QED
    <3>1. \A b \in Actor : In(b, "github")' => call'[b].data[Github] = None
      BY <1>3, <1>9, <2>2 DEF StepOf
    <3>2. \A s \in Store : home'[s].is # "whole" => home'[s].data = Nothing
      BY <1>4, <1>5, <2>3
    <3>3. tmp' = tmp
      BY <1>9 DEF Fill
    <3>4. home'["github"].is # "absent" => home'["github"].data[Github] = None
      BY <1>4, <1>5, <2>3, <2>4 DEF Store
    <3> QED
      BY <1>2, <3>1, <3>2, <3>3, <3>4
<1>10. ASSUME NEW a \in Actor, PlainWrite(a)
       PROVE  Files'
  <2>1. call'[a].store = "state"
    BY <1>1, <1>10 DEF PlainWrite, Goes, Idle
  <2> QED
    BY <1>2, <1>3, <1>10, <2>1 DEF PlainWrite, StepOf, In
<1>11. ASSUME NEW a \in Actor, Open(a) \/ FillTmp(a) \/ Replace(a) \/ ReplaceFails(a)
       PROVE  Files'
  <2>1. In(a, "github")' => In(a, "github") /\ call'[a].data = call[a].data
    BY <1>1, <1>11, Own DEF Open, FillTmp, In, Inside, Call
  <2>2. home' \in {home, [home EXCEPT !["state"] = tmp], [home EXCEPT !["state"] = Whole(call[a].data)]}
    BY <1>11 DEF Open, FillTmp, Replace, ReplaceFails
  <2>4. ASSUME NEW s \in Store
        PROVE  home'[s] = home[s] \/ (s = "state" /\ home'[s] \in {tmp, Whole(call[a].data)})
    <3>1. CASE home' = home
      BY <3>1
    <3>2. ASSUME NEW f, home' = [home EXCEPT !["state"] = f]
          PROVE  home'[s] = home[s] \/ (s = "state" /\ home'[s] = f)
      BY <1>1, <3>2
    <3> QED
      BY <2>2, <3>1, <3>2
  <2>3. tmp' \in {tmp, Torn, Absent, Whole(call[a].data)}
    BY <1>11 DEF Open, FillTmp, Replace, ReplaceFails
  <2> QED
    BY <1>1, <1>2, <1>3, <1>4, <1>5, <1>11, <2>1, <2>3, <2>4 DEF StepOf, Store
<1>12. ASSUME NEW c \in Client, ClientDies(c)
       PROVE  Files'
  BY <1>1, <1>2, <1>12 DEF ClientDies, Goes, Actor, In, Inside, Idle
<1>13. CASE ServerDies
  BY <1>1, <1>2, <1>13 DEF ServerDies, In, Inside, Idle
<1>14. CASE Ports \/ UNCHANGED vars
  BY <1>14 DEF Ports, storeVars, vars, In
<1> QED
  BY <1>6, <1>7, <1>8, <1>9, <1>10, <1>11, <1>12, <1>13, <1>14
     DEF Next, StepOf, ChangePreference, ChangeToken, ChangeState, Store

LEMMA CallersInvariant ==
  ASSUME TypeOK, Callers, [Next]_vars
  PROVE  Callers'
BY LabelsStep, ExclusiveStep, FilesInvariant DEF Callers

-----------------------------------------------------------------------------
(* The state files                                                         *)

LEMMA StateInvariant ==
  ASSUME TypeOK, Callers, StateKept, [Next]_vars
  PROVE  StateKept'
<1> SUFFICES ASSUME ~plain' PROVE StateKept'
  BY DEF StateKept
<1> USE StoresAssumption DEF At
<1>1. call \in [Actor -> Call] /\ home \in [Store -> File] /\ last \in [Store -> [Key -> Value \union {None, Unsure}]]
  BY DEF TypeOK, Call
<1>2. ~plain
  BY DEF Next, Ports, storeVars, ChangePreference, ChangeToken, ChangeState, Begin, Enter, Truncate,
     Fill, PlainWrite, Open, FillTmp, Replace, ReplaceFails, ClientDies, ServerDies, vars
<1>3. /\ home["state"].is # "torn"
      /\ last["state"] = home["state"].data
      /\ \A a \in Actor : In(a, "state") =>
           /\ Held(a, last["state"])
           /\ call[a].at = "fill" => call[a].into = "tmp"
           /\ call[a].at = "replace" => tmp = Whole(call[a].data)
  BY <1>2 DEF StateKept
<1>4. \A a, b \in Actor : In(a, "state") /\ In(b, "state") => a = b
  BY <1>2 DEF Callers, Labels, Label, Exclusive, In, Inside, Store
<1>5. ASSUME home'["state"] = home["state"], last'["state"] = last["state"], tmp' = tmp,
             \A b \in Actor : In(b, "state")' => call'[b] = call[b]
      PROVE  StateKept'
  BY <1>3, <1>5 DEF StateKept, In, Held
<1>6. ASSUME NEW a \in Actor, StepOf(a), In(a, "state")
      PROVE  \A b \in Actor : In(b, "state")' => b = a
  BY <1>4, <1>6, Elsewhere DEF In
<1>7. ASSUME NEW a \in Actor, StepOf(a), ~Replace(a), ~In(a, "state")',
             home'["state"] = home["state"], last'["state"] = last["state"], tmp' = tmp
      PROVE  StateKept'
  <2>1. \A b \in Actor : In(b, "state")' => call'[b] = call[b]
    BY <1>7, Elsewhere
  <2> QED
    BY <1>5, <1>7, <2>1
<1>8. \A k \in Key : \A v : Commits("connections", k, v) => last'["state"] = last["state"]
  BY <1>1 DEF Commits, Store
<1>9. ASSUME NEW a \in Actor PROVE \A o \in {"delete", "clean"} : ToGithub(a, o).store = "github"
  BY <1>1 DEF ToGithub, Call
<1>10. ASSUME NEW a \in Actor, NEW s \in Store, Begin(a, s), StepOf(a), ~Replace(a)
       PROVE  StateKept'
  BY <1>7, <1>10, Own DEF Begin, In, Inside
<1>11. ASSUME NEW a \in Actor, Enter(a), ~Replace(a)
       PROVE  StateKept'
  <2>1. home' = home /\ tmp' = tmp /\ StepOf(a)
    BY <1>11 DEF Enter, StepOf
  <2>2. CASE DeletesNothing(a) \/ CannotRead(a)
    <3>1. last'["state"] = last["state"]
      BY <1>8, <2>2, StoresAssumption DEF DeletesNothing, CannotRead
    <3>2. ~In(a, "state")'
      BY <1>9, <2>2, Own DEF In, Inside
    <3> QED
      BY <1>7, <1>11, <2>1, <3>1, <3>2
  <2>3. CASE Reads(a)
    <3> DEFINE l == IF call[a].store = "state" THEN "open" ELSE "truncate"
    <3>1. call'[a] = [call[a] EXCEPT !.at = l, !.data = Changed(a)] /\ last' = last
      BY <2>3, Own DEF Reads
    <3>2. /\ call'[a].store = call[a].store /\ call'[a].key = call[a].key
          /\ call'[a].value = call[a].value /\ call'[a].data = Changed(a) /\ call'[a].at = l
      BY <1>1, <3>1 DEF Call
    <3>3. CASE call[a].store # "state"
      BY <1>7, <1>11, <2>1, <3>1, <3>2, <3>3 DEF In
    <3>4. CASE call[a].store = "state"
      <4>1. Contents("state", Place("state")) = home["state"].data
        BY DEF Contents, Place, Resolve, Callers, Files, Absent, Store
      <4>2. Held(a, last["state"])'
        BY <1>3, <3>1, <3>2, <3>4, <4>1 DEF Held, Changed
      <4>3. \A b \in Actor \ {a} : ~In(b, "state")
        BY <1>2, <2>3, <3>4 DEF Reads, Excluded, In, Callers, Labels, Label, Inside
      <4>4. \A b \in Actor : In(b, "state")' => b = a
        BY <2>1, <4>3, Elsewhere DEF In
      <4>5. call'[a].at = "open"
        BY <3>2, <3>4
      <4> QED
        BY <1>3, <2>1, <3>1, <4>2, <4>4, <4>5 DEF StateKept
    <3> QED
      BY <3>3, <3>4
  <2> QED
    BY <1>11, <2>2, <2>3 DEF Enter
<1>12. ASSUME NEW a \in Actor, Truncate(a) \/ Fill(a), ~Replace(a)
       PROVE  StateKept'
  <2>1. call[a].store # "state" /\ call[a].store \in Store
    BY <1>1, <1>12 DEF Truncate, Fill, Callers, Labels, Label, Call
  <2>2. home'["state"] = home["state"] /\ tmp' = tmp
    BY <1>1, <1>12, <2>1 DEF Truncate, Fill, Store
  <2>3. last'["state"] = last["state"]
    BY <1>1, <1>8, <1>12, <2>1 DEF Truncate, Fill, Commits, Store
  <2>4. ASSUME Truncate(a) PROVE call'[a].store # "state"
    <3>1. call'[a] = [call[a] EXCEPT !.at = "write"]
      BY <2>4, Own
    <3> QED
      BY <1>1, <2>1, <3>1 DEF Call
  <2>5. ~In(a, "state")'
    BY <1>9, <1>12, <2>4, Own DEF In, Inside
  <2> QED
    BY <1>7, <1>12, <2>2, <2>3, <2>5 DEF StepOf
<1>13. ASSUME NEW a \in Actor, Open(a)
       PROVE  StateKept'
  <2>1. In(a, "state") /\ StepOf(a)
    BY <1>13 DEF Open, In, Inside, Callers, Labels, Label, StepOf
  <2>2. /\ call'[a].store = call[a].store /\ call'[a].key = call[a].key /\ call'[a].value = call[a].value
        /\ call'[a].data = call[a].data /\ call'[a].at = "fill" /\ call'[a].into = "tmp"
    <3>1. call'[a] = [call[a] EXCEPT !.at = "fill", !.into = "tmp"]
      BY <1>13, Own
    <3> QED
      BY <1>1, <3>1 DEF Call
  <2>3. home' = home /\ last' = last
    BY <1>13 DEF Open
  <2> QED
    BY <1>3, <1>6, <2>1, <2>2, <2>3 DEF StateKept, Held
<1>14. ASSUME NEW a \in Actor, FillTmp(a)
       PROVE  StateKept'
  <2>1. In(a, "state") /\ StepOf(a)
    BY <1>14 DEF FillTmp, In, Inside, Callers, Labels, Label, StepOf
  <2>2. /\ call'[a].store = call[a].store /\ call'[a].key = call[a].key /\ call'[a].value = call[a].value
        /\ call'[a].data = call[a].data /\ call'[a].at = "replace"
    <3>1. call'[a] = [call[a] EXCEPT !.at = "replace"]
      BY <1>14, Own
    <3> QED
      BY <1>1, <3>1 DEF Call
  <2>3. home' = home /\ last' = last /\ tmp' = Whole(call[a].data)
    BY <1>3, <1>14, <2>1 DEF FillTmp
  <2> QED
    BY <1>3, <1>6, <2>1, <2>2, <2>3 DEF StateKept, Held
<1>15. ASSUME NEW a \in Actor, Replace(a)
       PROVE  StateKept'
  <2>1. In(a, "state") /\ StepOf(a) /\ call[a].at = "replace"
    BY <1>15 DEF Replace, In, Inside, Callers, Labels, Label, StepOf
  <2>2. call'[a].at = "idle"
    BY <1>15, Own
  <2>3. \A b \in Actor : ~In(b, "state")'
    BY <1>6, <2>1, <2>2 DEF In, Inside
  <2>4. tmp = Whole(call[a].data)
    BY <1>3, <2>1
  <2>5. home'["state"] = Whole(call[a].data)
    BY <1>1, <1>15, <2>4 DEF Replace, Store
  <2>6. last'["state"] = [last["state"] EXCEPT ![call[a].key] = call[a].value]
    BY <1>1, <1>15 DEF Replace, Commits, Store
  <2>7. last'["state"] = call[a].data
    BY <1>3, <2>1, <2>6 DEF Held
  <2> QED
    BY <2>3, <2>5, <2>7 DEF StateKept, Whole
<1>16. ASSUME NEW a \in Actor, ReplaceFails(a), ~Replace(a)
       PROVE  StateKept'
  BY <1>7, <1>16, Own DEF ReplaceFails, StepOf, In, Inside
<1>17. ASSUME NEW c \in Client, ClientDies(c)
       PROVE  StateKept'
  BY <1>1, <1>5, <1>17 DEF ClientDies, Goes, Actor, In, Inside, Idle
<1>18. CASE ServerDies
  BY <1>1, <1>5, <1>18 DEF ServerDies, In, Inside, Idle
<1>19. CASE Ports \/ UNCHANGED vars
  BY <1>5, <1>19 DEF Ports, storeVars, vars
<1>20. ASSUME NEW a \in Actor PROVE ~PlainWrite(a)
  BY DEF PlainWrite
<1> QED
  BY <1>10, <1>11, <1>12, <1>13, <1>14, <1>15, <1>16, <1>17, <1>18, <1>19, <1>20
     DEF Next, StepOf, ChangePreference, ChangeToken, ChangeState, Store

-----------------------------------------------------------------------------
(* The preferences                                                         *)

LEMMA PreferencesInvariant ==
  ASSUME TypeOK, Callers, PreferencesKept, [Next]_vars
  PROVE  PreferencesKept'
<1> SUFFICES ASSUME HomeHas PROVE PreferencesKept'
  BY DEF PreferencesKept
<1> USE StoresAssumption DEF At
<1>1. call \in [Actor -> Call] /\ home \in [Store -> File] /\ last \in [Store -> [Key -> Value \union {None, Unsure}]]
  BY DEF TypeOK, Call
<1>2. "preferences" \in Store
  BY DEF Store
<1>3. /\ from = "home" /\ home["preferences"].is # "absent"
      /\ "preferences" \notin lost =>
           /\ ~Writes("preferences") => home["preferences"].data = last["preferences"]
           /\ \A a \in Actor : In(a, "preferences") => Held(a, last["preferences"])
  BY DEF PreferencesKept
<1>4. lost \subseteq lost'
  BY DEF Next, Ports, storeVars, ChangePreference, ChangeToken, ChangeState, Begin, Enter, Truncate,
     Fill, PlainWrite, Open, FillTmp, Replace, ReplaceFails, ClientDies, ServerDies, vars
<1>5. \A a, b \in Actor : In(a, "preferences") /\ In(b, "preferences") => a = b
  BY <1>2 DEF Callers, Labels, Label, Exclusive, In, Inside
<1>6. ASSUME home'["preferences"] = home["preferences"], last'["preferences"] = last["preferences"],
             from' = from,
             \A b \in Actor : In(b, "preferences")' => call'[b] = call[b],
             \A b \in Actor : In(b, "preferences") /\ At(b, "write") => call'[b] = call[b]
      PROVE  PreferencesKept'
  <2>1. Writes("preferences")' <=> Writes("preferences")
    BY <1>6 DEF Writes, In, Inside
  <2> QED
    BY <1>3, <1>4, <1>6, <2>1 DEF PreferencesKept, In, Held
<1>7. ASSUME NEW a \in Actor, StepOf(a), ~In(a, "preferences"), ~In(a, "preferences")',
             home'["preferences"] = home["preferences"], last'["preferences"] = last["preferences"],
             from' = from
      PROVE  PreferencesKept'
  <2>1. /\ \A b \in Actor \ {a} : /\ call'[b].at = call[b].at /\ call'[b].store = call[b].store
                                  /\ call'[b].key = call[b].key /\ call'[b].value = call[b].value
                                  /\ call'[b].data = call[b].data
    BY <1>7, Elsewhere
  <2>2. Writes("preferences")' <=> Writes("preferences")
    BY <1>7, <2>1 DEF Writes, In, Inside
  <2>3. \A b \in Actor : In(b, "preferences")' => In(b, "preferences") /\ b # a
    BY <1>7, <2>1 DEF In
  <2>4. ASSUME NEW b \in Actor, In(b, "preferences")', Held(b, last["preferences"])
        PROVE  Held(b, last["preferences"])'
    BY <1>7, <2>1, <2>3, <2>4 DEF Held
  <2> QED
    BY <1>3, <1>4, <1>7, <2>2, <2>3, <2>4 DEF PreferencesKept
<1>8. ASSUME NEW a \in Actor, StepOf(a), In(a, "preferences")
      PROVE  \A b \in Actor \ {a} : ~In(b, "preferences")'
  BY <1>5, <1>8, Elsewhere DEF In
<1>9. \A s \in Store \ {"preferences"}, k \in Key : \A v :
        Commits(s, k, v) => last'["preferences"] = last["preferences"]
  BY <1>1, <1>2 DEF Commits
<1>10. ASSUME NEW a \in Actor PROVE \A o \in {"delete", "clean"} : ToGithub(a, o).store = "github"
  BY <1>1 DEF ToGithub, Call
<1>11. ASSUME NEW a \in Actor, NEW s \in Store, Begin(a, s), StepOf(a)
       PROVE  PreferencesKept'
  BY <1>7, <1>11, Own DEF Begin, In, Inside
<1>12. ASSUME NEW a \in Actor, Enter(a)
       PROVE  PreferencesKept'
  <2>1. home' = home /\ from' = from /\ lost' = lost /\ StepOf(a) /\ ~In(a, "preferences")
    BY <1>12 DEF Enter, StepOf, In, Inside
  <2>2. CASE DeletesNothing(a) \/ CannotRead(a)
    <3>1. last'["preferences"] = last["preferences"]
      BY <1>9, <2>2 DEF DeletesNothing, CannotRead, Store
    <3>2. ~In(a, "preferences")'
      BY <1>10, <2>2, Own DEF In, Inside
    <3> QED
      BY <1>7, <2>1, <3>1, <3>2
  <2>3. CASE Reads(a)
    <3> DEFINE l == IF call[a].store = "state" THEN "open" ELSE "truncate"
    <3>1. call'[a] = [call[a] EXCEPT !.at = l, !.data = Changed(a)] /\ last' = last
      BY <2>3, Own DEF Reads
    <3>2. /\ call'[a].store = call[a].store /\ call'[a].key = call[a].key
          /\ call'[a].value = call[a].value /\ call'[a].data = Changed(a) /\ call'[a].at = l
      BY <1>1, <3>1 DEF Call
    <3>3. CASE call[a].store # "preferences"
      BY <1>7, <2>1, <3>1, <3>2, <3>3 DEF In
    <3>4. CASE call[a].store = "preferences"
      <4>1. \A b \in Actor \ {a} : ~In(b, "preferences")
        BY <2>3, <3>4 DEF Reads, Excluded, In, Callers, Labels, Label, Inside
      <4>2. ~Writes("preferences")
        BY <2>1, <4>1 DEF Writes, In, Inside
      <4>3. \A b \in Actor \ {a} : ~In(b, "preferences")'
        BY <2>1, <4>1, Elsewhere DEF In
      <4>4. Changed(a) = [home["preferences"].data EXCEPT ![call[a].key] = call[a].value]
        BY <1>3, <3>4 DEF Changed, Contents, Place
      <4>5. "preferences" \notin lost => Held(a, last["preferences"])'
        BY <1>3, <3>1, <3>2, <4>2, <4>4 DEF Held
      <4> QED
        BY <1>3, <2>1, <3>1, <4>2, <4>3, <4>5 DEF PreferencesKept
    <3> QED
      BY <3>3, <3>4
  <2> QED
    BY <1>12, <2>2, <2>3 DEF Enter
<1>13. ASSUME NEW a \in Actor, Truncate(a)
       PROVE  PreferencesKept'
  <2>1. call'[a] = [call[a] EXCEPT !.at = "write"] /\ last' = last /\ from' = from /\ lost' = lost
    BY <1>13, Own DEF Truncate
  <2>2. /\ call'[a].at = "write" /\ call'[a].store = call[a].store /\ call'[a].key = call[a].key
        /\ call'[a].value = call[a].value /\ call'[a].data = call[a].data
    BY <1>1, <2>1 DEF Call
  <2>3. CASE call[a].store # "preferences"
    <3>1. home'["preferences"] = home["preferences"]
      BY <1>1, <1>2, <1>13, <2>3 DEF Truncate
    <3> QED
      BY <1>7, <1>13, <2>1, <2>2, <2>3, <3>1 DEF In, StepOf
  <2>4. CASE call[a].store = "preferences"
    <3>1. In(a, "preferences")
      BY <1>13, <2>4 DEF Truncate, In, Inside
    <3>2. Writes("preferences")'
      BY <2>2, <2>4 DEF Writes
    <3>3. home'["preferences"].is # "absent"
      BY <1>1, <1>2, <1>13, <2>4 DEF Truncate, Torn
    <3>4. "preferences" \notin lost => Held(a, last["preferences"])'
      BY <1>3, <2>1, <2>2, <3>1 DEF Held
    <3> QED
      BY <1>3, <1>8, <1>13, <2>1, <3>1, <3>2, <3>3, <3>4 DEF PreferencesKept, StepOf
  <2> QED
    BY <2>3, <2>4
<1>14. ASSUME NEW a \in Actor, Fill(a)
       PROVE  PreferencesKept'
  <2>1. ~In(a, "preferences")'
    BY <1>10, <1>14, Own DEF In, Inside
  <2>2. from' = from /\ lost' = lost
    BY <1>14 DEF Fill
  <2>3. CASE call[a].store # "preferences"
    <3>1. home'["preferences"] = home["preferences"]
      BY <1>1, <1>2, <1>14, <2>3 DEF Fill
    <3>2. last'["preferences"] = last["preferences"]
      BY <1>1, <1>2, <1>14, <2>3 DEF Fill, Commits
    <3> QED
      BY <1>7, <1>14, <2>1, <2>2, <2>3, <3>1, <3>2 DEF In, StepOf
  <2>4. CASE call[a].store = "preferences"
    <3>1. In(a, "preferences")
      BY <1>14, <2>4 DEF Fill, In, Inside
    <3>2. home'["preferences"] = Whole(call[a].data)
      BY <1>1, <1>2, <1>14, <2>4 DEF Fill
    <3>3. last'["preferences"] = [last["preferences"] EXCEPT ![call[a].key] = call[a].value]
      BY <1>1, <1>2, <1>14, <2>4 DEF Fill, GoesOn, Commits
    <3>4. "preferences" \notin lost => home'["preferences"].data = last'["preferences"]
      BY <1>3, <3>1, <3>2, <3>3 DEF Held, Whole
    <3>5. \A b \in Actor : ~In(b, "preferences")'
      BY <1>8, <1>14, <2>1, <3>1 DEF StepOf
    <3> QED
      BY <1>3, <2>2, <3>2, <3>4, <3>5 DEF PreferencesKept, Whole
  <2> QED
    BY <2>3, <2>4
<1>15. ASSUME NEW a \in Actor, PlainWrite(a)
       PROVE  PreferencesKept'
  <2>1. call'[a].store = "state" /\ call[a].at = "idle"
    BY <1>1, <1>15 DEF PlainWrite, Goes, Idle
  <2> QED
    BY <1>7, <1>15, <2>1 DEF PlainWrite, StepOf, In, Inside
<1>16. ASSUME NEW a \in Actor, Open(a) \/ FillTmp(a) \/ Replace(a) \/ ReplaceFails(a)
       PROVE  PreferencesKept'
  <2>1. call[a].store = "state"
    BY <1>16 DEF Open, FillTmp, Replace, ReplaceFails, Callers, Labels, Label
  <2>2. call'[a].store = "state" \/ call'[a].at = "idle"
    <3>1. ASSUME NEW l \in Inside PROVE [call[a] EXCEPT !.at = l].store = "state"
                                        /\ [call[a] EXCEPT !.at = l, !.into = "tmp"].store = "state"
      BY <1>1, <2>1 DEF Call
    <3> QED
      BY <1>16, <3>1, Own DEF Inside
  <2>3. from' = from
    BY <1>16 DEF Open, FillTmp, Replace, ReplaceFails
  <2>4. home'["preferences"] = home["preferences"]
    BY <1>1, <1>2, <1>16 DEF Open, FillTmp, Replace, ReplaceFails
  <2>5. last'["preferences"] = last["preferences"]
    BY <1>1, <1>2, <1>16 DEF Open, FillTmp, Replace, ReplaceFails, Commits
  <2> QED
    BY <1>7, <1>16, <2>1, <2>2, <2>3, <2>4, <2>5 DEF StepOf, In, Inside
<1>17. ASSUME NEW c \in Client, ClientDies(c)
       PROVE  PreferencesKept'
  <2>1. c \notin Thread /\ c \in Actor
    BY DEF Actor
  <2>2. ~In(c, "preferences")
    BY <1>17, <2>1 DEF ClientDies, Callers, Labels, Label, In, Inside
  <2>3. \A b \in Actor : call'[b] = IF b = c THEN Idle ELSE call[b]
    BY <1>1, <1>17, <2>1 DEF ClientDies, Goes
  <2>4. home' = home /\ last' = last /\ from' = from
    BY <1>17 DEF ClientDies
  <2> QED
    BY <1>6, <2>2, <2>3, <2>4 DEF In, Inside, Idle
<1>18. CASE ServerDies
  <2>1. from' = "home" /\ home' = home /\ last' = last
    BY <1>3, <1>18 DEF ServerDies, Resolve
  <2>2. \A b \in Actor : In(b, "preferences") => b \in Thread
    BY DEF Callers, Labels, Label, In, Inside
  <2>3. \A b \in Actor : ~In(b, "preferences")'
    BY <1>18, <2>2 DEF ServerDies, In, Inside, Idle
  <2>4. Writes("preferences") => "preferences" \in lost'
    BY <1>18, <2>2 DEF ServerDies, LeftTorn, Writes, In, Inside
  <2> QED
    BY <1>3, <1>4, <2>1, <2>3, <2>4 DEF PreferencesKept
<1>19. CASE Ports \/ UNCHANGED vars
  BY <1>6, <1>19 DEF Ports, storeVars, vars
<1> QED
  BY <1>11, <1>12, <1>13, <1>14, <1>15, <1>16, <1>17, <1>18, <1>19
     DEF Next, StepOf, ChangePreference, ChangeToken, ChangeState, Store

-----------------------------------------------------------------------------
(* The connections and the older github file                               *)

(* What a call has to do with the connections.                             *)
Touches(a) == In(a, "connections") \/ (call[a].store = "github" /\ ~At(a, "idle"))

LEMMA ConnectionsInvariant ==
  ASSUME TypeOK, Callers, ConnectionsKept, [Next]_vars
  PROVE  ConnectionsKept'
<1> SUFFICES ASSUME "connections" \notin lost'
             PROVE  \E d \in [Key -> Value \union {None}] : Means(d)'
  BY DEF ConnectionsKept
<1> USE StoresAssumption DEF At
<1>1. /\ call \in [Actor -> Call] /\ home \in [Store -> File] /\ old \in [Store -> File]
      /\ last \in [Store -> [Key -> Value \union {None, Unsure}]]
  BY DEF TypeOK, Call
<1>2. "connections" \in Store /\ "github" \in Store
  BY DEF Store
<1>3. old' = old
  BY FileStep
<1>4. "connections" \notin lost
  BY DEF Next, Ports, storeVars, ChangePreference, ChangeToken, ChangeState, Begin, Enter, Truncate,
     Fill, PlainWrite, Open, FillTmp, Replace, ReplaceFails, ClientDies, ServerDies, vars
<1>5. PICK d \in [Key -> Value \union {None}] : Means(d)
  BY <1>4 DEF ConnectionsKept
<1>6. \A a, b \in Actor : In(a, "connections") /\ In(b, "connections") => a = b
  BY <1>2 DEF Callers, Labels, Label, Exclusive, In, Inside
<1>7. home'["connections"] = home["connections"] => Connections' = Connections
  BY <1>3 DEF Connections, Contents, Place
<1>8. home'["github"] = home["github"] => GithubToken' = GithubToken
  BY <1>3 DEF GithubToken, Contents, Place
<1>9. ASSUME NEW a \in Actor, StepOf(a), NEW b \in Actor \ {a}
      PROVE  /\ In(b, "connections")' <=> In(b, "connections")
             /\ \A e : Held(b, e)' <=> Held(b, e)
             /\ call'[b].at = call[b].at /\ call'[b].store = call[b].store
  <2>1. /\ call'[b].at = call[b].at /\ call'[b].store = call[b].store
        /\ call'[b].key = call[b].key /\ call'[b].value = call[b].value
        /\ call'[b].data = call[b].data
    BY <1>9, Elsewhere
  <2> QED
    BY <2>1 DEF In, Held
<1>10. ASSUME NEW a \in Actor, StepOf(a), In(a, "connections")
       PROVE  \A b \in Actor \ {a} : ~In(b, "connections")'
  BY <1>6, <1>9, <1>10
(* Steps that have nothing to do with the connections.                     *)
<1>11. ASSUME NEW a \in Actor, StepOf(a), ~Touches(a), ~Touches(a)',
              home'["connections"] = home["connections"], home'["github"] = home["github"],
              last'["connections"] = last["connections"]
       PROVE  Means(d)'
  <2>1. Writes("connections")' <=> Writes("connections")
    BY <1>9, <1>11 DEF Writes, Touches, In, Inside
  <2>2. Deleting' <=> Deleting
    BY <1>9, <1>11 DEF Deleting, Touches
  <2>3. \A b \in Actor : In(b, "connections")' => Held(b, d)'
    BY <1>5, <1>9, <1>11 DEF Means, Touches
  <2> QED
    BY <1>5, <1>7, <1>8, <1>11, <2>1, <2>2, <2>3 DEF Means
<1>12. \A s \in Store \ {"connections"}, k \in Key : \A v :
         Commits(s, k, v) => last'["connections"] = last["connections"]
  BY <1>1, <1>2 DEF Commits
<1>13. \A k \in Key : \A v : Commits("connections", k, v) =>
         last'["connections"] = [last["connections"] EXCEPT ![k] = v]
  BY <1>1, <1>2 DEF Commits
<1>14. ASSUME NEW a \in Actor, NEW o \in {"delete", "clean"}
       PROVE  ToGithub(a, o).store = "github" /\ ToGithub(a, o).at = "lock"
  BY <1>1 DEF ToGithub, Call
<1>15. ASSUME NEW a \in Actor
       PROVE  /\ call[a].key \in Key /\ call[a].value \in Value \union {None} /\ call[a].store \in Store
              /\ call[a].data \in [Key -> Value \union {None}]
  BY <1>1 DEF Call
<1>16. ASSUME NEW a \in Actor, NEW s \in Store \ {"github"}, Begin(a, s), StepOf(a)
       PROVE  Means(d)'
  <2>1. call'[a].at = "lock" /\ call'[a].store = s /\ call[a].at = "idle"
    BY <1>16, Own DEF Begin
  <2> QED
    BY <1>11, <1>16, <2>1 DEF Begin, Touches, In, Inside
<1>17. ASSUME NEW a \in Actor, Enter(a), Reads(a)
       PROVE  Means(d)'
  <2> DEFINE l == IF call[a].store = "state" THEN "open" ELSE "truncate"
  <2>1. call'[a] = [call[a] EXCEPT !.at = l, !.data = Changed(a)]
    BY <1>17, Own
  <2>2. /\ call'[a].store = call[a].store /\ call'[a].key = call[a].key
        /\ call'[a].value = call[a].value /\ call'[a].data = Changed(a) /\ call'[a].at = l
    BY <1>1, <2>1 DEF Call
  <2>3. home' = home /\ last' = last /\ StepOf(a) /\ call[a].at = "lock"
    BY <1>17 DEF Enter, Reads, StepOf
  <2>4. CASE call[a].store \notin {"connections", "github"}
    BY <1>11, <2>2, <2>3, <2>4 DEF Touches, In
  <2>5. CASE call[a].store = "connections"
    <3>1. \A b \in Actor \ {a} : ~In(b, "connections")
      BY <1>17, <2>5 DEF Reads, Excluded, In, Callers, Labels, Label, Inside
    <3>2. ~Writes("connections")
      BY <2>3, <3>1 DEF Writes, In, Inside
    <3>3. Changed(a) = [d EXCEPT ![call[a].key] = call[a].value]
      BY <1>5, <2>5, <3>2 DEF Means, Connections, Changed
    <3>4. Held(a, d)'
      BY <2>2, <3>3 DEF Held
    <3>5. \A b \in Actor : In(b, "connections")' => Held(b, d)'
      BY <1>9, <2>3, <3>1, <3>4
    <3>6. Deleting' <=> Deleting
      BY <1>9, <2>2, <2>3, <2>5 DEF Deleting
    <3> QED
      BY <1>5, <1>7, <1>8, <2>3, <3>2, <3>5, <3>6 DEF Means
  <2>6. CASE call[a].store = "github"
    <3>1. Deleting /\ Deleting'
      BY <2>2, <2>3, <2>6 DEF Deleting
    <3>2. Writes("connections")' <=> Writes("connections")
      BY <1>9, <2>2, <2>3, <2>6 DEF Writes
    <3>3. \A b \in Actor : In(b, "connections")' => Held(b, d)'
      BY <1>5, <1>9, <2>2, <2>3, <2>6 DEF Means, In
    <3> QED
      BY <1>5, <1>7, <1>8, <2>3, <3>1, <3>2, <3>3 DEF Means
  <2> QED
    BY <2>4, <2>5, <2>6
<1>18. ASSUME NEW a \in Actor, Enter(a), DeletesNothing(a)
       PROVE  Means(d)'
  <2>1. home' = home /\ StepOf(a) /\ call[a].at = "lock" /\ call[a].store # "state"
    BY <1>18 DEF Enter, DeletesNothing, Needless, StepOf
  <2>2. ~In(a, "connections")'
    BY <1>14, <1>18, Own DEF In, Inside
  <2>3. \A b \in Actor : In(b, "connections")' => Held(b, d)'
    BY <1>5, <1>9, <2>1, <2>2 DEF Means
  <2>4. Writes("connections")' <=> Writes("connections")
    BY <1>9, <2>1, <2>2 DEF Writes, In, Inside
  <2>5. CASE GoesOn(a)
    <3>1. call[a].store = "connections" /\ call[a].key = Github
      BY <2>5 DEF GoesOn
    <3>2. \A b \in Actor \ {a} : ~In(b, "connections")
      BY <1>18, <3>1 DEF DeletesNothing, Excluded, In, Callers, Labels, Label, Inside
    <3>3. Connections = d
      BY <1>5, <2>1, <3>2 DEF Means, Writes, In, Inside
    <3>4. d[Github] = None
      BY <1>18, <3>1, <3>3 DEF DeletesNothing, Needless, Connections
    <3>5. Deleting'
      BY <1>14, <1>18, <2>5, Own DEF Deleting
    <3>6. last'["connections"] = [last["connections"] EXCEPT ![Github] = Unsure]
      BY <1>13, <1>18, <2>5 DEF DeletesNothing
    <3> QED
      BY <1>1, <1>2, <1>5, <1>7, <2>1, <2>3, <2>4, <3>4, <3>5, <3>6 DEF Means
  <2>6. CASE ~GoesOn(a)
    <3>1. call'[a].at = "idle"
      BY <1>18, <2>6, Own
    <3>2. CASE call[a].store # "github"
      BY <1>11, <1>18, <2>1, <2>2, <2>6, <3>1, <3>2 DEF DeletesNothing, Touches, In, Inside
    <3>3. CASE call[a].store = "github"
      <4>1. call[a].key = Github
        BY <2>1, <3>3 DEF Callers, Labels, Label
      <4>2. GithubToken = None
        BY <1>18, <3>3, <4>1 DEF DeletesNothing, Needless, GithubToken
      <4>3. CASE last["connections"][Github] = Unsure
        <5>1. last'["connections"] = [last["connections"] EXCEPT ![Github] = None]
          BY <1>13, <1>18, <2>6, <3>3, <4>3 DEF DeletesNothing
        <5> QED
          BY <1>1, <1>2, <1>5, <1>7, <1>8, <2>1, <2>3, <2>4, <4>2, <4>3, <5>1 DEF Means
      <4>4. CASE last["connections"][Github] # Unsure
        <5>1. last' = last
          BY <1>18, <2>6, <3>3, <4>4 DEF DeletesNothing
        <5> QED
          BY <1>5, <1>7, <1>8, <2>1, <2>3, <2>4, <4>2, <4>4, <5>1 DEF Means
      <4> QED
        BY <4>3, <4>4
    <3> QED
      BY <3>2, <3>3
  <2> QED
    BY <2>5, <2>6
<1>19. ASSUME NEW a \in Actor, Enter(a), CannotRead(a)
       PROVE  Means(d)'
  BY <1>11, <1>19, Own DEF Enter, CannotRead, StepOf, Touches, In, Inside
<1>20. ASSUME NEW a \in Actor, Truncate(a)
       PROVE  Means(d)'
  <2>1. call'[a] = [call[a] EXCEPT !.at = "write"] /\ last' = last /\ StepOf(a) /\ call[a].at = "truncate"
    BY <1>20, Own DEF Truncate, StepOf
  <2>2. /\ call'[a].at = "write" /\ call'[a].store = call[a].store /\ call'[a].key = call[a].key
        /\ call'[a].value = call[a].value /\ call'[a].data = call[a].data
    BY <1>1, <2>1 DEF Call
  <2>3. \A s \in Store : home'[s] = IF s = call[a].store THEN Torn ELSE home[s]
    BY <1>1, <1>20 DEF Truncate
  <2>4. \A b \in Actor : In(b, "connections")' => Held(b, d)'
    <3>1. In(a, "connections")' => In(a, "connections")
      BY <2>1, <2>2 DEF In, Inside
    <3>2. Held(a, d) => Held(a, d)'
      BY <2>2 DEF Held
    <3>3. \A b \in Actor \ {a} : In(b, "connections")' => Held(b, d)'
      BY <1>5, <1>9, <2>1 DEF Means
    <3> QED
      BY <1>5, <3>1, <3>2, <3>3 DEF Means
  <2>5. Deleting' <=> Deleting
    <3>1. \A b \in Actor : call'[b].store = call[b].store /\ (call'[b].at = "idle" <=> call[b].at = "idle")
      BY <1>9, <2>1, <2>2
    <3> QED
      BY <3>1 DEF Deleting
  <2>6. CASE call[a].store = "connections"
    <3>1. Writes("connections")'
      BY <2>2, <2>6 DEF Writes
    <3>2. GithubToken' = GithubToken
      BY <1>2, <1>8, <2>3, <2>6
    <3> QED
      BY <1>5, <2>1, <2>4, <2>5, <3>1, <3>2 DEF Means
  <2>7. CASE call[a].store # "connections"
    <3>1. Writes("connections")' <=> Writes("connections")
      BY <1>9, <2>1, <2>2, <2>7 DEF Writes
    <3>2. Connections' = Connections
      BY <1>2, <1>7, <2>3, <2>7
    <3>3. GithubToken' = GithubToken \/ (Deleting /\ GithubToken' = None)
      <4>1. CASE call[a].store = "github"
        <5>1. home'["github"] = Torn
          BY <1>2, <2>3, <4>1
        <5>2. GithubToken' = None
          BY <5>1 DEF GithubToken, Contents, Place, Resolve, Torn, Nothing
        <5> QED
          BY <2>1, <4>1, <5>2 DEF Deleting
      <4>2. CASE call[a].store # "github"
        BY <1>2, <1>8, <2>3, <4>2
      <4> QED
        BY <4>1, <4>2
    <3> QED
      BY <1>5, <2>1, <2>4, <2>5, <3>1, <3>2, <3>3 DEF Means
  <2> QED
    BY <2>6, <2>7
<1>21. ASSUME NEW a \in Actor, Fill(a), call[a].store # "connections"
       PROVE  Means(d)'
  <2>1. StepOf(a) /\ call[a].at = "write" /\ ~GoesOn(a)
    BY <1>21 DEF Fill, StepOf, GoesOn
  <2>2. call'[a].at = "idle"
    BY <1>21, <2>1, Own
  <2>3. \A s \in Store : home'[s] = IF s = call[a].store THEN Whole(call[a].data) ELSE home[s]
    BY <1>1, <1>21 DEF Fill
  <2>4. CASE call[a].store # "github"
    <3>1. last'["connections"] = last["connections"]
      BY <1>12, <1>15, <1>21, <2>1, <2>4 DEF Fill
    <3> QED
      BY <1>2, <1>11, <1>21, <2>1, <2>2, <2>3, <2>4, <3>1 DEF Touches, In, Inside
  <2>5. CASE call[a].store = "github"
    <3>1. call[a].data[Github] = None
      BY <2>1, <2>5 DEF Callers, Files, In, Inside
    <3>2. GithubToken' = None
      BY <1>2, <2>3, <2>5, <3>1 DEF GithubToken, Contents, Place, Resolve, Whole
    <3>3. Connections' = Connections
      BY <1>2, <1>7, <2>3, <2>5
    <3>4. \A b \in Actor : In(b, "connections")' => Held(b, d)'
      BY <1>5, <1>9, <2>1, <2>2 DEF Means, In, Inside
    <3>5. Writes("connections")' <=> Writes("connections")
      BY <1>9, <2>1, <2>2, <2>5 DEF Writes
    <3>6. Deleting
      BY <2>1, <2>5 DEF Deleting
    <3>7. CASE last["connections"][Github] = Unsure
      <4>1. last'["connections"] = [last["connections"] EXCEPT ![Github] = None]
        BY <1>13, <1>21, <2>1, <2>5, <3>7 DEF Fill
      <4> QED
        BY <1>1, <1>2, <1>5, <3>2, <3>3, <3>4, <3>5, <3>7, <4>1 DEF Means
    <3>8. CASE last["connections"][Github] # Unsure
      <4>1. last' = last
        BY <1>21, <2>1, <2>5, <3>8 DEF Fill
      <4> QED
        BY <1>5, <3>2, <3>3, <3>4, <3>5, <3>6, <3>8, <4>1 DEF Means
    <3> QED
      BY <3>7, <3>8
  <2> QED
    BY <2>4, <2>5
<1>22. ASSUME NEW a \in Actor, Fill(a), call[a].store = "connections"
       PROVE  \E e \in [Key -> Value \union {None}] : Means(e)'
  <2>0. PICK e \in [Key -> Value \union {None}] : e = call[a].data
    BY <1>15
  <2>1. StepOf(a) /\ In(a, "connections") /\ call[a].at = "write"
    BY <1>22 DEF Fill, StepOf, In, Inside
  <2>2. e = [d EXCEPT ![call[a].key] = call[a].value]
    BY <1>5, <2>0, <2>1 DEF Means, Held
  <2>3. \A b \in Actor : ~In(b, "connections")'
    <3>1. ~In(a, "connections")'
      BY <1>14, <1>22, Own DEF In, Inside
    <3> QED
      BY <1>10, <2>1, <3>1
  <2>4. home'["connections"] = Whole(e) /\ home'["github"] = home["github"]
    BY <1>1, <1>2, <1>22, <2>0 DEF Fill
  <2>5. Connections' = e
    BY <2>4 DEF Connections, Contents, Place, Resolve, Whole
  <2>6. GithubToken' = GithubToken
    BY <1>8, <2>4
  <2>7. Label(a, call[a])
    BY <2>1 DEF Callers, Labels
  <2>8. CASE GoesOn(a)
    <3>1. call[a].key = Github /\ call[a].value = None
      BY <2>7, <2>8 DEF GoesOn, Label
    <3>2. last'["connections"] = [last["connections"] EXCEPT ![Github] = Unsure]
      BY <1>13, <1>22, <2>8 DEF Fill
    <3>3. Deleting'
      BY <1>14, <1>22, <2>8, Own DEF Deleting
    <3> QED
      BY <1>1, <1>2, <1>5, <2>2, <2>3, <2>5, <3>1, <3>2, <3>3 DEF Means
  <2>9. CASE ~GoesOn(a)
    <3>1. last'["connections"] = [last["connections"] EXCEPT ![call[a].key] = call[a].value]
      BY <1>13, <1>15, <1>22, <2>9 DEF Fill
    <3>2. CASE call[a].key = Github
      <4>1. call[a].op = "set"
        BY <1>1, <1>22, <2>7, <2>9, <3>2 DEF GoesOn, Label, Call
      <4>2. call[a].value # None /\ call[a].value # Unsure
        BY <1>15, <2>7, <4>1 DEF Label
      <4>3. e[Github] = call[a].value /\ last'["connections"][Github] = call[a].value
        BY <1>1, <1>2, <1>5, <2>2, <3>1, <3>2
      <4>4. \A k \in Key \ {Github} : last'["connections"][k] = e[k]
        BY <1>1, <1>2, <1>5, <2>2, <3>1, <3>2 DEF Means
      <4> QED
        BY <2>3, <2>5, <4>2, <4>3, <4>4 DEF Means
    <3>3. CASE call[a].key # Github
      <4>1. e[Github] = d[Github] /\ last'["connections"][Github] = last["connections"][Github]
        BY <1>1, <1>2, <2>2, <3>1, <3>3
      <4>2. \A k \in Key \ {Github} : last'["connections"][k] = e[k]
        BY <1>1, <1>2, <1>5, <2>2, <3>1, <3>3 DEF Means
      <4>3. call'[a].at = "idle"
        BY <1>22, <2>9, Own
      <4>4. Deleting' <=> Deleting
        BY <1>9, <1>22, <2>1, <4>3 DEF Deleting
      <4> QED
        BY <1>5, <2>3, <2>5, <2>6, <4>1, <4>2, <4>4 DEF Means
    <3> QED
      BY <3>2, <3>3
  <2> QED
    BY <2>8, <2>9
<1>23. ASSUME NEW a \in Actor, PlainWrite(a)
       PROVE  Means(d)'
  <2>1. call'[a].store = "state" /\ call[a].at = "idle"
    BY <1>1, <1>23 DEF PlainWrite, Goes, Idle
  <2> QED
    BY <1>11, <1>23, <2>1 DEF PlainWrite, StepOf, Touches, In, Inside
<1>24. ASSUME NEW a \in Actor, Open(a) \/ FillTmp(a) \/ Replace(a) \/ ReplaceFails(a)
       PROVE  Means(d)'
  <2>1. call[a].store = "state"
    BY <1>24 DEF Open, FillTmp, Replace, ReplaceFails, Callers, Labels, Label
  <2>2. call'[a].store = "state" \/ call'[a].at = "idle"
    <3>1. ASSUME NEW l \in Inside PROVE [call[a] EXCEPT !.at = l].store = "state"
                                        /\ [call[a] EXCEPT !.at = l, !.into = "tmp"].store = "state"
      BY <1>1, <2>1 DEF Call
    <3> QED
      BY <1>24, <3>1, Own DEF Inside
  <2>3. home'["connections"] = home["connections"] /\ home'["github"] = home["github"]
    BY <1>1, <1>2, <1>24 DEF Open, FillTmp, Replace, ReplaceFails
  <2>4. last'["connections"] = last["connections"]
    BY <1>1, <1>2, <1>24 DEF Open, FillTmp, Replace, ReplaceFails, Commits
  <2> QED
    BY <1>11, <1>24, <2>1, <2>2, <2>3, <2>4 DEF StepOf, Touches, In, Inside
<1>25. ASSUME NEW c \in Client, ClientDies(c)
       PROVE  Means(d)'
  <2>1. c \notin Thread /\ c \in Actor
    BY DEF Actor
  <2>2. call[c].store = "state"
    BY <1>25, <2>1 DEF ClientDies, Callers, Labels, Label
  <2>3. \A b \in Actor : call'[b] = IF b = c THEN Idle ELSE call[b]
    BY <1>1, <1>25, <2>1 DEF ClientDies, Goes
  <2>4. home' = home /\ last' = last
    BY <1>25 DEF ClientDies
  <2>5. Writes("connections")' <=> Writes("connections")
    BY <2>2, <2>3 DEF Writes, Idle
  <2>6. Deleting' <=> Deleting
    BY <2>2, <2>3 DEF Deleting, Idle
  <2>7. \A b \in Actor : In(b, "connections")' => Held(b, d)'
    <3>1. \A b \in Actor \ {c} : In(b, "connections")' => Held(b, d)'
      BY <1>5, <2>3 DEF Means, In, Held
    <3>2. ~In(c, "connections")'
      BY <2>1, <2>3 DEF In, Idle, Inside
    <3> QED
      BY <3>1, <3>2
  <2> QED
    BY <1>5, <1>7, <1>8, <2>4, <2>5, <2>6, <2>7 DEF Means
<1>26. ASSUME ServerDies
       PROVE  Means(d)'
  <2>1. home' = home /\ last' = last
    BY <1>26 DEF ServerDies
  <2>2. \A b \in Actor : call[b].store # "state" /\ ~At(b, "idle") => b \in Thread
    BY DEF Callers, Labels, Label
  <2>3. \A b \in Actor : ~Touches(b)'
    BY <1>26, <2>2 DEF ServerDies, Touches, In, Inside, Idle
  <2>4. ~Writes("connections")
    BY <1>26, <2>2 DEF ServerDies, LeftTorn, Writes
  <2>5. last["connections"][Github] # Unsure
    BY <1>26 DEF ServerDies
  <2> QED
    BY <1>5, <1>7, <1>8, <2>1, <2>3, <2>4, <2>5 DEF Means, Deleting, Touches
<1>27. ASSUME Ports \/ UNCHANGED vars
       PROVE  Means(d)'
  <2>1. home' = home /\ last' = last /\ call' = call
    BY <1>27 DEF Ports, storeVars, vars
  <2> QED
    BY <1>5, <1>7, <1>8, <2>1 DEF Means, Deleting, Writes, In, Held
<1>28. ASSUME NEW a \in Actor, Fill(a) PROVE \E e \in [Key -> Value \union {None}] : Means(e)'
  BY <1>21, <1>22, <1>28
<1> QED
  BY <1>16, <1>17, <1>18, <1>19, <1>20, <1>23, <1>24, <1>25, <1>26, <1>27, <1>28
     DEF Next, StepOf, ChangePreference, ChangeToken, ChangeState, Store, Enter

-----------------------------------------------------------------------------
(* Theorems                                                                *)

LEMMA IInvInit == Init => IInv
<1> SUFFICES ASSUME Init PROVE IInv
  OBVIOUS
<1> USE StoresAssumption DEF At
<1>1. TypeOK
  BY TypeInit
<1>2. PortsKnown
  BY PortsAssumption DEF Init, PortsInit, Empty, PortsKnown, Distinct
<1>3. \A a \in Actor : call[a].at = "idle"
  BY DEF Init, Idle
<1>4. \A s \in Store : home[s] = IF s = "preferences" /\ HomeHas THEN Whole(Nothing) ELSE Absent
  BY DEF Init
<1>5. \A s \in Store, k \in Key : last[s][k] = Entry(s, k)
  BY DEF Init
<1>6. \A a \in Actor, s \in Store : ~In(a, s)
  BY <1>3 DEF In, Inside
<1>7. Callers
  <2>1. Labels /\ Exclusive
    BY <1>3, <1>6 DEF Labels, Exclusive
  <2>2. old["state"] = Absent
    BY DEF Init, Store
  <2>3. Files
    BY <1>4, <1>6, <2>2 DEF Init, Files, Whole, Absent, Store
  <2> QED
    BY <2>1, <2>3 DEF Callers
<1>8. home \in [Store -> File] /\ last \in [Store -> [Key -> Value \union {None, Unsure}]]
      /\ old \in [Store -> File]
  BY <1>1 DEF TypeOK
<1>9. StateKept
  <2>1. \A k \in Key : last["state"][k] = home["state"].data[k]
    BY <1>5 DEF Entry, State, Store
  <2>2. last["state"] = home["state"].data
    BY <1>4, <1>8, <2>1 DEF Store, Absent, Nothing
  <2> QED
    BY <1>4, <1>6, <2>2 DEF StateKept, Store, Absent
<1>10. PreferencesKept
  <2> SUFFICES ASSUME HomeHas PROVE PreferencesKept
    BY DEF PreferencesKept
  <2>1. home["preferences"] = Whole(Nothing)
    BY <1>4 DEF Store
  <2>2. from = "home"
    BY <2>1 DEF Init, Resolve, Whole
  <2>3. \A k \in Key : last["preferences"][k] = home["preferences"].data[k]
    BY <1>5, <2>2 DEF Entry, Preference, Contents, Place, Store
  <2>4. last["preferences"] = home["preferences"].data
    BY <1>8, <2>1, <2>3 DEF Store, Whole, Nothing
  <2> QED
    BY <1>6, <2>1, <2>2, <2>4 DEF PreferencesKept, Store, Whole
<1>11. ConnectionsKept
  <2>1. PICK d \in [Key -> Value \union {None}] : Connections = d
    BY <1>8 DEF Connections, Contents, File, Store
  <2>2. \A k \in Key : last["connections"][k] = IF k = Github /\ d[k] = None THEN GithubToken ELSE d[k]
    BY <1>5, <2>1 DEF Entry, Token, Connections, Store
  <2>3. GithubToken \in Value \union {None}
    BY <1>8 DEF GithubToken, Contents, File, Store
  <2>4. last["connections"][Github] # Unsure
    BY <2>2, <2>3
  <2>5. Means(d)
    BY <1>3, <1>6, <2>1, <2>2, <2>4 DEF Means, Deleting, Store
  <2> QED
    BY <2>5 DEF ConnectionsKept
<1> QED
  BY <1>1, <1>2, <1>7, <1>9, <1>10, <1>11 DEF IInv

(* IInv is an inductive invariant of every specification that stores,      *)
(* reads and dies as codehome does.                                        *)
THEOREM Invariant == Spec => []IInv
<1>1. Init => IInv
  BY IInvInit
<1>2. IInv /\ [Next]_vars => IInv'
  BY TypeStep, PortsInvariant, CallersInvariant, StateInvariant, PreferencesInvariant,
     ConnectionsInvariant DEF IInv
<1> QED
  BY <1>1, <1>2, PTL DEF Spec

(* Every variable of the stores and of the port allocator has its type.    *)
THEOREM TypeCorrect == Spec => []TypeOK
<1>1. IInv => TypeOK
  BY DEF IInv
<1> QED
  BY <1>1, Invariant, PTL

(* No update of a preference, a connection or an atomically written state  *)
(* file is lost, and no deleted token comes back, however many threads and *)
(* processes change however many keys, and wherever they die.              *)
THEOREM NoUpdateIsLost == Spec => []UpdatesKept
<1>1. IInv => UpdatesKept
  <2> SUFFICES ASSUME IInv PROVE UpdatesKept
    OBVIOUS
  <2> USE StoresAssumption
  <2>1. ASSUME HomeHas PROVE Kept("preferences")
    <3> SUFFICES ASSUME Quiet("preferences"), "preferences" \notin lost, NEW k \in Key
                 PROVE  last["preferences"][k] = Entry("preferences", k)
      BY DEF Kept
    <3>1. ~Writes("preferences")
      BY DEF Quiet, Writes, At
    <3> QED
      BY <2>1, <3>1 DEF IInv, PreferencesKept, Entry, Preference, Contents, Place
  <2>2. Kept("connections")
    <3> SUFFICES ASSUME Quiet("connections"), "connections" \notin lost, NEW k \in Key
                 PROVE  last["connections"][k] = Entry("connections", k)
      BY DEF Kept
    <3>1. ~Writes("connections") /\ ~Deleting
      BY DEF Quiet, Writes, Deleting, At
    <3>2. PICK d \in [Key -> Value \union {None}] : Means(d)
      BY DEF IInv, ConnectionsKept
    <3> QED
      BY <3>1, <3>2 DEF Means, Connections, Entry, Token
  <2>3. ASSUME ~plain PROVE Kept("state")
    BY <2>3 DEF IInv, StateKept, Kept, Entry, State
  <2> QED
    BY <2>1, <2>2, <2>3 DEF UpdatesKept
<1> QED
  BY <1>1, Invariant, PTL

(* No reader ever finds half of a state file, for any number of writers    *)
(* and deaths, as long as all of them use StateStore.atomic.               *)
THEOREM StateIsWhole == Spec => []StateWhole
<1>1. IInv => StateWhole
  BY DEF IInv, StateKept, StateWhole
<1> QED
  BY <1>1, Invariant, PTL

(* Preferred ports and slots are never given twice, and a stack that is up *)
(* keeps its slot, unless it was released before the stack was down or the *)
(* server died inside a save while that stack was up, for any number of    *)
(* services, branches and slots.                                           *)
THEOREM AllocationsStayApart == Spec => []AllocationsApart
<1>1. IInv => AllocationsApart
  BY DEF IInv, PortsKnown, Distinct, AllocationsApart
<1> QED
  BY <1>1, Invariant, PTL

-----------------------------------------------------------------------------
(* The configuration of a stack (ConfigPatch).  Where the regular          *)
(* expression leads is told by the sections of a tidy file; the loop over  *)
(* the names keeps, for each of them, what the port of it has replaced.    *)

(* A set of numbers has a least one, and one with a bound a greatest.      *)
LEMMA LeastIn ==
    ASSUME NEW S, S \subseteq Nat, S # {}
    PROVE  Min(S) \in S /\ \A k \in S : Min(S) <= k
<1>1. PICK m \in S : \A k \in S : ~ (<<k, m>> \in OpToRel(<, Nat))
  BY WFMin, NatLessThanWellFounded, Zenon
<1>2. \A k \in S : m <= k
  <2> SUFFICES ASSUME NEW k \in S PROVE m <= k
    OBVIOUS
  <2>1. ~(k < m) /\ k \in Nat /\ m \in Nat
    BY <1>1 DEF OpToRel
  <2> QED BY <2>1
<1> QED BY <1>2 DEF Min

LEMMA GreatestIn ==
    ASSUME NEW n \in Nat, NEW S, S \subseteq 1 .. n, S # {}
    PROVE  Max(S) \in S /\ \A k \in S : k <= Max(S)
<1> DEFINE R == {m \in Nat : n - m \in S}
<1>1. PICK s \in S : TRUE
  OBVIOUS
<1>2. s \in 1 .. n
  BY <1>1
<1>3. n - s \in R
  <2>1. n - s \in Nat /\ n - (n - s) = s
    BY <1>2
  <2> QED BY <1>1, <2>1
<1>4. PICK m \in R : \A k \in R : ~ (<<k, m>> \in OpToRel(<, Nat))
  <2>1. R \subseteq Nat /\ R # {}
    BY <1>3
  <2> HIDE DEF R
  <2> QED BY <2>1, WFMin, NatLessThanWellFounded, Zenon
<1>5. n - m \in S
  OBVIOUS
<1>6. \A k \in S : k <= n - m
  <2> SUFFICES ASSUME NEW k \in S PROVE k <= n - m
    OBVIOUS
  <2>1. k \in 1 .. n /\ m \in Nat
    OBVIOUS
  <2>2. n - k \in Nat /\ n - (n - k) = k
    BY <2>1
  <2>3. n - k \in R
    BY <2>2
  <2>4. ~(n - k < m)
    BY <1>4, <2>2, <2>3 DEF OpToRel
  <2> QED BY <2>1, <2>4
<1> QED BY <1>5, <1>6 DEF Max

LEMMA MappingFacts ==
    /\ Len(Mappings) = 10
    /\ \A n \in 1 .. 10 : Mappings[n][2] # "top"
    /\ \A m, n \in 1 .. 10 : Mappings[m][2] = Mappings[n][2] /\ Mappings[m][3] = Mappings[n][3] => m = n
    /\ ToSet(Mappings) = {Mappings[n] : n \in 1 .. 10}
<1>1. Len(Mappings) = 10
  BY DEF Mappings
<1>2. \A n \in 1 .. 10 : n \in {1, 2, 3, 4, 5, 6, 7, 8, 9, 10}
  OBVIOUS
<1>3. \A n \in 1 .. 10 : Mappings[n][2] # "top"
  BY <1>2 DEF Mappings
<1>4. \A m, n \in 1 .. 10 : Mappings[m][2] = Mappings[n][2] /\ Mappings[m][3] = Mappings[n][3] => m = n
  BY <1>2 DEF Mappings
<1>5. ToSet(Mappings) = {Mappings[n] : n \in 1 .. 10}
  BY <1>1 DEF ToSet, Mappings
<1> QED BY <1>1, <1>3, <1>4, <1>5

LEMMA LineFacts ==
    ASSUME NEW a \in Line
    PROVE  /\ a.kind \in {"header", "number", "text", "blank"}
           /\ a.kind = "header" => a.section \in STRING /\ a = Header(a.section)
           /\ a.kind = "number" => a.key \in STRING /\ a.number \in Nat /\ a = Number(a.key, a.number)
           /\ a.kind = "text" => a.key \in STRING /\ a.text \in STRING /\ a = Text(a.key, a.text)
           /\ a.kind = "blank" <=> a = Blank
BY DEF Line, Header, Number, Text, Blank

(* The section of a line is the one of the header before it.               *)
LEMMA SectionIs ==
    ASSUME NEW lines \in Seq(Line), NEW j \in 1 .. Len(lines), NEW s, s # "top"
    PROVE  SectionAt(lines, j) = s <=>
             \E i \in 1 .. j : lines[i] = Header(s) /\ \A m \in i + 1 .. j : ~IsHeader(lines[m])
<1> DEFINE before == {i \in 1 .. j : IsHeader(lines[i])}
<1>0. j \in Nat /\ \A i \in 1 .. j : i \in 1 .. Len(lines) /\ lines[i] \in Line
  OBVIOUS
<1>1. CASE before = {}
  <2>1. SectionAt(lines, j) = "top"
    BY <1>1 DEF SectionAt
  <2>2. \A i \in 1 .. j : lines[i] # Header(s)
    BY <1>1 DEF IsHeader, Header
  <2> QED BY <2>1, <2>2
<1>2. CASE before # {}
  <2>1. Max(before) \in before /\ \A k \in before : k <= Max(before)
    <3>1. before \subseteq 1 .. j
      OBVIOUS
    <3> HIDE DEF before
    <3> QED BY <1>0, <1>2, <3>1, GreatestIn
  <2>2. SectionAt(lines, j) = lines[Max(before)].section
    BY <1>2 DEF SectionAt
  <2> DEFINE x == Max(before)
  <2>3. x \in 1 .. j /\ IsHeader(lines[x]) /\ \A k \in 1 .. j : IsHeader(lines[k]) => k <= x
    BY <2>1
  <2> HIDE DEF x, before
  <2>4. lines[x] = Header(lines[x].section)
    BY <1>0, <2>3, LineFacts DEF IsHeader
  <2>5. ASSUME lines[x].section = s
        PROVE  \E i \in 1 .. j : lines[i] = Header(s) /\ \A m \in i + 1 .. j : ~IsHeader(lines[m])
    <3>1. \A m \in x + 1 .. j : ~IsHeader(lines[m])
      BY <1>0, <2>3
    <3> QED BY <2>3, <2>4, <2>5, <3>1
  <2>6. ASSUME NEW i \in 1 .. j, lines[i] = Header(s), \A m \in i + 1 .. j : ~IsHeader(lines[m])
        PROVE  lines[x].section = s
    <3>1. IsHeader(lines[i])
      BY <2>6 DEF Header, IsHeader
    <3>2. i <= x
      BY <2>3, <3>1
    <3>3. i = x
      BY <1>0, <2>3, <2>6, <3>2
    <3> QED BY <2>6, <3>3 DEF Header
  <2> QED BY <2>2, <2>5, <2>6 DEF x
<1> QED BY <1>1, <1>2

(* In a tidy file the expression stops at the next header.                 *)
LEMMA ReachesSection ==
    ASSUME NEW lines \in Seq(Line), Tidy(lines), NEW i \in 1 .. Len(lines), NEW j \in 1 .. Len(lines),
           lines[j].kind = "number"
    PROVE  Reaches(lines, i, j) <=> i < j /\ \A m \in i + 1 .. j : ~IsHeader(lines[m])
<1>1. ASSUME Reaches(lines, i, j), NEW m \in i + 1 .. j, IsHeader(lines[m]) PROVE FALSE
  <2>1. m # i + 1 /\ m # j
    BY <1>1 DEF Reaches, IsHeader
  <2>2. m - 1 \in i + 1 .. j - 1 /\ (m - 1) + 1 = m /\ m \in DOMAIN lines /\ m # 1
    BY <2>1
  <2>3. lines[m - 1] = Blank
    BY <1>1, <2>2 DEF Tidy
  <2> QED BY <1>1, <2>2, <2>3 DEF Reaches
<1>2. ASSUME i < j, \A m \in i + 1 .. j : ~IsHeader(lines[m]) PROVE Reaches(lines, i, j)
  <2>1. i + 1 \in i + 1 .. j /\ \A m \in i + 1 .. j - 1 : m + 1 \in i + 1 .. j
    BY <1>2
  <2> QED BY <1>2, <2>1 DEF Reaches
<1>3. Reaches(lines, i, j) => i < j
  BY DEF Reaches
<1> QED BY <1>1, <1>2, <1>3

Keyed(lines, s, k) ==
  {j \in 1 .. Len(lines) : lines[j].kind = "number" /\ lines[j].key = k /\ SectionAt(lines, j) = s}

LEMMA FoundIs ==
    ASSUME NEW lines \in Seq(Line), Tidy(lines), NEW s, s # "top", NEW k
    PROVE  /\ \A i \in Headers(lines, s) : Found(lines, i, k) = Keyed(lines, s, k)
           /\ Keyed(lines, s, k) # {} => Headers(lines, s) # {}
           /\ \A i, j \in Keyed(lines, s, k) : i = j
<1>0. DOMAIN lines = 1 .. Len(lines) /\ Len(lines) \in Nat
  OBVIOUS
<1>1. ASSUME NEW i \in Headers(lines, s), NEW j \in Found(lines, i, k) PROVE j \in Keyed(lines, s, k)
  <2>1. /\ i \in 1 .. Len(lines) /\ lines[i] = Header(s)
        /\ j \in 1 .. Len(lines) /\ lines[j].kind = "number" /\ lines[j].key = k /\ Reaches(lines, i, j)
    BY <1>0 DEF Headers, Found
  <2>2. i < j /\ \A m \in i + 1 .. j : ~IsHeader(lines[m])
    BY <2>1, ReachesSection
  <2>3. i \in 1 .. j
    BY <2>1, <2>2
  <2>4. SectionAt(lines, j) = s
    BY <2>1, <2>2, <2>3, SectionIs
  <2> QED BY <2>1, <2>4 DEF Keyed
<1>2. ASSUME NEW j \in Keyed(lines, s, k)
      PROVE  \E i \in Headers(lines, s) : i < j /\ \A m \in i + 1 .. j : ~IsHeader(lines[m])
  <2>1. j \in 1 .. Len(lines) /\ lines[j].kind = "number" /\ SectionAt(lines, j) = s
    BY DEF Keyed
  <2>2. PICK i \in 1 .. j : lines[i] = Header(s) /\ \A m \in i + 1 .. j : ~IsHeader(lines[m])
    BY <2>1, SectionIs
  <2>3. i # j
    BY <2>1, <2>2 DEF Header
  <2> QED BY <1>0, <2>1, <2>2, <2>3 DEF Headers
<1>3. ASSUME NEW i \in Headers(lines, s), NEW j \in Keyed(lines, s, k) PROVE j \in Found(lines, i, k)
  <2>1. PICK h \in Headers(lines, s) : h < j /\ \A m \in h + 1 .. j : ~IsHeader(lines[m])
    BY <1>2
  <2>2. h = i
    BY DEF Headers, Tidy, Header, Blank, IsHeader
  <2>3. j \in 1 .. Len(lines) /\ lines[j].kind = "number" /\ lines[j].key = k
    BY DEF Keyed
  <2>4. i \in 1 .. Len(lines)
    BY <1>0 DEF Headers
  <2> QED BY <1>0, <2>1, <2>2, <2>3, <2>4, ReachesSection DEF Found
<1>4. ASSUME NEW i \in Keyed(lines, s, k), NEW j \in Keyed(lines, s, k), i # j PROVE FALSE
  <2>1. /\ i \in DOMAIN lines /\ lines[i].kind = "number" /\ lines[i].key = k /\ SectionAt(lines, i) = s
        /\ j \in DOMAIN lines /\ lines[j].kind = "number" /\ lines[j].key = k /\ SectionAt(lines, j) = s
    BY <1>0 DEF Keyed
  <2>2. lines[i] # Blank /\ ~IsHeader(lines[i]) /\ lines[j].kind \in {"number", "text"}
    BY <2>1 DEF Blank, IsHeader
  <2> QED BY <1>4, <2>1, <2>2 DEF Tidy
<1>5. \A i \in Headers(lines, s) : Found(lines, i, k) = Keyed(lines, s, k)
  BY <1>1, <1>3
<1>6. Keyed(lines, s, k) # {} => Headers(lines, s) # {}
  BY <1>2
<1> QED BY <1>4, <1>5, <1>6

(* A line changes at most in its number or its text.                       *)
Alike(a, b) ==
  /\ a.kind = b.kind /\ (a.kind \in {"number", "text"} => a.key = b.key)
  /\ a.kind \in {"header", "blank"} => a = b

Same(x, y) == Len(x) = Len(y) /\ \A i \in 1 .. Len(x) : Alike(x[i], y[i])

(* Such changes leave sections and order alone.                            *)
LEMMA SameIs ==
    ASSUME NEW x \in Seq(Line), NEW y \in Seq(Line), Same(x, y)
    PROVE  /\ \A i \in 1 .. Len(x) : IsHeader(y[i]) <=> IsHeader(x[i])
           /\ \A i \in 1 .. Len(x) : SectionAt(y, i) = SectionAt(x, i)
           /\ Tidy(x) => Tidy(y)
<1>0. /\ DOMAIN x = 1 .. Len(x) /\ DOMAIN y = 1 .. Len(x) /\ Len(x) \in Nat
      /\ \A i \in 1 .. Len(x) : x[i] \in Line /\ y[i] \in Line /\ Alike(x[i], y[i])
  <2>1. Len(y) = Len(x) /\ \A i \in 1 .. Len(x) : Alike(x[i], y[i])
    BY DEF Same
  <2> QED BY <2>1
<1>1. \A i \in 1 .. Len(x) : /\ IsHeader(y[i]) <=> IsHeader(x[i])
                             /\ IsHeader(x[i]) => x[i] = y[i]
                             /\ x[i] = Blank <=> y[i] = Blank
                             /\ x[i].kind = y[i].kind
                             /\ x[i].kind \in {"number", "text"} => x[i].key = y[i].key
                             /\ x[i] = Blank \/ IsHeader(x[i]) \/ x[i].kind \in {"number", "text"}
  BY <1>0, LineFacts DEF Alike, IsHeader
<1>2. ASSUME NEW i \in 1 .. Len(x) PROVE SectionAt(y, i) = SectionAt(x, i)
  <2> DEFINE bx == {m \in 1 .. i : IsHeader(x[m])}
             by == {m \in 1 .. i : IsHeader(y[m])}
  <2>1. \A m \in 1 .. i : m \in 1 .. Len(x)
    BY <1>0
  <2>2. bx = by
    BY <1>1, <2>1
  <2>3. bx # {} => Max(bx) \in bx
    <3>1. i \in Nat /\ bx \subseteq 1 .. i
      BY <1>0
    <3> HIDE DEF bx
    <3> QED BY <3>1, GreatestIn
  <2>4. bx # {} => x[Max(bx)] = y[Max(bx)]
    BY <1>1, <2>1, <2>3
  <2>5. SectionAt(x, i) = IF bx = {} THEN "top" ELSE x[Max(bx)].section
    BY DEF SectionAt
  <2>6. SectionAt(y, i) = IF by = {} THEN "top" ELSE y[Max(by)].section
    BY DEF SectionAt
  <2> HIDE DEF bx, by
  <2> QED BY <2>2, <2>4, <2>5, <2>6
<1>3. ASSUME Tidy(x) PROVE Tidy(y)
  <2>1. ASSUME NEW i \in DOMAIN y, IsHeader(y[i]) PROVE i = 1 \/ y[i - 1] = Blank
    <3>1. i \in 1 .. Len(x) /\ (i # 1 => i - 1 \in 1 .. Len(x))
      BY <1>0
    <3>2. IsHeader(x[i])
      BY <1>1, <2>1, <3>1
    <3>3. i = 1 \/ x[i - 1] = Blank
      BY <1>0, <1>3, <3>1, <3>2 DEF Tidy
    <3> QED BY <1>1, <3>1, <3>3
  <2>2. ASSUME NEW i \in DOMAIN y, NEW j \in DOMAIN y, i # j, y[i] # Blank
        PROVE  IF IsHeader(y[i]) THEN y[j] # y[i]
               ELSE y[j].kind \in {"number", "text"} /\ y[j].key = y[i].key => SectionAt(y, i) # SectionAt(y, j)
    <3>1. i \in 1 .. Len(x) /\ j \in 1 .. Len(x) /\ x[i] # Blank
      BY <1>0, <1>1, <2>2
    <3>2. IF IsHeader(x[i]) THEN x[j] # x[i]
          ELSE x[j].kind \in {"number", "text"} /\ x[j].key = x[i].key => SectionAt(x, i) # SectionAt(x, j)
      BY <1>0, <1>3, <2>2, <3>1 DEF Tidy
    <3>3. CASE IsHeader(x[i])
      <4>1. x[j] # x[i] /\ x[i] = y[i] /\ IsHeader(y[i])
        BY <1>1, <3>1, <3>2, <3>3
      <4>2. y[j] = y[i] => IsHeader(y[j]) /\ x[j] = y[j]
        BY <1>1, <3>1, <4>1
      <4> QED BY <4>1, <4>2
    <3>4. CASE ~IsHeader(x[i])
      <4>1. ~IsHeader(y[i]) /\ x[i].kind \in {"number", "text"} /\ x[i].key = y[i].key /\ x[j].kind = y[j].kind
        BY <1>1, <3>1, <3>4
      <4>2. y[j].kind \in {"number", "text"} => x[j].key = y[j].key
        BY <1>1, <3>1, <4>1
      <4>3. SectionAt(x, i) = SectionAt(y, i) /\ SectionAt(x, j) = SectionAt(y, j)
        BY <1>2, <3>1
      <4> QED BY <3>2, <3>4, <4>1, <4>2, <4>3
    <3> QED BY <3>3, <3>4
  <2> QED BY <2>1, <2>2 DEF Tidy
<1> QED BY <1>1, <1>2, <1>3

(* A port is written where the name says, or nowhere.                      *)
Ported(lines, s, k, port) ==
  [j \in 1 .. Len(lines) |-> IF j \in Keyed(lines, s, k) THEN Number(k, port) ELSE lines[j]]

LEMMA PatchPortIs ==
    ASSUME NEW lines \in Seq(Line), Tidy(lines), NEW s, s # "top", NEW k, NEW port \in Nat
    PROVE  PatchPort(lines, s, k, port) = Ported(lines, s, k, port)
<1> DEFINE starts == {i \in Headers(lines, s) : Found(lines, i, k) # {}}
           T == Keyed(lines, s, k)
<1>0. DOMAIN lines = 1 .. Len(lines) /\ Len(lines) \in Nat /\ lines = [j \in 1 .. Len(lines) |-> lines[j]]
  OBVIOUS
<1>1. CASE T = {}
  <2>1. starts = {}
    BY <1>1, FoundIs
  <2>2. PatchPort(lines, s, k, port) = lines
    BY <2>1 DEF PatchPort
  <2> HIDE DEF T
  <2> QED BY <1>0, <1>1, <2>2 DEF T, Ported
<1>2. CASE T # {}
  <2>1. starts = Headers(lines, s) /\ starts # {}
    BY <1>2, FoundIs
  <2>2. starts \subseteq Nat
    BY <1>0, <2>1 DEF Headers
  <2>3. Min(starts) \in starts
    <3> HIDE DEF starts
    <3> QED BY <2>1, <2>2, LeastIn
  <2>4. Found(lines, Min(starts), k) = T
    BY <2>1, <2>3, FoundIs
  <2>5. Min(T) \in T
    <3>1. T \subseteq Nat
      BY <1>0 DEF Keyed
    <3> HIDE DEF T
    <3> QED BY <1>2, <3>1, LeastIn
  <2>6. PatchPort(lines, s, k, port) = [lines EXCEPT ![Min(T)].number = port]
    <3>1. PatchPort(lines, s, k, port) =
            IF starts = {} THEN lines ELSE [lines EXCEPT ![Min(Found(lines, Min(starts), k))].number = port]
      BY DEF PatchPort
    <3> HIDE DEF starts, T
    <3> QED BY <2>1, <2>4, <3>1
  <2> DEFINE t == Min(T)
  <2>7. t \in 1 .. Len(lines) /\ lines[t].kind = "number" /\ lines[t].key = k /\ \A j : j \in T <=> j = t
    <3>1. \A j : j \in T <=> j = t
      <4>1. \A i, j \in T : i = j
        BY FoundIs
      <4> HIDE DEF T
      <4> QED BY <2>5, <4>1
    <3> QED BY <2>5, <3>1 DEF Keyed
  <2> HIDE DEF T, starts, t
  <2>8. lines[t] \in Line
    BY <2>7
  <2>9. [lines[t] EXCEPT !.number = port] = Number(k, port)
    <3>1. lines[t] = Number(k, lines[t].number)
      BY <2>7, <2>8, LineFacts
    <3>2. \A n : [Number(k, n) EXCEPT !.number = port] = Number(k, port)
      BY DEF Number
    <3> QED BY <3>1, <3>2
  <2>10. PatchPort(lines, s, k, port) = [lines EXCEPT ![t] = Number(k, port)]
    BY <2>6, <2>9 DEF t
  <2>11. \A j \in 1 .. Len(lines) : [lines EXCEPT ![t] = Number(k, port)][j]
                                    = IF j \in T THEN Number(k, port) ELSE lines[j]
    BY <1>0, <2>7
  <2> QED BY <1>0, <2>10, <2>11 DEF T, Ported
<1> QED BY <1>1, <1>2

(* A set of numbers that is closed under the next number has them all.     *)
LEMMA UpTo ==
    ASSUME NEW n \in Nat, NEW T, 0 \in T, \A m \in 0 .. n - 1 : m \in T => m + 1 \in T
    PROVE  0 .. n \subseteq T
<1> DEFINE Missing == (0 .. n) \ T
<1> SUFFICES ASSUME Missing # {} PROVE FALSE
  OBVIOUS
<1>1. Missing \subseteq Nat
  OBVIOUS
<1>2. Min(Missing) \in Missing /\ \A k \in Missing : Min(Missing) <= k
  <2> HIDE DEF Missing
  <2> QED BY <1>1, LeastIn
<1>3. Min(Missing) - 1 \in 0 .. n - 1 /\ Min(Missing) - 1 \notin Missing
  BY <1>2
<1> QED BY <1>2, <1>3

(* A loop of n turns, g[m] being the m-th of them, that finds in I[m - 1]  *)
(* and leaves in I[m], exists and ends in I[n].                            *)
Loop(f, n, x, g) == f = [m \in 0 .. n |-> IF m = 0 THEN x ELSE g[m][f[m - 1]]]

LEMMA LoopEnds ==
    ASSUME NEW n \in Nat, NEW I, NEW x \in I[0], NEW g,
           \A m \in 1 .. n : \A y \in I[m - 1] : g[m][y] \in I[m]
    PROVE  \E f : Loop(f, n, x, g) /\ \A m \in 0 .. n : f[m] \in I[m]
<1> DEFINE T == {m \in 0 .. n : \E f : Loop(f, m, x, g) /\ \A k \in 0 .. m : f[k] \in I[k]}
<1>1. 0 \in T
  <2> DEFINE f == [k \in 0 .. 0 |-> x]
  <2>1. Loop(f, 0, x, g) /\ \A k \in 0 .. 0 : f[k] \in I[k]
    BY DEF Loop
  <2> QED BY <2>1
<1>2. ASSUME NEW m \in 0 .. n - 1, m \in T PROVE m + 1 \in T
  <2>1. PICK f : Loop(f, m, x, g) /\ \A k \in 0 .. m : f[k] \in I[k]
    BY <1>2
  <2> DEFINE h == [k \in 0 .. m + 1 |-> IF k = m + 1 THEN g[m + 1][f[m]] ELSE f[k]]
  <2>2. m + 1 \in 1 .. n /\ (m + 1) - 1 = m /\ m \in 0 .. m
    OBVIOUS
  <2>3. h[m + 1] = g[m + 1][f[m]] /\ h[m + 1] \in I[m + 1]
    <3>1. f[m] \in I[(m + 1) - 1]
      BY <2>1, <2>2
    <3>2. g[m + 1][f[m]] \in I[m + 1]
      BY <2>2, <3>1
    <3>3. h[m + 1] = g[m + 1][f[m]]
      BY <2>2
    <3> QED BY <3>2, <3>3
  <2>4. \A k \in 0 .. m : h[k] = f[k]
    OBVIOUS
  <2>5. \A k \in 0 .. m : f[k] = IF k = 0 THEN x ELSE g[k][f[k - 1]]
    BY <2>1 DEF Loop
  <2>6. h = [k \in 0 .. m + 1 |-> h[k]]
    OBVIOUS
  <2> HIDE DEF h
  <2>7. \A k \in 0 .. m + 1 : h[k] = IF k = 0 THEN x ELSE g[k][h[k - 1]]
    <3> SUFFICES ASSUME NEW k \in 0 .. m + 1 PROVE h[k] = IF k = 0 THEN x ELSE g[k][h[k - 1]]
      OBVIOUS
    <3>1. CASE k = m + 1
      <4>1. k # 0 /\ k - 1 = m /\ h[k - 1] = f[m]
        BY <2>2, <2>4, <3>1
      <4> QED BY <2>3, <3>1, <4>1
    <3>2. CASE k # m + 1
      <4>1. k \in 0 .. m /\ (k # 0 => k - 1 \in 0 .. m)
        BY <3>2
      <4> QED BY <2>4, <2>5, <4>1
    <3> QED BY <3>1, <3>2
  <2>8. Loop(h, m + 1, x, g)
    BY <2>6, <2>7 DEF Loop
  <2>9. \A k \in 0 .. m + 1 : h[k] \in I[k]
    <3>1. \A k \in 0 .. m + 1 : k = m + 1 \/ k \in 0 .. m
      OBVIOUS
    <3> QED BY <2>1, <2>3, <2>4, <3>1
  <2>10. m + 1 \in 0 .. n
    OBVIOUS
  <2> QED BY <2>8, <2>9, <2>10
<1>3. n \in T
  <2> HIDE DEF T
  <2>1. 0 .. n \subseteq T
    BY <1>1, <1>2, UpTo
  <2> QED BY <2>1
<1> QED BY <1>3

-----------------------------------------------------------------------------
(* The loop over the names.  After n of them the file differs from what it *)
(* was in the project id and in the ports of these.                        *)

\* The j-th line of a file is where the port of the n-th name goes.
For(lines, ports, n, j) ==
  /\ Mappings[n][1] \in DOMAIN ports /\ lines[j].kind = "number"
  /\ Mappings[n][2] = SectionAt(lines, j) /\ Mappings[n][3] = lines[j].key

IsProject(line) == line.kind = "text" /\ line.key = "project_id"

After(lines, ports, id, n) ==
  {y \in Seq(Line) :
     /\ Same(lines, y)
     /\ \A j \in 1 .. Len(lines) :
          /\ IsProject(lines[j]) => y[j] = Text("project_id", id)
          /\ \A m \in 1 .. n : For(lines, ports, m, j) => y[j] = Number(Mappings[m][3], ports[Mappings[m][1]])
          /\ ~IsProject(lines[j]) /\ (\A m \in 1 .. n : ~For(lines, ports, m, j)) => y[j] = lines[j]}

LEMMA ProjectIs ==
    ASSUME NEW lines \in Seq(Line), NEW ports, NEW id \in STRING
    PROVE  PatchProject(lines, id) \in After(lines, ports, id, 0)
<1> DEFINE y == PatchProject(lines, id)
<1>0. DOMAIN lines = 1 .. Len(lines) /\ Len(lines) \in Nat /\ \A j \in 1 .. Len(lines) : lines[j] \in Line
  OBVIOUS
<1>1. y = [j \in 1 .. Len(lines) |-> IF IsProject(lines[j]) THEN [lines[j] EXCEPT !.text = id] ELSE lines[j]]
  BY <1>0 DEF PatchProject, IsProject
<1>2. \A j \in 1 .. Len(lines) : IsProject(lines[j]) =>
         [lines[j] EXCEPT !.text = id] = Text("project_id", id) /\ Text("project_id", id) \in Line
  <2> SUFFICES ASSUME NEW j \in 1 .. Len(lines), IsProject(lines[j])
               PROVE  [lines[j] EXCEPT !.text = id] = Text("project_id", id) /\ Text("project_id", id) \in Line
    OBVIOUS
  <2>1. lines[j] = Text("project_id", lines[j].text)
    BY <1>0, LineFacts DEF IsProject
  <2>2. \A t : [Text("project_id", t) EXCEPT !.text = id] = Text("project_id", id)
    BY DEF Text
  <2>3. lines[j].key \in STRING /\ lines[j].key = "project_id"
    BY <1>0, LineFacts DEF IsProject
  <2>4. \A k \in STRING : Text(k, id) \in Line
    BY DEF Text, Line
  <2> QED BY <2>1, <2>2, <2>3, <2>4
<1> HIDE DEF y
<1>4. \A j \in 1 .. Len(lines) :
         y[j] = (IF IsProject(lines[j]) THEN Text("project_id", id) ELSE lines[j]) /\ y[j] \in Line
  BY <1>0, <1>1, <1>2
<1>5. y \in Seq(Line) /\ Len(y) = Len(lines)
  <2>1. y = [j \in 1 .. Len(lines) |-> y[j]]
    BY <1>1
  <2>2. y \in [1 .. Len(lines) -> Line]
    BY <1>4, <2>1
  <2> QED BY <1>0, <2>2
<1>6. Same(lines, y)
  <2>1. \A j \in 1 .. Len(lines) : Alike(lines[j], y[j])
    BY <1>0, <1>4 DEF Alike, IsProject, Text
  <2> QED BY <1>5, <2>1 DEF Same
<1>7. \A m \in 1 .. 0 : FALSE
  OBVIOUS
<1> QED BY <1>4, <1>5, <1>6, <1>7 DEF After, y

LEMMA MappingIs ==
    ASSUME NEW lines \in Seq(Line), Tidy(lines), NEW ports, ports \in [DOMAIN ports -> Nat], NEW id,
           NEW n \in 1 .. 10, NEW x \in After(lines, ports, id, n - 1)
    PROVE  PatchMapping(x, ports, Mappings[n]) \in After(lines, ports, id, n)
<1> DEFINE s == Mappings[n][2]
           k == Mappings[n][3]
           port == ports[Mappings[n][1]]
           y == PatchMapping(x, ports, Mappings[n])
<1>0. /\ x \in Seq(Line) /\ Same(lines, x) /\ Len(lines) \in Nat /\ Len(x) = Len(lines)
      /\ \A j \in 1 .. Len(lines) : Alike(lines[j], x[j]) /\ x[j] \in Line
  <2>1. x \in Seq(Line) /\ Same(lines, x) /\ Len(lines) \in Nat
    BY DEF After
  <2> QED BY <2>1 DEF Same
<1>1. \A j \in 1 .. Len(lines) :
        /\ IsProject(lines[j]) => x[j] = Text("project_id", id)
        /\ \A m \in 1 .. n - 1 : For(lines, ports, m, j) => x[j] = Number(Mappings[m][3], ports[Mappings[m][1]])
        /\ ~IsProject(lines[j]) /\ (\A m \in 1 .. n - 1 : ~For(lines, ports, m, j)) => x[j] = lines[j]
  BY DEF After
<1>2. Tidy(x) /\ \A j \in 1 .. Len(lines) : SectionAt(x, j) = SectionAt(lines, j)
  BY <1>0, SameIs
<1>3. \A m \in 1 .. n : m = n \/ m \in 1 .. n - 1
  OBVIOUS
<1>4. s # "top"
  BY MappingFacts
<1>5. CASE Mappings[n][1] \notin DOMAIN ports
  <2>1. y = x
    BY <1>5 DEF PatchMapping
  <2>2. \A j : ~For(lines, ports, n, j)
    BY <1>5 DEF For
  <2> HIDE DEF y
  <2>3. \A j \in 1 .. Len(lines) :
          /\ IsProject(lines[j]) => y[j] = Text("project_id", id)
          /\ \A m \in 1 .. n : For(lines, ports, m, j) => y[j] = Number(Mappings[m][3], ports[Mappings[m][1]])
          /\ ~IsProject(lines[j]) /\ (\A m \in 1 .. n : ~For(lines, ports, m, j)) => y[j] = lines[j]
    <3>1. \A m \in 1 .. n - 1 : m \in 1 .. n
      OBVIOUS
    <3> QED BY <1>1, <1>3, <2>1, <2>2, <3>1
  <2> QED BY <1>0, <2>1, <2>3 DEF After, y
<1>6. CASE Mappings[n][1] \in DOMAIN ports
  <2>1. port \in Nat
    BY <1>6
  <2>2. y = PatchPort(x, s, k, port)
    BY <1>6 DEF PatchMapping
  <2> HIDE DEF s, k, port, y
  <2>3. y = [j \in 1 .. Len(x) |-> IF j \in Keyed(x, s, k) THEN Number(k, port) ELSE x[j]]
    <3>1. x \in Seq(Line) /\ Tidy(x) /\ s # "top" /\ port \in Nat
      BY <1>0, <1>2, <1>4, <2>1
    <3>2. PatchPort(x, s, k, port) = Ported(x, s, k, port)
      BY <3>1, PatchPortIs
    <3> QED BY <2>2, <3>2 DEF Ported
  <2>4. \A j \in 1 .. Len(lines) : j \in Keyed(x, s, k) <=> For(lines, ports, n, j)
    <3> SUFFICES ASSUME NEW j \in 1 .. Len(lines)
                 PROVE  j \in Keyed(x, s, k) <=> For(lines, ports, n, j)
      OBVIOUS
    <3>1. /\ x[j].kind = lines[j].kind /\ (x[j].kind = "number" => x[j].key = lines[j].key)
          /\ SectionAt(x, j) = SectionAt(lines, j)
      BY <1>0, <1>2 DEF Alike
    <3> QED BY <1>0, <1>6, <3>1 DEF Keyed, For, s, k
  <2>5. \A j \in 1 .. Len(lines) : y[j] = IF For(lines, ports, n, j) THEN Number(k, port) ELSE x[j]
    BY <1>0, <2>3, <2>4
  <2>6. \A j \in 1 .. Len(lines) : For(lines, ports, n, j) =>
          /\ Number(k, port) \in Line /\ Alike(lines[j], Number(k, port)) /\ ~IsProject(lines[j])
    <3> SUFFICES ASSUME NEW j \in 1 .. Len(lines), For(lines, ports, n, j)
                 PROVE  Number(k, port) \in Line /\ Alike(lines[j], Number(k, port)) /\ ~IsProject(lines[j])
      OBVIOUS
    <3>1. lines[j] \in Line /\ lines[j].kind = "number" /\ lines[j].key = k
      BY DEF For, k
    <3>2. k \in STRING
      BY <3>1, LineFacts
    <3>3. Number(k, port) \in Line
      BY <2>1, <3>2 DEF Number, Line
    <3>4. Number(k, port).kind = "number" /\ Number(k, port).key = k
      BY DEF Number
    <3> QED BY <3>1, <3>3, <3>4 DEF Alike, IsProject
  <2>7. y \in Seq(Line) /\ Len(y) = Len(lines)
    <3>1. y = [j \in 1 .. Len(lines) |-> y[j]]
      BY <1>0, <2>3
    <3>2. y \in [1 .. Len(lines) -> Line]
      BY <1>0, <2>5, <2>6, <3>1
    <3> QED BY <1>0, <3>2
  <2>8. Same(lines, y)
    BY <1>0, <2>5, <2>6, <2>7 DEF Same
  <2>9. \A j \in 1 .. Len(lines) :
          /\ IsProject(lines[j]) => y[j] = Text("project_id", id)
          /\ \A m \in 1 .. n : For(lines, ports, m, j) => y[j] = Number(Mappings[m][3], ports[Mappings[m][1]])
          /\ ~IsProject(lines[j]) /\ (\A m \in 1 .. n : ~For(lines, ports, m, j)) => y[j] = lines[j]
    <3> SUFFICES ASSUME NEW j \in 1 .. Len(lines)
                 PROVE  /\ IsProject(lines[j]) => y[j] = Text("project_id", id)
                        /\ \A m \in 1 .. n : For(lines, ports, m, j) =>
                             y[j] = Number(Mappings[m][3], ports[Mappings[m][1]])
                        /\ ~IsProject(lines[j]) /\ (\A m \in 1 .. n : ~For(lines, ports, m, j)) => y[j] = lines[j]
      OBVIOUS
    <3>0. n \in 1 .. n /\ \A m \in 1 .. n - 1 : m \in 1 .. n /\ m \in 1 .. 10 /\ m # n
      OBVIOUS
    <3>1. IsProject(lines[j]) => y[j] = Text("project_id", id)
      BY <1>1, <2>5, <2>6
    <3>2. ASSUME NEW m \in 1 .. n, For(lines, ports, m, j)
          PROVE  y[j] = Number(Mappings[m][3], ports[Mappings[m][1]])
      <4>1. CASE m = n
        BY <2>5, <3>2, <4>1 DEF k, port
      <4>2. CASE m # n
        <5>1. m \in 1 .. n - 1
          BY <1>3, <4>2
        <5>2. ~For(lines, ports, n, j)
          <6>1. Mappings[m][2] # Mappings[n][2] \/ Mappings[m][3] # Mappings[n][3]
            BY <3>0, <5>1, MappingFacts
          <6> QED BY <3>2, <6>1 DEF For
        <5> QED BY <1>1, <2>5, <3>2, <5>1, <5>2
      <4> QED BY <4>1, <4>2
    <3>3. ASSUME ~IsProject(lines[j]), \A m \in 1 .. n : ~For(lines, ports, m, j) PROVE y[j] = lines[j]
      BY <1>1, <2>5, <3>0, <3>3
    <3> QED BY <3>1, <3>2, <3>3
  <2> QED BY <2>7, <2>8, <2>9 DEF After, y
<1> QED BY <1>5, <1>6

LEMMA ConfigIs ==
    ASSUME NEW lines \in Seq(Line), Tidy(lines), NEW ports, ports \in [DOMAIN ports -> Nat], NEW id \in STRING
    PROVE  PatchConfig(lines, ports, id) \in After(lines, ports, id, 10)
<1> DEFINE I == [n \in 0 .. 10 |-> After(lines, ports, id, n)]
           g == [n \in 1 .. 10 |-> [y \in Seq(Line) |-> PatchMapping(y, ports, Mappings[n])]]
           x == PatchProject(lines, id)
           Is(f) == f = [n \in 0 .. Len(Mappings) |->
                           IF n = 0 THEN PatchProject(lines, id) ELSE PatchMapping(f[n - 1], ports, Mappings[n])]
           after == CHOOSE f : Is(f)
<1>1. x \in I[0]
  BY ProjectIs
<1>2. ASSUME NEW n \in 1 .. 10, NEW y \in I[n - 1]
      PROVE  y \in Seq(Line) /\ g[n][y] = PatchMapping(y, ports, Mappings[n]) /\ g[n][y] \in I[n]
  <2>1. y \in After(lines, ports, id, n - 1)
    OBVIOUS
  <2>2. y \in Seq(Line)
    BY <2>1 DEF After
  <2>3. PatchMapping(y, ports, Mappings[n]) \in After(lines, ports, id, n)
    BY <2>1, MappingIs
  <2> QED BY <2>2, <2>3
<1>3. PICK f : Loop(f, 10, x, g) /\ \A n \in 0 .. 10 : f[n] \in I[n]
  <2> HIDE DEF I, g, x
  <2> QED BY <1>1, <1>2, LoopEnds
<1> HIDE DEF I, g, x
<1>4. Is(f)
  <2>1. \A n \in 1 .. 10 : n - 1 \in 0 .. 10 /\ g[n][f[n - 1]] = PatchMapping(f[n - 1], ports, Mappings[n])
    <3> SUFFICES ASSUME NEW n \in 1 .. 10
                 PROVE  n - 1 \in 0 .. 10 /\ g[n][f[n - 1]] = PatchMapping(f[n - 1], ports, Mappings[n])
      OBVIOUS
    <3>1. n - 1 \in 0 .. 10
      OBVIOUS
    <3>2. f[n - 1] \in I[n - 1]
      BY <1>3, <3>1
    <3> QED BY <1>2, <3>1, <3>2
  <2>2. \A n \in 0 .. 10 : n # 0 => n \in 1 .. 10
    OBVIOUS
  <2>3. f = [n \in 0 .. 10 |-> IF n = 0 THEN x ELSE PatchMapping(f[n - 1], ports, Mappings[n])]
    BY <1>3, <2>1, <2>2 DEF Loop
  <2> QED BY <2>3, MappingFacts DEF x
<1>5. Is(after)
  BY <1>4, Zenon
<1>6. PatchConfig(lines, ports, id) = after[Len(Mappings)]
  BY DEF PatchConfig
<1> HIDE DEF after
<1>7. \A n \in 0 .. 10 : after[n] = IF n = 0 THEN x ELSE PatchMapping(after[n - 1], ports, Mappings[n])
  BY <1>5, MappingFacts DEF x
<1>8. \A n \in 0 .. 10 : f[n] = IF n = 0 THEN x ELSE PatchMapping(f[n - 1], ports, Mappings[n])
  BY <1>4, MappingFacts DEF x
<1> DEFINE T == {n \in 0 .. 10 : after[n] = f[n]}
<1>9. 0 \in T
  BY <1>7, <1>8
<1>10. \A n \in 0 .. 9 : n \in T => n + 1 \in T
  <2> SUFFICES ASSUME NEW n \in 0 .. 9, n \in T PROVE n + 1 \in T
    OBVIOUS
  <2>1. n + 1 \in 0 .. 10 /\ n + 1 # 0 /\ (n + 1) - 1 = n
    OBVIOUS
  <2> QED BY <1>7, <1>8, <2>1
<1>11. after[10] = f[10]
  <2> HIDE DEF T
  <2>1. 0 .. 10 \subseteq T
    BY <1>9, <1>10, UpTo
  <2> QED BY <2>1 DEF T
<1> QED BY <1>3, <1>6, <1>11, MappingFacts DEF I

(* So the file is what PatchesExactly says.                                *)
LEMMA PatchedExactly ==
    ASSUME NEW lines \in Seq(Line), NEW ports, ports \in [DOMAIN ports -> Nat], NEW id \in STRING
    PROVE  PatchesExactly(lines, ports, id)
<1> DEFINE y == PatchConfig(lines, ports, id)
           To(j) == {m \in ToSet(Mappings) : m[1] \in DOMAIN ports /\ lines[j].kind = "number"
                                             /\ m[2] = SectionAt(lines, j) /\ m[3] = lines[j].key}
<1> SUFFICES ASSUME Tidy(lines)
             PROVE  /\ Len(y) = Len(lines)
                    /\ \A j \in DOMAIN lines :
                         IF lines[j].kind = "text" /\ lines[j].key = "project_id" THEN y[j] = Text("project_id", id)
                         ELSE IF To(j) = {} THEN y[j] = lines[j]
                         ELSE \A m \in To(j) : y[j] = Number(m[3], ports[m[1]])
  BY DEF PatchesExactly
<1>1. y \in After(lines, ports, id, 10)
  BY ConfigIs
<1> HIDE DEF y
<1>2. Len(y) = Len(lines)
  BY <1>1 DEF After, Same
<1>3. ASSUME NEW j \in DOMAIN lines
      PROVE  IF lines[j].kind = "text" /\ lines[j].key = "project_id" THEN y[j] = Text("project_id", id)
             ELSE IF To(j) = {} THEN y[j] = lines[j]
             ELSE \A m \in To(j) : y[j] = Number(m[3], ports[m[1]])
  <2>1. j \in 1 .. Len(lines)
    OBVIOUS
  <2>2. /\ IsProject(lines[j]) => y[j] = Text("project_id", id)
        /\ \A m \in 1 .. 10 : For(lines, ports, m, j) => y[j] = Number(Mappings[m][3], ports[Mappings[m][1]])
        /\ ~IsProject(lines[j]) /\ (\A m \in 1 .. 10 : ~For(lines, ports, m, j)) => y[j] = lines[j]
    BY <1>1, <2>1 DEF After
  <2>3. \A m : m \in To(j) <=> \E n \in 1 .. 10 : m = Mappings[n] /\ For(lines, ports, n, j)
    BY MappingFacts DEF For
  <2> HIDE DEF To
  <2>4. CASE IsProject(lines[j])
    BY <2>2, <2>4 DEF IsProject
  <2>5. CASE ~IsProject(lines[j])
    <3>1. To(j) = {} => y[j] = lines[j]
      BY <2>2, <2>3, <2>5
    <3>2. \A m \in To(j) : y[j] = Number(m[3], ports[m[1]])
      <4> SUFFICES ASSUME NEW m \in To(j) PROVE y[j] = Number(m[3], ports[m[1]])
        OBVIOUS
      <4>1. PICK n \in 1 .. 10 : m = Mappings[n] /\ For(lines, ports, n, j)
        BY <2>3
      <4> QED BY <2>2, <4>1
    <3> QED BY <2>5, <3>1, <3>2 DEF IsProject
  <2> QED BY <2>4, <2>5
<1> QED BY <1>2, <1>3

(***************************************************************************)
(* The start of a stack writes exactly its ports and its project id, into  *)
(* a file of any length with any sections, keys and values, as long as it  *)
(* is tidy.                                                                *)
(***************************************************************************)
THEOREM PatchesAreExact == Spec => []PatchIsExact
<1>1. PatchIsExact
  BY ConfigAssumption, PatchedExactly DEF PatchIsExact
<1> QED BY <1>1, PTL
=============================================================================
