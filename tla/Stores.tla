------------------------------- MODULE Stores -------------------------------
(***************************************************************************)
(* The JSON files in which codehome keeps what outlives a process, and the *)
(* calls that read one, change an entry and write it back:                 *)
(*   preferences  serve/preferences.py, three stores of the same form: a   *)
(*                threading lock around the whole change, an in-place      *)
(*                write under flock, the path to read fixed at import;     *)
(*   connections  credentials.py: a threading lock, an in-place write, the *)
(*                path to read looked up at every call, and for the github *)
(*                key a fallback to the file of github_tokens.py;          *)
(*   github       serve/github_tokens.py, which only deletes by now;       *)
(*   state        state/state_api.py: StateStore.atomic, under a lock file *)
(*                and with a rename, and StateStore.write, which renames   *)
(*                the same temporary file without the lock;                *)
(* and the file of serve/ports.py (PortAllocator), in the same server,     *)
(* with what the start of a stack writes into its project (ConfigPatch).   *)
(*                                                                         *)
(* Every file has a place in the home directory, where all writes go, and  *)
(* one in the older project directory.  The server is one process with     *)
(* several threads; a client of the command line is a process of its own   *)
(* and uses StateStore only.  Any process may die between two steps.       *)
(***************************************************************************)
EXTENDS PortAllocator, ConfigPatch

CONSTANTS
    Thread,          \* the threads of the server
    Client,          \* the other processes
    Key, Value,      \* the entries of the files and what they hold
    Github,          \* the key with the fallback
    HomeHas,         \* whether the home directory has the preferences file yet
    None,            \* no such entry
    Unsure,          \* the call that changes the entry has not ended
    MaxCalls         \* bound: the calls of a behaviour, those on files counted twice

ASSUME StoresAssumption ==
    /\ Github \in Key /\ {None, Unsure} \cap Value = {} /\ None # Unsure
    /\ Thread \cap Client = {}
    /\ MaxCalls \in Nat

Store == {"preferences", "connections", "github", "state"}
Actor == Thread \cup Client

VARIABLES
    home, old,       \* the two places of every file
    tmp,             \* the temporary file of StateStore
    call,            \* what every actor is doing
    from,            \* where the server reads its preferences
    calls,           \* how many calls there have been, those on files counted twice
    last,            \* for every store and key, what its last change left
    lost,            \* the files a crash has left truncated
    plain            \* somebody has used StateStore.write

storeVars == <<home, old, tmp, call, from, last, plain>>
vars == <<portVars, storeVars, calls, lost>>

Nothing == [k \in Key |-> None]
File == [is : {"absent", "torn", "whole"}, data : [Key -> Value \cup {None}]]
Absent == [is |-> "absent", data |-> Nothing]
Torn == [is |-> "torn", data |-> Nothing]
Whole(d) == [is |-> "whole", data |-> d]
Idle == [at |-> "idle", store |-> "state", op |-> "set", key |-> Github, value |-> None,
         data |-> Nothing, into |-> "tmp"]

\* The place a file is looked for: at home, or else in the project.
Resolve(f) == IF f.is # "absent" THEN "home" ELSE "old"

\* A file that is missing or does not parse reads as no entries.
Contents(s, place) == IF place = "home" THEN home[s].data ELSE old[s].data

\* Where a call reads store s.
Place(s) == IF s = "preferences" THEN from ELSE Resolve(home[s])

\* What a reader gets for key k of every store: the github token falls back to
\* its older file.
Preference(k) == Contents("preferences", Place("preferences"))[k]
GithubToken == Contents("github", Place("github"))[Github]
Token(k) ==
    LET t == Contents("connections", Place("connections"))[k]
    IN  IF k = Github /\ t = None THEN GithubToken ELSE t
State(k) == home["state"].data[k]

Entry(s, k) ==
    CASE s = "preferences" -> Preference(k)
      [] s = "connections" -> Token(k)
      [] s = "state" -> State(k)
      [] OTHER -> Contents(s, Place(s))[k]

Init ==
    /\ PortsInit
    /\ \E v \in Value, moved \in BOOLEAN :
         /\ home = [s \in Store |->
              IF s = "preferences" /\ HomeHas THEN Whole(Nothing) ELSE Absent]
         /\ old = [s \in Store |->
              CASE s = "github" -> Whole([Nothing EXCEPT ![Github] = v])
                [] s = "connections" /\ moved -> Whole([k \in Key |-> IF k = Github THEN None ELSE v])
                [] OTHER -> Absent]
    /\ tmp = Absent
    /\ call = [a \in Actor |-> Idle]
    /\ from = Resolve(home["preferences"])
    /\ calls = 0 /\ plain = FALSE /\ lost = {}
    /\ last = [s \in Store |-> [k \in Key |-> Entry(s, k)]]

-----------------------------------------------------------------------------
(* One call: take the lock, read, change, write.                           *)

Goes(a, r) == call' = [call EXCEPT ![a] = r]
At(a, label) == call[a].at = label
Rest(a) == [call[a] EXCEPT !.at = "idle", !.op = "set", !.data = Nothing, !.value = None]

\* A call on store s that sets a key or deletes it.
Begin(a, s) ==
    /\ At(a, "idle")
    /\ calls + 2 <= MaxCalls /\ calls' = calls + 2
    /\ \E k \in Key, v \in Value \cup {None} :
         Goes(a, [Idle EXCEPT !.at = "lock", !.store = s, !.key = k, !.value = v,
                              !.op = IF v = None THEN "delete" ELSE "set"])
    /\ UNCHANGED <<portVars, home, old, tmp, from, last, lost, plain>>

ChangePreference(a) == a \in Thread /\ Begin(a, "preferences")
ChangeToken(a) == a \in Thread /\ Begin(a, "connections")
ChangeState(a) == Begin(a, "state")

\* The other actors the lock of the store keeps out: a threading lock those of
\* the process, a lock file everybody.
Inside == {"truncate", "write", "open", "fill", "replace"}
Excluded(a) ==
    {b \in Actor \ {a} :
        \/ call[b].store = call[a].store /\ call[b].at \in Inside /\ call[b].op # "write"
        \/ call[a].store = "connections" /\ call[b].op = "clean"}

Changed(a) == [Contents(call[a].store, Place(call[a].store)) EXCEPT ![call[a].key] = call[a].value]

\* The last change of key k of store s is value v.
Commits(s, k, v) == last' = [last EXCEPT ![s][k] = v]

\* A deletion of the github token goes on to the file of github_tokens: with
\* the lock of the connections ("clean") when they do not have it, else without.
ToGithub(a, o) == [call[a] EXCEPT !.store = "github", !.at = "lock", !.op = o]
GoesOn(a) == call[a].store = "connections" /\ call[a].op = "delete" /\ call[a].key = Github

\* The call is to delete an entry that is not there.
Needless(a) ==
    /\ call[a].store # "state" /\ call[a].op \in {"delete", "clean"}
    /\ Contents(call[a].store, Place(call[a].store))[call[a].key] = None

\* A deletion that finds no entry returns, or still cleans up the older file.
DeletesNothing(a) ==
    /\ Excluded(a) = {}
    /\ Needless(a)
    /\ IF GoesOn(a) THEN Commits("connections", Github, Unsure) /\ Goes(a, ToGithub(a, "clean"))
       ELSE /\ Goes(a, Rest(a))
            /\ IF call[a].store = "github" /\ last["connections"][Github] = Unsure
               THEN Commits("connections", Github, None) ELSE UNCHANGED last

\* Mutant of Reads: the entries are read without the lock.
ReadsUnlocked(a) ==
    /\ ~Needless(a)
    /\ Goes(a, [call[a] EXCEPT !.at = IF call[a].store = "state" THEN "open" ELSE "truncate",
                               !.data = Changed(a)])
    /\ UNCHANGED last

Reads(a) ==
    /\ Excluded(a) = {}
    /\ ~Needless(a)
    /\ Goes(a, [call[a] EXCEPT !.at = IF call[a].store = "state" THEN "open" ELSE "truncate",
                               !.data = Changed(a)])
    /\ UNCHANGED last

\* A state file that does not parse raises out of StateStore.atomic.
CannotRead(a) ==
    /\ Excluded(a) = {}
    /\ call[a].store = "state" /\ home["state"].is = "torn"
    /\ Goes(a, Rest(a)) /\ UNCHANGED last

Enter(a) ==
    /\ At(a, "lock")
    /\ \/ DeletesNothing(a)
       \/ (call[a].store = "state" => home["state"].is # "torn") /\ Reads(a)
       \/ CannotRead(a)
    /\ UNCHANGED <<portVars, home, old, tmp, from, calls, lost, plain>>

-----------------------------------------------------------------------------
(* Writes in place: truncate, then fill.                                   *)

Truncate(a) ==
    /\ At(a, "truncate")
    /\ home' = [home EXCEPT ![call[a].store] = Torn]
    /\ Goes(a, [call[a] EXCEPT !.at = "write"])
    /\ UNCHANGED <<portVars, old, tmp, from, calls, last, lost, plain>>

Fill(a) ==
    /\ At(a, "write")
    /\ home' = [home EXCEPT ![call[a].store] = Whole(call[a].data)]
    /\ IF GoesOn(a) THEN Commits("connections", Github, Unsure) /\ Goes(a, ToGithub(a, "delete"))
       ELSE /\ Goes(a, Rest(a))
            /\ IF call[a].store # "github" THEN Commits(call[a].store, call[a].key, call[a].value)
               ELSE IF last["connections"][Github] = Unsure THEN Commits("connections", Github, None)
               ELSE UNCHANGED last
    /\ UNCHANGED <<portVars, old, tmp, from, calls, lost, plain>>

-----------------------------------------------------------------------------
(* Writes of StateStore: fill a temporary file, then rename it.  Its name  *)
(* is the same for everybody; a rename takes the file away from those who  *)
(* have it open, and they go on writing into the file it has become.       *)

\* StateStore.write: everything at once, without the lock.
PlainWrite(a) ==
    /\ At(a, "idle")
    /\ calls + 2 <= MaxCalls /\ calls' = calls + 2
    /\ plain' = TRUE
    /\ \E k \in Key, v \in Value :
         Goes(a, [Idle EXCEPT !.at = "open", !.op = "write", !.key = k, !.value = v,
                              !.data = [Nothing EXCEPT ![k] = v]])
    /\ UNCHANGED <<portVars, home, old, tmp, from, last, lost>>

\* Mutant of Open: the file itself is opened and truncated.
OpenInPlace(a) ==
    /\ At(a, "open")
    /\ tmp' = Torn
    /\ home' = [home EXCEPT !["state"] = Torn]
    /\ Goes(a, [call[a] EXCEPT !.at = "fill", !.into = "tmp"])
    /\ UNCHANGED <<portVars, old, from, calls, last, lost, plain>>

Open(a) ==
    /\ At(a, "open")
    /\ tmp' = Torn
    /\ Goes(a, [call[a] EXCEPT !.at = "fill", !.into = "tmp"])
    /\ UNCHANGED <<portVars, home, old, from, calls, last, lost, plain>>

FillTmp(a) ==
    /\ At(a, "fill")
    /\ IF call[a].into = "tmp"
       THEN tmp' = Whole(call[a].data) /\ UNCHANGED home
       ELSE home' = [home EXCEPT !["state"] = Whole(call[a].data)] /\ UNCHANGED tmp
    /\ Goes(a, [call[a] EXCEPT !.at = "replace"])
    /\ UNCHANGED <<portVars, old, from, calls, last, lost, plain>>

Replace(a) ==
    /\ At(a, "replace") /\ tmp.is # "absent"
    /\ home' = [home EXCEPT !["state"] = tmp]
    /\ tmp' = Absent
    /\ call' = [b \in Actor |->
         IF b = a THEN Rest(a)
         ELSE IF call[b].at = "fill" THEN [call[b] EXCEPT !.into = "file"]
         ELSE call[b]]
    /\ Commits("state", call[a].key, call[a].value)
    /\ UNCHANGED <<portVars, old, from, calls, lost, plain>>

\* The temporary file has been renamed by somebody else: FileNotFoundError.
ReplaceFails(a) ==
    /\ At(a, "replace") /\ tmp.is = "absent"
    /\ Goes(a, Rest(a))
    /\ UNCHANGED <<portVars, home, old, tmp, from, calls, last, lost, plain>>

-----------------------------------------------------------------------------
(* A process dies; a new one takes its place.                              *)

\* The files the actors P leave truncated.
LeftTorn(P) == {call[a].store : a \in {b \in P : At(b, "write")}}

ClientDies(c) ==
    /\ ~At(c, "idle")
    /\ Goes(c, Idle)
    /\ UNCHANGED <<portVars, home, old, tmp, from, calls, last, lost, plain>>

\* The connections file of a deletion that had not come to its end is as good
\* as lost: half of the token may be left.
ServerDies ==
    /\ saving # "no" \/ \E a \in Thread : ~At(a, "idle")
    /\ call' = [a \in Actor |-> IF a \in Thread THEN Idle ELSE call[a]]
    /\ from' = Resolve(home["preferences"])
    /\ PortsCrash
    /\ lost' = lost \cup LeftTorn(Thread)
                    \cup (IF last["connections"][Github] = Unsure \/ "github" \in LeftTorn(Thread)
                          THEN {"connections"} ELSE {})
    /\ UNCHANGED <<home, old, tmp, calls, last, plain>>

Ports ==
    \/ PortsStep /\ calls < MaxCalls /\ calls' = calls + 1 /\ UNCHANGED <<storeVars, lost>>
    \/ (SaveTruncates \/ SaveWrites) /\ UNCHANGED <<storeVars, calls, lost>>

Next ==
    \/ Ports
    \/ \E a \in Actor :
         \/ ChangePreference(a) \/ ChangeToken(a) \/ ChangeState(a)
         \/ Enter(a) \/ Truncate(a) \/ Fill(a)
         \/ PlainWrite(a) \/ Open(a) \/ FillTmp(a) \/ Replace(a) \/ ReplaceFails(a)
    \/ \E c \in Client : ClientDies(c)
    \/ ServerDies

Spec == Init /\ [][Next]_vars

-----------------------------------------------------------------------------
(* Properties.                                                             *)

\* Every variable has its type.
TypeOK ==
    /\ PortsTypeOK
    /\ home \in [Store -> File] /\ old \in [Store -> File] /\ tmp \in File
    /\ call \in [Actor ->
         [at : {"idle", "lock"} \cup Inside, store : Store, op : {"set", "delete", "clean", "write"},
          key : Key, value : Value \cup {None}, data : [Key -> Value \cup {None}],
          into : {"tmp", "file"}]]
    /\ from \in {"home", "old"}
    /\ calls \in 0 .. MaxCalls /\ plain \in BOOLEAN
    /\ last \in [Store -> [Key -> Value \cup {None, Unsure}]]
    /\ lost \subseteq Store

\* Nobody is in a call on s.
Quiet(s) == \A a \in Actor :
    call[a].at = "idle" \/ call[a].store \notin (IF s = "connections" THEN {s, "github"} ELSE {s})

Kept(s) == Quiet(s) /\ s \notin lost => \A k \in Key : last[s][k] = Entry(s, k)

\* No update is lost: when no call is under way, every key of the connections,
\* of the preferences once their file is at home, and of a state file that is
\* only changed through StateStore.atomic, reads as
\* the last call on that key left it, whatever the threads and processes did to
\* the other keys and wherever a process died, unless it died between the
\* truncation and the write of that very file.  A deleted github token stays
\* deleted, in the older file too (credentials.py:105, state_api.py:58).
UpdatesKept ==
    /\ HomeHas => Kept("preferences")
    /\ Kept("connections")
    /\ ~plain => Kept("state")

\* Nobody ever finds half of a state file, also after a crash, as long as
\* nobody uses StateStore.write (state_api.py:22).
StateWhole == ~plain => home["state"].is # "torn"

\* Two services never have the same preferred port, two branches never the
\* same Supabase slot, and a branch is given the slot of a stack that is up, or
\* that stack forgets its own, only when the slot was released before the stack
\* was down (service_lifecycle.py:625, 777) or the server died between the
\* truncation and the write of the port file while that very stack was up
\* (file_lock.py:84), over any saves, releases and restarts (ports.py:109).
AllocationsApart ==
    /\ \A s, t \in Service : s # t /\ table.compose[s] = Default => table.compose[t] # Default
    /\ \A b, c \in Branch : b # c /\ table.slots[b] # NoPort => table.slots[b] # table.slots[c]
    /\ \A b \in Branch \ stray : up[b] # NoPort =>
         /\ up[b] = table.slots[b]
         /\ \A c \in Branch \ {b} : up[b] # table.slots[c]

\* The start of a stack writes its ports into the sections they belong to and
\* changes nothing else, whichever sections and keys the file has
\* (supabase.py:257-281).  Evaluated once, in the initial state.
PatchIsExact == Init => \A lines \in ConfigFiles : PatchesExactly(lines, SlotPorts, ProjectId)
=============================================================================
