--------------------------- MODULE PortAllocator ---------------------------
(***************************************************************************)
(* serve/ports.py: the ports of compose services and the Supabase slots,   *)
(* kept in memory and written whole to serve-ports.json after every        *)
(* change.  The file is written in place by write_json_locked: truncated   *)
(* first, filled next, so a server that dies in between leaves a file that *)
(* does not parse, which the next server takes for an empty one.           *)
(*                                                                         *)
(* A stack is up or down whatever the allocator says of it: its slot may   *)
(* be released while it is up, and the file may forget it.                 *)
(*                                                                         *)
(* All of it runs on the event loop without an await: between the change   *)
(* in memory and the end of the write nothing else happens in the server,  *)
(* but the server can die.                                                 *)
(***************************************************************************)
EXTENDS Integers, FiniteSets

CONSTANTS
    Service,         \* the keys of compose services
    Branch,          \* the branches that may have a Supabase stack
    Default,         \* the preferred port of every service here (_DEFAULTS)
    Ephemeral,       \* the ports the system may offer
    MaxStacks,       \* MAX_SUPABASE_STACKS
    NoPort           \* no allocation

ASSUME PortsAssumption ==
    /\ MaxStacks \in Nat \ {0}
    /\ Default \notin Ephemeral  \* _find_free binds port 0: the ephemeral range
    /\ NoPort \notin Ephemeral \cup {Default} \cup Nat

VARIABLES
    table,           \* the allocations in memory, by service and by branch
    portFile,        \* the allocations in the file
    torn,            \* the file is truncated and not yet filled
    saving,          \* how far _save has come: "no", "truncate" or "write"
    up,              \* the slot every stack listens with
    stray            \* the stacks that are up though their slot was released,
                     \* or lost to a death inside a save

portVars == <<table, portFile, torn, saving, up, stray>>

Slot == 0 .. MaxStacks - 1
Empty == [compose |-> [s \in Service |-> NoPort], slots |-> [b \in Branch |-> NoPort]]

Taken(f) == {f[x] : x \in DOMAIN f} \ {NoPort}

PortsInit ==
    /\ table = Empty /\ portFile = Empty
    /\ torn = FALSE /\ saving = "no"
    /\ up = [b \in Branch |-> NoPort] /\ stray = {}

\* The change in memory that the rest of the handler writes to the file.
Change(t) ==
    /\ saving = "no"
    /\ table' = t
    /\ saving' = "truncate"
    /\ UNCHANGED <<portFile, torn>>

\* The port of a new allocation: the preferred one when nothing listens on it
\* and no other service has it, else whatever the system offers.
FreePort(occupied) ==
    IF ~occupied /\ Default \notin Taken(table.compose) THEN {Default} ELSE Ephemeral

Allocate(s) ==
    /\ table.compose[s] = NoPort
    /\ \E occupied \in BOOLEAN : \E p \in FreePort(occupied) :
         Change([table EXCEPT !.compose[s] = p])
    /\ UNCHANGED <<up, stray>>

Release(s) ==
    /\ table.compose[s] # NoPort
    /\ Change([table EXCEPT !.compose[s] = NoPort])
    /\ UNCHANGED <<up, stray>>

\* Mutant of LowestFree: as many stacks as there are, as the number of the next.
LowestFreeCounted(used) == Cardinality(used)

LowestFree(used) == CHOOSE n \in Slot : n \notin used /\ \A m \in Slot : m < n => m \in used

AllocateSlot(b) ==
    /\ table.slots[b] = NoPort
    /\ Cardinality(Taken(table.slots)) < MaxStacks
    /\ Change([table EXCEPT !.slots[b] = LowestFree(Taken(table.slots))])
    /\ UNCHANGED <<up, stray>>

\* After a stop, which has taken the stack down; but also after a start that
\* failed, a forced stop or a cleanup whose command failed, and when a new
\* server does not reach the stack: then it may still be up.
ReleaseSlot(b) ==
    /\ table.slots[b] # NoPort
    /\ Change([table EXCEPT !.slots[b] = NoPort])
    /\ stray' = IF up[b] # NoPort THEN stray \cup {b} ELSE stray
    /\ UNCHANGED up

\* A stack is started by a thread, after its slot was saved.
StackStarts(b) ==
    /\ up[b] = NoPort
    /\ table.slots[b] # NoPort /\ portFile.slots[b] = table.slots[b]
    /\ up' = [up EXCEPT ![b] = table.slots[b]]
    /\ UNCHANGED <<table, portFile, torn, saving, stray>>

\* It is stopped, or ends by itself.
StackStops(b) ==
    /\ up[b] # NoPort
    /\ up' = [up EXCEPT ![b] = NoPort]
    /\ stray' = stray \ {b}
    /\ UNCHANGED <<table, portFile, torn, saving>>

SaveTruncates ==
    /\ saving = "truncate"
    /\ saving' = "write" /\ torn' = TRUE
    /\ UNCHANGED <<table, portFile, up, stray>>

SaveWrites ==
    /\ saving = "write"
    /\ saving' = "no" /\ torn' = FALSE
    /\ portFile' = table
    /\ UNCHANGED <<table, up, stray>>

\* What a new server finds: nothing in a file that does not parse.  That file
\* stays as it is until the next save, and reads as one without entries.
Reload == IF torn THEN Empty ELSE portFile

PortsCrash ==
    /\ table' = Reload /\ portFile' = Reload
    /\ saving' = "no" /\ torn' = FALSE
    /\ stray' = IF torn THEN {b \in Branch : up[b] # NoPort} ELSE stray
    /\ UNCHANGED up

PortsStep ==
    \/ \E s \in Service : Allocate(s) \/ Release(s)
    \/ \E b \in Branch : AllocateSlot(b) \/ ReleaseSlot(b) \/ StackStarts(b) \/ StackStops(b)

\* Every variable has its type.
PortsTypeOK ==
    /\ table \in [compose : [Service -> Ephemeral \cup {Default, NoPort}],
                  slots : [Branch -> Slot \cup {NoPort}]]
    /\ portFile \in [compose : [Service -> Ephemeral \cup {Default, NoPort}],
                     slots : [Branch -> Slot \cup {NoPort}]]
    /\ torn \in BOOLEAN
    /\ saving \in {"no", "truncate", "write"}
    /\ up \in [Branch -> Slot \cup {NoPort}]
    /\ stray \subseteq Branch
=============================================================================
