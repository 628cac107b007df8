------------------------------ MODULE EventBus ------------------------------
(***************************************************************************)
(* bus/dispatch.py with the subscribers the server installs: the forwarder *)
(* to the clients (bus/subscribers/sse.py), the audit log                  *)
(* (bus/subscribers/audit.py) and the handlers of plugins, which           *)
(* plugins/loader.py wraps so that their module is imported at the first   *)
(* event.                                                                  *)
(*                                                                         *)
(* fire() runs every handler of a DONE event: the async ones in tasks of   *)
(* the loop, the others in threads, and ends when all of them have.  The   *)
(* steps of the loop are LoopStep: whoever blocks the loop stops them.     *)
(* What the forwarder does with the event is of the module that composes   *)
(* this one.                                                               *)
(***************************************************************************)
EXTENDS Integers, Sequences, FiniteSets, SequencesExt

CONSTANTS
    Caller,          \* who fires: one event at a time each
    Audited,         \* the event types registered with audit=True
    Plugin,          \* the subscriptions of plugins
    Subscribed       \* the event types of each

ASSUME BusAssumption ==
    /\ Subscribed \in [Plugin -> SUBSET STRING]
    /\ Plugin \cap {"sse", "audit"} = {}  \* each handler is a function of its own

VARIABLES
    firing,          \* the event each caller fires, and the handlers that have not ended
    auditLog,        \* the lines of the audit log
    cache,           \* what a lazy handler remembers of its import
    called,          \* the events each plugin function was called with
    failed           \* the handlers that raised, with the event

busVars == <<firing, auditLog, cache, called, failed>>

Sse == "sse"
Audit == "audit"
Nothing == [type |-> "none"]

\* The subscribers of an event type, as the server start and the loader install them.
HandlersOf(t) ==
    {Sse} \cup {a \in {Audit} : t \in Audited} \cup {p \in Plugin : t \in Subscribed[p]}

BusInit ==
    /\ firing = [c \in Caller |-> [event |-> Nothing, todo |-> {}]]
    /\ auditLog = {} /\ cache = [p \in Plugin |-> "empty"]
    /\ called = {} /\ failed = {}

Firing(c) == firing[c].event # Nothing

\* The caller awaits fire(e).
Fire(c, e) == firing' = [firing EXCEPT ![c] = [event |-> e, todo |-> HandlersOf(e.type)]]

\* Mutant of Gathered: the first exception ends the gather.
GatheredOrRaised(c) == \/ firing[c].todo = {}
                    \/ \E h \in Plugin \cup {Audit} : <<h, firing[c].event>> \in failed

\* The gather is complete: fire() returns.
Gathered(c) == firing[c].todo = {}

Fired(c) == /\ Firing(c) /\ Gathered(c)
            /\ firing' = [firing EXCEPT ![c] = [event |-> Nothing, todo |-> {}]]
            /\ UNCHANGED <<auditLog, cache, called, failed>>

\* One handler of an event has ended; what it raises is logged.
HandlerEnds(c, h, raised) ==
    /\ h \in firing[c].todo
    /\ firing' = [firing EXCEPT ![c].todo = @ \ {h}]
    /\ failed' = IF raised THEN failed \cup {<<h, firing[c].event>>} ELSE failed

\* The forwarder to the clients, a coroutine without an await of its own.
Forwarded(c) == HandlerEnds(c, Sse, FALSE) /\ UNCHANGED <<auditLog, cache, called>>

\* audit_subscriber, in a thread: a line under a lock of the file, or an OSError.
AuditEnds(c) ==
    /\ \/ HandlerEnds(c, Audit, FALSE) /\ auditLog' = auditLog \cup {firing[c].event}
       \/ HandlerEnds(c, Audit, TRUE) /\ UNCHANGED auditLog
    /\ UNCHANGED <<cache, called>>

\* _import_module_from_file and getattr: the function, or the failure for good.
Import(p) == cache[p] = "empty" /\ cache' \in {[cache EXCEPT ![p] = v] : v \in {"fn", "failed"}}

\* _lazy: the import at the first event, the call at every one; both in the loop.
PluginEnds(c, p) ==
    /\ \/ Import(p)
       \/ cache[p] # "empty" /\ UNCHANGED cache
    /\ \/ /\ cache'[p] = "fn"
          /\ called' = called \cup {<<p, firing[c].event>>}
          /\ \E raised \in BOOLEAN : HandlerEnds(c, p, raised)
       \/ cache'[p] = "failed" /\ HandlerEnds(c, p, FALSE) /\ UNCHANGED called
    /\ UNCHANGED auditLog
=============================================================================
