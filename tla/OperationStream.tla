-------------------------- MODULE OperationStream --------------------------
(***************************************************************************)
(* One operation as its clients see it: OperationTracker                   *)
(* (serve/operation_progress.py) broadcasts each event over the bus and    *)
(* then records it in OperationRegistry (serve/operations.py); a client of *)
(* GET /api/operations/{id}/events (serve/routers/services.py) first reads *)
(* what was recorded and then follows what EventManager                    *)
(* (serve/events.py) broadcasts.  Operations share nothing but the queues  *)
(* of the clients, so the others appear as messages Other.                 *)
(***************************************************************************)
EXTENDS Naturals, Sequences, FiniteSets, SequencesExt

CONSTANTS
  Client,      \* requests for the stream of the operation
  Line,        \* lines of output, each emitted by a coroutine of its own
  MaxUpdates,  \* bound: how often the operation reports a phase
  Done,        \* the event that complete() or fail() emits
  Other,       \* a message about something else
  MaxOther,    \* bound: how many of these are broadcast
  MaxEvents,   \* MAX_EVENTS_PER_OP
  QueueSize,   \* maxsize of a client's queue
  CheckEvery,  \* a client looks at the registry every so many messages
  Since        \* bound: what the requests give as since

ASSUME StreamAssumption ==
  /\ MaxUpdates \in Nat /\ MaxOther \in Nat
  /\ MaxEvents \in Nat \ {0} /\ QueueSize \in Nat \ {0} /\ CheckEvery \in Nat \ {0}
  /\ Since \subseteq Nat
  /\ Done # Other
  /\ {Done, Other} \cap (Line \cup Nat) = {} /\ Line \cap Nat = {}

VARIABLES
  stage,   \* how far the emission of each event is
  status,  \* of the OperationRecord, "none" before register, "expired" after
  events,  \* its ring buffer
  others,  \* Other messages broadcast so far
  client,  \* where each request is
  since,   \* the index in the buffer it wants the events from
  skipped, \* the events of the buffer before that
  todo,    \* what is left to send of the events it read
  queue,   \* its subscription
  count,   \* msg_count % CheckEvery
  got,     \* the events the client was sent, in their order
  gap,     \* the messages that its catch-up could not see
  lost     \* the events its full queue refused

clientVars == <<client, since, skipped, todo, queue, count, got, gap, lost>>
vars == <<stage, status, events, others, clientVars>>

Phase == 1 .. MaxUpdates + 1   \* phase 1 is "Starting..."
Event == Phase \cup Line \cup {Done}
Outcome == {"completed", "failed"}
\* Mutant of Subscribed: the client subscribes before it reads the buffer.
SubscribedEarly == {c \in Client : client[c] \in {"found", "catchup", "live"}}

Subscribed == {c \in Client : client[c] = "live"}

\* Events that were broadcast and are not in the buffer: not recorded yet,
\* or overwritten.
Unreadable == {e \in Event : stage[e] \in {"sent", "recorded"}} \ ToSet(events)

Init ==
  /\ stage = [e \in Event |-> "new"]
  /\ status = "none"
  /\ events = <<>>
  /\ others = 0
  /\ client = [c \in Client |-> "away"]
  /\ since \in [Client -> Since]
  /\ skipped = [c \in Client |-> {}]
  /\ todo = [c \in Client |-> <<>>]
  /\ queue = [c \in Client |-> <<>>]
  /\ count = [c \in Client |-> 0]
  /\ got = [c \in Client |-> <<>>]
  /\ gap = [c \in Client |-> {}]
  /\ lost = [c \in Client |-> {}]

-----------------------------------------------------------------------------
(***************************************************************************)
(* The tracker.  The calls of one tracker follow each other: a phase is    *)
(* emitted when the one before is recorded.                                *)
(***************************************************************************)
Fire(e) == stage' = [stage EXCEPT ![e] = "firing"]

\* start(): the record is there before the first event.
Start ==
  /\ status = "none"
  /\ status' = "running"
  /\ Fire(1)
  /\ UNCHANGED <<events, others, clientVars>>

TrackerIdle == \A e \in Phase : stage[e] \in {"new", "recorded"}

Update(n) ==
  /\ n > 1 /\ stage[n] = "new" /\ stage[n - 1] = "recorded"
  /\ stage[Done] = "new"
  /\ Fire(n)
  /\ UNCHANGED <<status, events, others, clientVars>>

\* complete() or fail(), whichever comes first: the other finds _done.
Close ==
  /\ status # "none" /\ TrackerIdle /\ stage[Done] = "new"
  /\ Fire(Done)
  /\ UNCHANGED <<status, events, others, clientVars>>

\* A reader thread hands a line over; its coroutine may run after Close.
Output(l) ==
  /\ stage[1] = "recorded" /\ stage[l] = "new"
  /\ Fire(l)
  /\ UNCHANGED <<status, events, others, clientVars>>

\* Every subscribed queue with room takes the message.
Deliver(m) ==
  LET room == {c \in Subscribed : Len(queue[c]) < QueueSize}
  IN /\ queue' = [c \in Client |-> IF c \in room THEN Append(queue[c], m) ELSE queue[c]]
     /\ lost' = [c \in Client |->
                   IF c \in Subscribed \ room THEN lost[c] \cup {m} ELSE lost[c]]
     /\ gap' = [c \in Client |-> IF client[c] = "catchup" THEN gap[c] \cup {m} ELSE gap[c]]

Broadcast(e) ==
  /\ stage[e] = "firing"
  /\ stage' = [stage EXCEPT ![e] = "sent"]
  /\ Deliver(e)
  /\ UNCHANGED <<status, events, others, client, todo, count, got, since, skipped>>

Ring(buffer, e) ==
  LET all == Append(buffer, e)
  IN IF Len(all) > MaxEvents THEN Tail(all) ELSE all

\* record_event, and for the final event mark_complete or mark_failed.
Record(e) ==
  /\ stage[e] = "sent"
  /\ stage' = [stage EXCEPT ![e] = "recorded"]
  /\ events' = IF status = "expired" THEN events ELSE Ring(events, e)
  /\ IF e = Done /\ status = "running" THEN status' \in Outcome ELSE UNCHANGED status
  /\ UNCHANGED <<others, clientVars>>

\* GET /api/operations forgets operations that ended five minutes ago.
Expire ==
  /\ status \in Outcome
  /\ status' = "expired"
  /\ events' = <<>>
  /\ UNCHANGED <<stage, others, clientVars>>

BroadcastOther ==
  /\ others < MaxOther
  /\ others' = others + 1
  /\ Deliver(Other)
  /\ UNCHANGED <<stage, status, events, client, todo, count, got, since, skipped>>

-----------------------------------------------------------------------------
(***************************************************************************)
(* The client.  Nothing is awaited between the look at the registry and    *)
(* the subscription, so Subscribe is one step; every message sent is one.  *)
(***************************************************************************)
Goto(c, place) == client' = [client EXCEPT ![c] = place]

Open(c) ==
  /\ client[c] = "away" /\ status # "none"
  /\ Goto(c, IF status = "expired" THEN "refused" ELSE "found")
  /\ UNCHANGED <<stage, status, events, others, todo, queue, count, got, gap, lost, since, skipped>>

\* The events of the buffer that the request passes over.  since counts in
\* the buffer as it is now, from which the oldest events may have fallen:
\* it is not the number of an event of the operation.
Passed(c) == {events[i] : i \in {j \in DOMAIN events : j <= since[c]}}

\* Mutant of ReadEvents: since is taken as a 1-based index.
ReadEventsOffByOne(c) ==
  /\ client[c] = "found"
  /\ Goto(c, "catchup")
  /\ todo' = [todo EXCEPT ![c] = SubSeq(events, since[c] + 2, Len(events))]
  /\ skipped' = [skipped EXCEPT ![c] = Passed(c)]
  /\ gap' = [gap EXCEPT ![c] = Unreadable]
  /\ UNCHANGED <<stage, status, events, others, since, queue, count, got, lost>>

ReadEvents(c) ==
  /\ client[c] = "found"
  /\ Goto(c, "catchup")
  /\ todo' = [todo EXCEPT ![c] = SubSeq(events, since[c] + 1, Len(events))]
  /\ skipped' = [skipped EXCEPT ![c] = Passed(c)]
  /\ gap' = [gap EXCEPT ![c] = Unreadable]
  /\ UNCHANGED <<stage, status, events, others, since, queue, count, got, lost>>

SendBuffered(c) ==
  /\ client[c] = "catchup" /\ todo[c] # <<>>
  /\ got' = [got EXCEPT ![c] = Append(@, Head(todo[c]))]
  /\ todo' = [todo EXCEPT ![c] = Tail(@)]
  /\ UNCHANGED <<stage, status, events, others, client, queue, count, gap, lost, since, skipped>>

Subscribe(c) ==
  /\ client[c] = "catchup" /\ todo[c] = <<>>
  /\ Goto(c, IF status \in Outcome THEN "closed" ELSE "live")
  /\ UNCHANGED <<stage, status, events, others, todo, queue, count, got, gap, lost, since, skipped>>

\* What follows a message of the stream, a heartbeat included: with the
\* final event the stream closes, and every CheckEvery messages it closes
\* when the registry says that the operation has ended.
After(c, m) ==
  LET n == (count[c] + 1) % CheckEvery
      ends == m = Done \/ (n = 0 /\ status \in Outcome)
  IN /\ count' = [count EXCEPT ![c] = n]
     /\ Goto(c, IF ends THEN "closed" ELSE "live")

Receive(c) ==
  /\ client[c] = "live" /\ queue[c] # <<>>
  /\ LET m == Head(queue[c])
     IN /\ got' = IF m = Other THEN got ELSE [got EXCEPT ![c] = Append(@, m)]
        /\ After(c, m)
        /\ queue' = [queue EXCEPT ![c] = Tail(@)]
  /\ UNCHANGED <<stage, status, events, others, todo, gap, lost, since, skipped>>

\* Mutant of Heartbeat: it is not counted.
HeartbeatUncounted(c) ==
  /\ client[c] = "live" /\ queue[c] = <<>>
  /\ UNCHANGED vars

\* The queue stayed empty for HEARTBEAT_INTERVAL.
Heartbeat(c) ==
  /\ client[c] = "live" /\ queue[c] = <<>>
  /\ After(c, Other)
  /\ UNCHANGED <<stage, status, events, others, todo, queue, got, gap, lost, since, skipped>>

Leave(c) ==
  /\ client[c] \in {"found", "catchup", "live"}
  /\ Goto(c, "left")
  /\ UNCHANGED <<stage, status, events, others, todo, queue, count, got, gap, lost, since, skipped>>

-----------------------------------------------------------------------------
Tracker ==
  \/ Start
  \/ \E n \in Phase : Update(n)
  \/ Close
  \/ \E l \in Line : Output(l)
  \/ \E e \in Event : Broadcast(e) \/ Record(e)

Follow(c) == ReadEvents(c) \/ SendBuffered(c) \/ Subscribe(c) \/ Receive(c) \/ Heartbeat(c)

Next ==
  \/ Tracker
  \/ Expire
  \/ BroadcastOther
  \/ \E c \in Client : Open(c) \/ Follow(c) \/ Leave(c)

Spec == Init /\ [][Next]_vars

\* A broadcast is followed by its record, the operation ends, and the
\* connection of a client that stays takes what it is sent.
FairSpec ==
  /\ Spec
  /\ WF_vars(Close)
  /\ \A e \in Event : WF_vars(Broadcast(e)) /\ WF_vars(Record(e))
  /\ \A c \in Client : WF_vars(Follow(c))

-----------------------------------------------------------------------------
TypeOK ==
  /\ stage \in [Event -> {"new", "firing", "sent", "recorded"}]
  /\ status \in {"none", "running", "expired"} \cup Outcome
  /\ events \in Seq(Event) /\ Len(events) <= MaxEvents
  /\ others \in 0 .. MaxOther
  /\ client \in [Client -> {"away", "found", "refused", "catchup", "live", "closed", "left"}]
  /\ since \in [Client -> Since]
  /\ skipped \in [Client -> SUBSET Event]
  /\ todo \in [Client -> Seq(Event)]
  /\ queue \in [Client -> Seq(Event \cup {Other})]
  /\ \A c \in Client : Len(queue[c]) <= QueueSize
  /\ count \in [Client -> 0 .. CheckEvery - 1]
  /\ got \in [Client -> Seq(Event)]
  /\ gap \in [Client -> SUBSET (Event \cup {Other})]
  /\ lost \in [Client -> SUBSET (Event \cup {Other})]

(***************************************************************************)
(* A client is sent no event twice, and the phases in the order of the     *)
(* operation, over the change from the buffer to the live stream, though   *)
(* it reads the one and subscribes to the other in two steps               *)
(* (routers/services.py:767 and 780).  It rests on _emit broadcasting      *)
(* before it records.                                                      *)
(***************************************************************************)
OnceInOrder ==
  \A c \in Client :
    /\ IsInjective(got[c])
    /\ \A i, j \in 1 .. Len(got[c]) :
         i < j /\ {got[c][i], got[c][j]} \subseteq Phase => got[c][i] < got[c][j]

(***************************************************************************)
(* What a client that follows the operation misses is accounted for: an    *)
(* event that was broadcast reaches it, unless it was not in the buffer    *)
(* when the client read that (not yet recorded, or overwritten), was       *)
(* broadcast between the read and the subscription, found the queue of     *)
(* the client full, or was passed over by the since of the request, which  *)
(* costs a client at most since events and one that asks for all none      *)
(* (get_events, operations.py:121).                                        *)
(***************************************************************************)
MissedIsExplained ==
  \A c \in Subscribed :
    /\ \A e \in Event :
         stage[e] \in {"sent", "recorded"} =>
           e \in ToSet(got[c]) \cup ToSet(queue[c]) \cup gap[c] \cup lost[c] \cup skipped[c]
    /\ Cardinality(skipped[c]) <= since[c]

(***************************************************************************)
(* The stream of an operation that has ended closes as long as the record  *)
(* is kept, whether or not the final event reached the client: the look    *)
(* at the registry every CheckEvery messages, heartbeats included, sees it.*)
(***************************************************************************)
StreamsEnd ==
  \A c \in Client :
    client[c] \in {"found", "catchup", "live"} ~>
      client[c] \in {"closed", "left"} \/ status = "expired"

=============================================================================
