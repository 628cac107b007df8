----------------------- MODULE OperationStreamProofs -----------------------
(***************************************************************************)
(* Proofs about OperationStream, for any number of clients, lines, updates *)
(* and other messages and any sizes of the buffers.  What a client has     *)
(* been sent, what it has yet to be sent of the buffer and what waits in   *)
(* its queue are one stream; the invariant orders all of it, and ties it   *)
(* to how far the emission of each event is.                               *)
(***************************************************************************)
EXTENDS OperationStream, FunctionTheorems, FiniteSetTheorems, TLAPS

Messages == Event \cup {Other}

(* What may come after what in the stream of a client.                     *)
Follows(a, b) ==
  a # Other /\ b # Other => a # b /\ (a \in Phase /\ b \in Phase => a < b)

Ordered(s) == \A i, j \in DOMAIN s : i < j => Follows(s[i], s[j])
Precedes(s, t) == \A i \in DOMAIN s, j \in DOMAIN t : Follows(s[i], t[j])

(* Nothing is emitted before the start, and the phases one after the other. *)
OneAtATime ==
  /\ status = "none" => \A e \in Event : stage[e] = "new"
  /\ \A m, n \in Phase : m < n /\ stage[n] # "new" => stage[m] = "recorded"

(* The buffer has recorded events, in the order of the operation.          *)
BufferInOrder ==
  /\ Ordered(events)
  /\ \A i \in DOMAIN events : stage[events[i]] = "recorded"

(* The stream of a client: the two parts and the queue behind each other.  *)
StreamInOrder ==
  \A c \in Client :
    /\ client[c] \in {"away", "found", "refused"} => got[c] = <<>>
    /\ client[c] \in {"away", "found", "refused", "live"} => todo[c] = <<>>
    /\ client[c] \in {"away", "found", "refused", "catchup"} => queue[c] = <<>>
    /\ Ordered(got[c]) /\ Ordered(todo[c]) /\ Ordered(queue[c])
    /\ Precedes(got[c], todo[c]) /\ Precedes(got[c], queue[c])

(* Nothing is sent, or waits to be sent, that was not broadcast.           *)
OnlyBroadcast ==
  \A c \in Client :
    /\ \A i \in DOMAIN got[c] : stage[got[c][i]] \in {"sent", "recorded"}
    /\ \A i \in DOMAIN todo[c] : stage[todo[c][i]] \in {"sent", "recorded"}
    /\ \A i \in DOMAIN queue[c] :
         queue[c][i] # Other => stage[queue[c][i]] \in {"sent", "recorded"}

(* While a client catches up it will have what was in the buffer but what  *)
(* it passed over, and the rest is what the catch-up cannot see.           *)
CatchUpExplained ==
  \A c \in Client : client[c] = "catchup" =>
    \A e \in Event : stage[e] \in {"sent", "recorded"} =>
      e \in ToSet(got[c]) \cup ToSet(todo[c]) \cup gap[c] \cup skipped[c]

(* A request passes over at most since events.                             *)
FewSkipped == \A c \in Client : Cardinality(skipped[c]) <= since[c]

IInv ==
  /\ TypeOK
  /\ OneAtATime
  /\ BufferInOrder
  /\ StreamInOrder
  /\ OnlyBroadcast
  /\ CatchUpExplained
  /\ FewSkipped
  /\ MissedIsExplained

-----------------------------------------------------------------------------
(* Lists of messages.                                                      *)

LEMMA AppendOrdered ==
  ASSUME NEW s \in Seq(Messages), NEW m \in Messages,
         Ordered(s), \A i \in DOMAIN s : Follows(s[i], m)
  PROVE  Ordered(Append(s, m))
BY DEF Ordered

LEMMA TailOrdered ==
  ASSUME NEW s \in Seq(Messages), s # <<>>, Ordered(s)
  PROVE  Ordered(Tail(s))
BY DEF Ordered

(* The next message goes from the second list to the end of the first.     *)
LEMMA HeadMoves ==
  ASSUME NEW s \in Seq(Messages), NEW t \in Seq(Messages), t # <<>>,
         Ordered(s), Ordered(t), Precedes(s, t)
  PROVE  /\ Ordered(Append(s, Head(t)))
         /\ Precedes(s, Tail(t)) /\ Precedes(Append(s, Head(t)), Tail(t))
<1>1. Head(t) = t[1] /\ Head(t) \in Messages
  OBVIOUS
<1>2. Ordered(Append(s, Head(t)))
  BY <1>1, AppendOrdered DEF Precedes
<1>3. \A j \in DOMAIN Tail(t) : j + 1 \in DOMAIN t /\ 1 < j + 1 /\ Tail(t)[j] = t[j + 1]
  OBVIOUS
<1>4. Precedes(s, Tail(t))
  BY <1>3 DEF Precedes
<1>5. \A j \in DOMAIN Tail(t) : Follows(Head(t), Tail(t)[j])
  BY <1>1, <1>3 DEF Ordered
<1>6. Precedes(Append(s, Head(t)), Tail(t))
  <2> SUFFICES ASSUME NEW i \in DOMAIN Append(s, Head(t)), NEW j \in DOMAIN Tail(t)
               PROVE  Follows(Append(s, Head(t))[i], Tail(t)[j])
    BY DEF Precedes
  <2>1. CASE i \in DOMAIN s
    BY <1>1, <1>4, <2>1 DEF Precedes
  <2>2. CASE i = Len(s) + 1
    BY <1>1, <1>5, <2>2
  <2> QED BY <1>1, <2>1, <2>2
<1> QED BY <1>2, <1>4, <1>6

LEMMA SetOfAppend ==
  ASSUME NEW s \in Seq(Messages), NEW m \in Messages
  PROVE  ToSet(Append(s, m)) = ToSet(s) \cup {m}
<1>1. DOMAIN Append(s, m) = DOMAIN s \cup {Len(s) + 1}
  OBVIOUS
<1>2. Append(s, m)[Len(s) + 1] = m /\ \A i \in DOMAIN s : Append(s, m)[i] = s[i]
  OBVIOUS
<1> QED BY <1>1, <1>2 DEF ToSet

LEMMA SetOfTail ==
  ASSUME NEW s \in Seq(Messages), s # <<>>
  PROVE  ToSet(s) = {Head(s)} \cup ToSet(Tail(s))
<1>1. Head(s) = s[1] /\ 1 \in DOMAIN s
  OBVIOUS
<1>2. \A j \in DOMAIN Tail(s) : j + 1 \in DOMAIN s /\ Tail(s)[j] = s[j + 1]
  OBVIOUS
<1>3. ASSUME NEW i \in DOMAIN s, i # 1
      PROVE  i - 1 \in DOMAIN Tail(s) /\ Tail(s)[i - 1] = s[i]
  <2>1. i - 1 \in DOMAIN Tail(s) /\ (i - 1) + 1 = i
    BY <1>3
  <2> QED BY <1>2, <2>1
<1>4. ASSUME NEW x \in ToSet(s) PROVE x \in {Head(s)} \cup ToSet(Tail(s))
  <2>1. PICK i \in DOMAIN s : s[i] = x
    BY <1>4 DEF ToSet
  <2>2. i # 1 => x \in ToSet(Tail(s))
    BY <1>3, <2>1 DEF ToSet
  <2> QED BY <1>1, <2>1, <2>2
<1>5. ASSUME NEW x \in {Head(s)} \cup ToSet(Tail(s)) PROVE x \in ToSet(s)
  BY <1>1, <1>2, <1>5 DEF ToSet
<1> QED BY <1>4, <1>5

LEMMA EventsAreMessages ==
  ASSUME NEW s \in Seq(Event)
  PROVE  s \in Seq(Messages)
BY DEF Messages

LEMMA AppendNotEmpty ==
  ASSUME NEW s \in Seq(Messages), NEW m \in Messages
  PROVE  Append(s, m) \in Seq(Messages) /\ Append(s, m) # <<>>
<1>1. 1 \in DOMAIN Append(s, m)
  OBVIOUS
<1>2. DOMAIN <<>> = {}
  OBVIOUS
<1> QED BY <1>1, <1>2

(* What a reader that passes over n events of a list gets of it.           *)
LEMMA Rest ==
  ASSUME NEW s \in Seq(Event), NEW n \in Nat
  PROVE  LET t == SubSeq(s, n + 1, Len(s))
         IN  /\ t \in Seq(Event)
             /\ \A j \in DOMAIN t : j + n \in DOMAIN s /\ t[j] = s[j + n]
             /\ \A i \in DOMAIN s : i > n => i - n \in DOMAIN t /\ t[i - n] = s[i]
OBVIOUS

LEMMA EmptyLists == Ordered(<<>>) /\ ToSet(<<>>) = {}
BY DEF Ordered, ToSet

-----------------------------------------------------------------------------
(* Types, the emission and the buffer.                                     *)

LEMMA Buffered ==
  ASSUME NEW buffer \in Seq(Event), Len(buffer) <= MaxEvents, NEW e \in Event
  PROVE  Ring(buffer, e) \in Seq(Event) /\ Len(Ring(buffer, e)) <= MaxEvents
BY StreamAssumption DEF Ring

LEMMA ReceiveTypes ==
  ASSUME TypeOK, NEW c \in Client, Receive(c)
  PROVE  TypeOK'
<1> DEFINE m == Head(queue[c])
<1>1. m \in Event \cup {Other} /\ Tail(queue[c]) \in Seq(Event \cup {Other})
  BY DEF Receive, TypeOK
<1>2. Len(Tail(queue[c])) <= QueueSize
  <2>1. /\ queue[c] \in Seq(Event \cup {Other}) /\ queue[c] # <<>>
        /\ Len(queue[c]) <= QueueSize
    BY DEF Receive, TypeOK
  <2> QED BY <2>1, StreamAssumption
<1>3. (count[c] + 1) % CheckEvery \in 0 .. CheckEvery - 1
  BY StreamAssumption DEF TypeOK
<1>4. got' \in [Client -> Seq(Event)]
  BY <1>1 DEF Receive, TypeOK
<1>5. count' \in [Client -> 0 .. CheckEvery - 1]
  BY <1>3 DEF Receive, After, TypeOK
<1>6. client' \in [Client -> {"away", "found", "refused", "catchup", "live", "closed", "left"}]
  BY DEF Receive, After, Goto, TypeOK
<1> QED BY <1>1, <1>2, <1>4, <1>5, <1>6 DEF Receive, TypeOK

LEMMA TypeStep ==
  ASSUME TypeOK, [Next]_vars
  PROVE  TypeOK'
<1> USE StreamAssumption DEF Phase, Event, clientVars
<1>1. CASE Start
  BY <1>1 DEF Start, Fire, TypeOK
<1>2. ASSUME NEW n \in Phase, Update(n) PROVE TypeOK'
  BY <1>2 DEF Update, Fire, TypeOK
<1>3. CASE Close
  BY <1>3 DEF Close, Fire, TypeOK
<1>4. ASSUME NEW l \in Line, Output(l) PROVE TypeOK'
  BY <1>4 DEF Output, Fire, TypeOK
<1>5. ASSUME NEW m \in Event \cup {Other}, Deliver(m)
      PROVE  /\ queue' \in [Client -> Seq(Event \cup {Other})]
             /\ \A c \in Client : Len(queue'[c]) <= QueueSize
             /\ lost' \in [Client -> SUBSET (Event \cup {Other})]
             /\ gap' \in [Client -> SUBSET (Event \cup {Other})]
  BY <1>5 DEF Deliver, Subscribed, TypeOK
<1>6. ASSUME NEW e \in Event, Broadcast(e) PROVE TypeOK'
  BY <1>5, <1>6 DEF Broadcast, TypeOK
<1>7. ASSUME NEW e \in Event, Record(e) PROVE TypeOK'
  BY <1>7, Buffered DEF Record, Outcome, TypeOK
<1>8. CASE Expire
  BY <1>8 DEF Expire, TypeOK
<1>9. CASE BroadcastOther
  <2>1. Deliver(Other) /\ others' \in 0 .. MaxOther
    BY <1>9 DEF BroadcastOther, TypeOK
  <2> QED BY <1>5, <1>9, <2>1 DEF BroadcastOther, TypeOK
<1>10. ASSUME NEW c \in Client, Open(c) \/ Subscribe(c) \/ Leave(c) PROVE TypeOK'
  BY <1>10 DEF Open, Subscribe, Leave, Goto, TypeOK
<1>11. ASSUME NEW c \in Client, ReadEvents(c) PROVE TypeOK'
  <2>1. events \in Seq(Event) /\ since[c] \in Nat
    BY DEF TypeOK
  <2>2. SubSeq(events, since[c] + 1, Len(events)) \in Seq(Event) /\ Passed(c) \subseteq Event
    BY <2>1, Rest DEF Passed
  <2> QED BY <1>11, <2>2 DEF ReadEvents, Goto, Unreadable, TypeOK
<1>12. ASSUME NEW c \in Client, SendBuffered(c) PROVE TypeOK'
  <2>1. Head(todo[c]) \in Event /\ Tail(todo[c]) \in Seq(Event)
    BY <1>12 DEF SendBuffered, TypeOK
  <2>2. todo' \in [Client -> Seq(Event)] /\ got' \in [Client -> Seq(Event)]
    BY <1>12, <2>1, SMTT(20) DEF SendBuffered, TypeOK
  <2> QED BY <1>12, <2>2 DEF SendBuffered, TypeOK
<1>13. ASSUME NEW c \in Client, Heartbeat(c) PROVE TypeOK'
  <2>1. (count[c] + 1) % CheckEvery \in 0 .. CheckEvery - 1
    BY DEF TypeOK
  <2> QED BY <1>13, <2>1 DEF Heartbeat, After, Goto, TypeOK
<1>14. CASE UNCHANGED vars
  BY <1>14 DEF vars, TypeOK
<1> QED BY <1>1, <1>2, <1>3, <1>4, <1>6, <1>7, <1>8, <1>9, <1>10, <1>11, <1>12, <1>13, <1>14,
           ReceiveTypes DEF Next, Tracker, Follow

(* The phases, the lines, the end and the other messages are different.    *)
LEMMA Apart ==
  /\ Done \notin Phase /\ Other \notin Event /\ 1 \in Phase
  /\ \A l \in Line : l \notin Phase /\ l # Done
BY StreamAssumption DEF Phase, Event

LEMMA EmissionStep ==
  ASSUME TypeOK, OneAtATime, [Next]_vars
  PROVE  OneAtATime'
<1> USE Apart DEF Event, OneAtATime, TypeOK
<1>1. CASE Start
  BY <1>1 DEF Start, Fire, Phase
<1>2. ASSUME NEW n \in Phase, Update(n) PROVE OneAtATime'
  <2>1. n - 1 \in Phase /\ \A m \in Phase : m < n => m = n - 1 \/ m < n - 1
    BY <1>2, StreamAssumption DEF Update, Phase
  <2>2. status # "none" /\ \A m \in Phase : m < n => stage[m] = "recorded"
    BY <1>2, <2>1 DEF Update
  <2>3. \A m \in Phase : n < m => stage[m] = "new"
    BY <1>2 DEF Update
  <2> QED BY <1>2, <2>2, <2>3 DEF Update, Fire
<1>3. CASE Close
  BY <1>3 DEF Close, Fire
<1>4. ASSUME NEW l \in Line, Output(l) PROVE OneAtATime'
  BY <1>4 DEF Output, Fire
<1>5. ASSUME NEW e \in Event, Broadcast(e) \/ Record(e) PROVE OneAtATime'
  BY <1>5 DEF Broadcast, Record, Outcome
<1>6. CASE stage' = stage /\ (status' = status \/ Expire)
  BY <1>6 DEF Expire, Outcome
<1> QED BY <1>1, <1>2, <1>3, <1>4, <1>5, <1>6
        DEF Next, Tracker, Follow, Expire, BroadcastOther, Open, ReadEvents, SendBuffered,
            Subscribe, Receive, Heartbeat, Leave, vars

(* An emission only goes forward.                                          *)
LEMMA StagesAdvance ==
  ASSUME TypeOK, OneAtATime, [Next]_vars, NEW e \in Event
  PROVE  /\ stage[e] = "recorded" => stage'[e] = "recorded"
         /\ stage[e] \in {"sent", "recorded"} => stage'[e] \in {"sent", "recorded"}
<1> USE Apart DEF Event, OneAtATime, TypeOK
<1>1. CASE Start
  BY <1>1 DEF Start, Fire
<1>2. CASE Close \/ (\E n \in Phase : Update(n)) \/ (\E l \in Line : Output(l))
  BY <1>2 DEF Close, Update, Output, Fire
<1>3. CASE \E d \in Event : Broadcast(d) \/ Record(d)
  BY <1>3 DEF Broadcast, Record
<1>4. CASE stage' = stage
  BY <1>4
<1> QED BY <1>1, <1>2, <1>3, <1>4
        DEF Next, Tracker, Follow, Expire, BroadcastOther, Open, ReadEvents, SendBuffered,
            Subscribe, Receive, Heartbeat, Leave, vars

(* What is emitted now comes after what was emitted before.                *)
LEMMA NewestFollows ==
  ASSUME TypeOK, OneAtATime, NEW e \in Event, NEW d \in Event,
         \/ stage[e] = "firing" /\ stage[d] \in {"sent", "recorded"}
         \/ stage[e] = "sent" /\ stage[d] = "recorded"
  PROVE  Follows(d, e)
<1>1. d # e
  OBVIOUS
<1>2. d \in Phase /\ e \in Phase => ~(e < d)
  BY DEF OneAtATime
<1> QED BY <1>1, <1>2, StreamAssumption DEF Follows, Phase

LEMMA BufferStep ==
  ASSUME TypeOK, OneAtATime, BufferInOrder, [Next]_vars
  PROVE  BufferInOrder'
<1>1. ASSUME NEW e \in Event, Record(e) PROVE BufferInOrder'
  <2>1. \A i \in DOMAIN events : events[i] \in Event /\ Follows(events[i], e)
    BY <1>1, NewestFollows DEF Record, TypeOK, BufferInOrder
  <2> DEFINE all == Append(events, e)
  <2>2. events \in Seq(Messages) /\ e \in Messages /\ all \in Seq(Messages) /\ all # <<>>
    <3>1. events \in Seq(Messages) /\ e \in Messages
      BY EventsAreMessages DEF TypeOK, Messages
    <3> QED BY <3>1, AppendNotEmpty
  <2>3. Ordered(all)
    BY <2>1, <2>2, AppendOrdered DEF BufferInOrder
  <2>4. \A i \in DOMAIN all : stage'[all[i]] = "recorded"
    BY <1>1, <2>1 DEF Record, TypeOK, BufferInOrder
  <2>5. Ordered(Tail(all))
    BY <2>2, <2>3, TailOrdered
  <2>6. \A i \in DOMAIN Tail(all) : stage'[Tail(all)[i]] = "recorded"
    <3>1. \A i \in DOMAIN Tail(all) : i + 1 \in DOMAIN all /\ Tail(all)[i] = all[i + 1]
      BY <2>2
    <3> HIDE DEF all
    <3> QED BY <2>4, <3>1
  <2>7. events' \in {events, all, Tail(all)}
    BY <1>1 DEF Record, Ring
  <2>8. CASE events' = events
    BY <1>1, <2>1, <2>8 DEF BufferInOrder, Record, TypeOK
  <2> HIDE DEF all
  <2>9. CASE events' \in {all, Tail(all)}
    BY <2>3, <2>4, <2>5, <2>6, <2>9 DEF BufferInOrder, Ordered
  <2> QED BY <2>7, <2>8, <2>9
<1>2. CASE Expire
  BY <1>2 DEF Expire, BufferInOrder, Ordered
<1>3. CASE events' = events
  BY <1>3, StagesAdvance DEF BufferInOrder, Ordered, TypeOK
<1> QED BY <1>1, <1>2, <1>3
        DEF Next, Tracker, Follow, Start, Update, Close, Output, Broadcast, BroadcastOther, Open,
            ReadEvents, SendBuffered, Subscribe, Receive, Heartbeat, Leave, vars

-----------------------------------------------------------------------------
(* The streams of the clients.                                             *)

LEMMA ListsOfMessages ==
  ASSUME TypeOK, NEW c \in Client
  PROVE  got[c] \in Seq(Messages) /\ todo[c] \in Seq(Messages) /\ queue[c] \in Seq(Messages)
<1>1. got[c] \in Seq(Event) /\ todo[c] \in Seq(Event) /\ queue[c] \in Seq(Event \cup {Other})
  BY DEF TypeOK
<1> QED BY <1>1, EventsAreMessages DEF Messages

(* A message goes to the end of the queues, behind all that was broadcast. *)
LEMMA DeliverStep ==
  ASSUME TypeOK, OneAtATime, StreamInOrder, OnlyBroadcast,
         NEW m \in Messages, m \in Event => stage[m] = "firing" /\ stage'[m] = "sent",
         \A e \in Event : stage[e] \in {"sent", "recorded"} => stage'[e] \in {"sent", "recorded"},
         Deliver(m), UNCHANGED <<client, todo, got>>
  PROVE  StreamInOrder' /\ OnlyBroadcast'
<1> USE DEF Messages
<1>1. ASSUME NEW c \in Client, queue'[c] # queue[c]
      PROVE  client[c] = "live" /\ queue'[c] = Append(queue[c], m)
  BY <1>1 DEF Deliver, Subscribed, TypeOK
<1>2. ASSUME NEW c \in Client, NEW d \in Messages,
             d # Other => stage[d] \in {"sent", "recorded"}
      PROVE  Follows(d, m)
  BY <1>2, NewestFollows DEF Follows
<1>3. ASSUME NEW c \in Client
      PROVE  /\ client[c] # "live" => queue'[c] = queue[c]
             /\ Ordered(queue'[c]) /\ Precedes(got[c], queue'[c])
             /\ \A i \in DOMAIN queue'[c] :
                  queue'[c][i] # Other => stage'[queue'[c][i]] \in {"sent", "recorded"}
  <2>1. /\ got[c] \in Seq(Messages) /\ queue[c] \in Seq(Messages)
        /\ \A i \in DOMAIN got[c] : got[c][i] \in Messages
        /\ \A i \in DOMAIN queue[c] : queue[c][i] \in Messages
    BY ListsOfMessages
  <2>2. /\ \A i \in DOMAIN got[c] : Follows(got[c][i], m)
        /\ \A i \in DOMAIN queue[c] : Follows(queue[c][i], m)
    BY <1>2, <2>1 DEF OnlyBroadcast
  <2>3. CASE queue'[c] = queue[c]
    BY <2>1, <2>3 DEF StreamInOrder, OnlyBroadcast
  <2>4. CASE queue'[c] = Append(queue[c], m)
    <3>1. Ordered(Append(queue[c], m))
      BY <2>1, <2>2, AppendOrdered DEF StreamInOrder
    <3>2. DOMAIN Append(queue[c], m) = DOMAIN queue[c] \cup {Len(queue[c]) + 1}
      BY <2>1
    <3>3. /\ Append(queue[c], m)[Len(queue[c]) + 1] = m
          /\ \A i \in DOMAIN queue[c] : Append(queue[c], m)[i] = queue[c][i]
      BY <2>1
    <3>4. Precedes(got[c], Append(queue[c], m))
      BY <2>2, <3>2, <3>3 DEF StreamInOrder, Precedes
    <3>5. \A i \in DOMAIN Append(queue[c], m) :
            LET x == Append(queue[c], m)[i]
            IN  x # Other => stage'[x] \in {"sent", "recorded"}
      BY <2>1, <3>2, <3>3 DEF OnlyBroadcast
    <3>6. client[c] # "live" => queue'[c] = queue[c]
      BY <1>1
    <3> QED BY <2>4, <3>1, <3>4, <3>5, <3>6
  <2> QED BY <1>1, <2>3, <2>4
<1>4. StreamInOrder'
  BY <1>3 DEF StreamInOrder
<1>5. OnlyBroadcast'
  BY <1>3 DEF OnlyBroadcast, TypeOK
<1> QED BY <1>4, <1>5

(* A client takes a step: its lists change and those of the others do not. *)
LEMMA OneClient ==
  ASSUME TypeOK, StreamInOrder, OnlyBroadcast, NEW c \in Client,
         stage' = stage,
         \A d \in Client \ {c} : /\ client'[d] = client[d] /\ got'[d] = got[d]
                                 /\ todo'[d] = todo[d] /\ queue'[d] = queue[d],
         client'[c] \in {"away", "found", "refused"} => got'[c] = <<>>,
         client'[c] \in {"away", "found", "refused", "live"} => todo'[c] = <<>>,
         client'[c] \in {"away", "found", "refused", "catchup"} => queue'[c] = <<>>,
         Ordered(got'[c]), Ordered(todo'[c]), Ordered(queue'[c]),
         Precedes(got'[c], todo'[c]), Precedes(got'[c], queue'[c]),
         \A i \in DOMAIN got'[c] : stage[got'[c][i]] \in {"sent", "recorded"},
         \A i \in DOMAIN todo'[c] : stage[todo'[c][i]] \in {"sent", "recorded"},
         \A i \in DOMAIN queue'[c] :
           queue'[c][i] # Other => stage[queue'[c][i]] \in {"sent", "recorded"}
  PROVE  StreamInOrder' /\ OnlyBroadcast'
<1>1. \A d \in Client : d # c => /\ client'[d] = client[d] /\ got'[d] = got[d]
                                 /\ todo'[d] = todo[d] /\ queue'[d] = queue[d]
  OBVIOUS
<1>2. StreamInOrder'
  <2> SUFFICES ASSUME NEW d \in Client
               PROVE  /\ client'[d] \in {"away", "found", "refused"} => got'[d] = <<>>
                      /\ client'[d] \in {"away", "found", "refused", "live"} => todo'[d] = <<>>
                      /\ client'[d] \in {"away", "found", "refused", "catchup"} => queue'[d] = <<>>
                      /\ Ordered(got'[d]) /\ Ordered(todo'[d]) /\ Ordered(queue'[d])
                      /\ Precedes(got'[d], todo'[d]) /\ Precedes(got'[d], queue'[d])
    BY DEF StreamInOrder, Ordered, Precedes, Follows
  <2> QED BY <1>1 DEF StreamInOrder
<1>3. OnlyBroadcast'
  <2> SUFFICES ASSUME NEW d \in Client
               PROVE  /\ \A i \in DOMAIN got'[d] : stage[got'[d][i]] \in {"sent", "recorded"}
                      /\ \A i \in DOMAIN todo'[d] : stage[todo'[d][i]] \in {"sent", "recorded"}
                      /\ \A i \in DOMAIN queue'[d] :
                           queue'[d][i] # Other => stage[queue'[d][i]] \in {"sent", "recorded"}
    BY DEF OnlyBroadcast
  <2> QED BY <1>1 DEF OnlyBroadcast
<1> QED BY <1>2, <1>3

LEMMA ClientMoves ==
  ASSUME TypeOK, StreamInOrder, OnlyBroadcast, BufferInOrder, NEW c \in Client,
         Open(c) \/ ReadEvents(c) \/ Subscribe(c) \/ Heartbeat(c) \/ Leave(c)
  PROVE  StreamInOrder' /\ OnlyBroadcast'
<1> USE DEF Goto
<1>1. CASE Open(c) \/ Subscribe(c) \/ Heartbeat(c) \/ Leave(c)
  <2>1. UNCHANGED <<stage, got, todo, queue>>
    BY <1>1 DEF Open, Subscribe, Heartbeat, Leave
  <2>2. /\ \A d \in Client \ {c} : client'[d] = client[d]
        /\ client'[c] \in {"away", "found", "refused"} => client[c] = "away"
        /\ client'[c] # "catchup"
        /\ client'[c] = "live" => todo[c] = <<>>
    BY <1>1 DEF Open, Subscribe, Heartbeat, Leave, After, TypeOK, StreamInOrder
  <2> QED BY <2>1, <2>2, OneClient DEF StreamInOrder, OnlyBroadcast
<1>2. CASE ReadEvents(c)
  <2>1. /\ UNCHANGED <<stage, got, queue>>
        /\ \A d \in Client \ {c} : client'[d] = client[d] /\ todo'[d] = todo[d]
        /\ client'[c] = "catchup" /\ todo'[c] = SubSeq(events, since[c] + 1, Len(events))
        /\ got[c] = <<>> /\ queue[c] = <<>>
    BY <1>2 DEF ReadEvents, TypeOK, StreamInOrder
  <2>2. /\ todo'[c] \in Seq(Event) /\ since[c] \in Nat
        /\ \A j \in DOMAIN todo'[c] : j + since[c] \in DOMAIN events /\ todo'[c][j] = events[j + since[c]]
    <3>1. events \in Seq(Event) /\ since[c] \in Nat
      BY StreamAssumption DEF TypeOK
    <3> QED BY <2>1, <3>1, Rest
  <2>3. Ordered(todo'[c])
    <3> SUFFICES ASSUME NEW i \in DOMAIN todo'[c], NEW j \in DOMAIN todo'[c], i < j
                 PROVE  Follows(todo'[c][i], todo'[c][j])
      BY DEF Ordered
    <3>1. i + since[c] < j + since[c]
      BY <2>2
    <3> QED BY <2>2, <3>1 DEF BufferInOrder, Ordered
  <2>4. /\ Precedes(got'[c], todo'[c])
        /\ \A i \in DOMAIN todo'[c] : stage[todo'[c][i]] \in {"sent", "recorded"}
    BY <2>1, <2>2 DEF Precedes, BufferInOrder
  <2> QED BY <2>1, <2>3, <2>4, OneClient DEF StreamInOrder, OnlyBroadcast
<1> QED BY <1>1, <1>2

LEMMA ClientIsSent ==
  ASSUME TypeOK, StreamInOrder, OnlyBroadcast, NEW c \in Client,
         SendBuffered(c) \/ Receive(c)
  PROVE  StreamInOrder' /\ OnlyBroadcast'
<1>1. got[c] \in Seq(Messages) /\ todo[c] \in Seq(Messages) /\ queue[c] \in Seq(Messages)
  BY ListsOfMessages
<1>2. ASSUME NEW s \in Seq(Messages), s # <<>>,
             \A i \in DOMAIN s : s[i] # Other => stage[s[i]] \in {"sent", "recorded"}
      PROVE  /\ Head(s) # Other => stage[Head(s)] \in {"sent", "recorded"}
             /\ \A i \in DOMAIN Tail(s) :
                  Tail(s)[i] # Other => stage[Tail(s)[i]] \in {"sent", "recorded"}
  <2>1. Head(s) = s[1] /\ 1 \in DOMAIN s
    BY <1>2
  <2>2. \A i \in DOMAIN Tail(s) : i + 1 \in DOMAIN s /\ Tail(s)[i] = s[i + 1]
    BY <1>2
  <2> QED BY <1>2, <2>1, <2>2
<1>3. ASSUME NEW m \in Event, stage[m] \in {"sent", "recorded"}
      PROVE  \A i \in DOMAIN Append(got[c], m) :
               stage[Append(got[c], m)[i]] \in {"sent", "recorded"}
  BY <1>1, <1>3 DEF OnlyBroadcast
<1>4. CASE SendBuffered(c)
  <2>1. /\ UNCHANGED <<stage, client, queue>>
        /\ client[c] = "catchup" /\ todo[c] # <<>> /\ queue[c] = <<>>
        /\ \A d \in Client \ {c} : got'[d] = got[d] /\ todo'[d] = todo[d]
        /\ got'[c] = Append(got[c], Head(todo[c])) /\ todo'[c] = Tail(todo[c])
    BY <1>4 DEF SendBuffered, TypeOK, StreamInOrder
  <2>2. Ordered(got'[c]) /\ Ordered(todo'[c]) /\ Precedes(got'[c], todo'[c])
    <3>1. /\ Ordered(Append(got[c], Head(todo[c])))
          /\ Precedes(Append(got[c], Head(todo[c])), Tail(todo[c]))
      BY <1>1, <2>1, HeadMoves DEF StreamInOrder
    <3>2. Ordered(Tail(todo[c]))
      BY <1>1, <2>1, TailOrdered DEF StreamInOrder
    <3> QED BY <2>1, <3>1, <3>2
  <2>3. Head(todo[c]) \in Event /\ Head(todo[c]) # Other /\ \A i \in DOMAIN Tail(todo[c]) : Tail(todo[c])[i] # Other
    BY <2>1, Apart DEF TypeOK
  <2>4. /\ stage[Head(todo[c])] \in {"sent", "recorded"}
        /\ \A i \in DOMAIN todo'[c] : stage[todo'[c][i]] \in {"sent", "recorded"}
    BY <1>1, <1>2, <2>1, <2>3 DEF OnlyBroadcast
  <2>5. \A i \in DOMAIN got'[c] : stage[got'[c][i]] \in {"sent", "recorded"}
    BY <1>3, <2>1, <2>3, <2>4
  <2>6. Ordered(queue'[c]) /\ Precedes(got'[c], queue'[c]) /\ DOMAIN queue'[c] = {}
    BY <2>1, EmptyLists DEF Precedes
  <2> QED BY <2>1, <2>2, <2>4, <2>5, <2>6, OneClient
<1>5. CASE Receive(c)
  <2>1. /\ UNCHANGED <<stage, todo>>
        /\ queue[c] # <<>> /\ todo[c] = <<>>
        /\ \A d \in Client \ {c} : got'[d] = got[d] /\ queue'[d] = queue[d] /\ client'[d] = client[d]
        /\ got'[c] = IF Head(queue[c]) = Other THEN got[c] ELSE Append(got[c], Head(queue[c]))
        /\ queue'[c] = Tail(queue[c]) /\ client'[c] \in {"live", "closed"}
    BY <1>5 DEF Receive, After, Goto, TypeOK, StreamInOrder
  <2>2. Ordered(got'[c]) /\ Ordered(queue'[c]) /\ Precedes(got'[c], queue'[c])
    <3>1. /\ Ordered(Append(got[c], Head(queue[c])))
          /\ Precedes(Append(got[c], Head(queue[c])), Tail(queue[c]))
          /\ Precedes(got[c], Tail(queue[c]))
      BY <1>1, <2>1, HeadMoves DEF StreamInOrder
    <3>2. Ordered(Tail(queue[c]))
      BY <1>1, <2>1, TailOrdered DEF StreamInOrder
    <3> QED BY <2>1, <3>1, <3>2 DEF StreamInOrder
  <2>3. Head(queue[c]) # Other => Head(queue[c]) \in Event
    BY <1>1, <2>1 DEF Messages
  <2>4. /\ Head(queue[c]) # Other => stage[Head(queue[c])] \in {"sent", "recorded"}
        /\ \A i \in DOMAIN queue'[c] :
             queue'[c][i] # Other => stage[queue'[c][i]] \in {"sent", "recorded"}
    BY <1>1, <1>2, <2>1 DEF OnlyBroadcast
  <2>5. \A i \in DOMAIN got'[c] : stage[got'[c][i]] \in {"sent", "recorded"}
    BY <1>3, <2>1, <2>3, <2>4 DEF OnlyBroadcast
  <2>6. Ordered(todo'[c]) /\ Precedes(got'[c], todo'[c]) /\ DOMAIN todo'[c] = {}
    BY <2>1, EmptyLists DEF Precedes
  <2> QED BY <2>1, <2>2, <2>4, <2>5, <2>6, OneClient
<1> QED BY <1>4, <1>5

LEMMA StreamStep ==
  ASSUME TypeOK, OneAtATime, BufferInOrder, StreamInOrder, OnlyBroadcast, [Next]_vars
  PROVE  StreamInOrder' /\ OnlyBroadcast'
<1>1. ASSUME NEW e \in Event, Broadcast(e) PROVE StreamInOrder' /\ OnlyBroadcast'
  <2>1. /\ Deliver(e) /\ UNCHANGED <<client, todo, got>>
        /\ stage[e] = "firing" /\ stage'[e] = "sent"
    BY <1>1 DEF Broadcast, TypeOK
  <2> QED BY <2>1, StagesAdvance, DeliverStep DEF Messages
<1>2. CASE BroadcastOther
  BY <1>2, StagesAdvance, DeliverStep, Apart DEF BroadcastOther, Messages
<1>3. CASE \E c \in Client : Open(c) \/ Follow(c) \/ Leave(c)
  BY <1>3, ClientMoves, ClientIsSent DEF Follow
<1>4. CASE UNCHANGED <<client, todo, queue, got>>
  <2>1. StreamInOrder'
    BY <1>4 DEF StreamInOrder
  <2>2. OnlyBroadcast'
    BY <1>4, StagesAdvance DEF OnlyBroadcast, TypeOK
  <2> QED BY <2>1, <2>2
<1> QED BY <1>1, <1>2, <1>3, <1>4
        DEF Next, Tracker, Start, Update, Close, Output, Record, Expire, clientVars, vars

-----------------------------------------------------------------------------
(* What a client misses.                                                   *)

Explained == CatchUpExplained /\ FewSkipped /\ MissedIsExplained

LEMMA DeliverExplained ==
  ASSUME TypeOK, Explained, NEW m \in Messages,
         \A e \in Event : stage'[e] \in {"sent", "recorded"} =>
                            stage[e] \in {"sent", "recorded"} \/ e = m,
         Deliver(m), UNCHANGED <<client, todo, got, since, skipped>>
  PROVE  Explained'
<1>1. CatchUpExplained' /\ FewSkipped'
  BY DEF Deliver, Explained, CatchUpExplained, FewSkipped, TypeOK
<1>2. ASSUME NEW c \in Client, client[c] = "live", NEW e \in Event,
             stage'[e] \in {"sent", "recorded"}
      PROVE  e \in ToSet(got'[c]) \cup ToSet(queue'[c]) \cup gap'[c] \cup lost'[c] \cup skipped'[c]
  <2>1. \/ queue'[c] = Append(queue[c], m) /\ lost'[c] = lost[c]
        \/ queue'[c] = queue[c] /\ lost'[c] = lost[c] \cup {m}
    BY <1>2 DEF Deliver, Subscribed
  <2>2. ToSet(Append(queue[c], m)) = ToSet(queue[c]) \cup {m}
    BY ListsOfMessages, SetOfAppend
  <2>3. gap'[c] = gap[c] /\ got'[c] = got[c] /\ skipped'[c] = skipped[c]
    BY <1>2 DEF Deliver, TypeOK
  <2>4. e = m \/ e \in ToSet(got[c]) \cup ToSet(queue[c]) \cup gap[c] \cup lost[c] \cup skipped[c]
    BY <1>2 DEF Explained, MissedIsExplained, Subscribed
  <2> QED BY <2>1, <2>2, <2>3, <2>4
<1>3. MissedIsExplained'
  BY <1>1, <1>2 DEF MissedIsExplained, FewSkipped, Subscribed
<1> QED BY <1>1, <1>3 DEF Explained

(* A client takes a step and nothing it had is forgotten.                  *)
LEMMA OneClientExplained ==
  ASSUME TypeOK, Explained, NEW c \in Client,
         UNCHANGED <<stage, lost, since>>,
         \A d \in Client \ {c} : /\ client'[d] = client[d] /\ got'[d] = got[d]
                                 /\ todo'[d] = todo[d] /\ queue'[d] = queue[d]
                                 /\ gap'[d] = gap[d] /\ skipped'[d] = skipped[d],
         Cardinality(skipped'[c]) <= since[c],
         client'[c] \in {"catchup", "live"} =>
           \A e \in Event : stage[e] \in {"sent", "recorded"} =>
              \/ e \in ToSet(got'[c]) \cup gap'[c] \cup skipped'[c]
              \/ client'[c] = "catchup" /\ e \in ToSet(todo'[c])
              \/ client'[c] = "live" /\ e \in ToSet(queue'[c]) \cup lost[c]
  PROVE  Explained'
<1>1. CatchUpExplained'
  <2> SUFFICES ASSUME NEW d \in Client, client'[d] = "catchup",
                      NEW e \in Event, stage[e] \in {"sent", "recorded"}
               PROVE  e \in ToSet(got'[d]) \cup ToSet(todo'[d]) \cup gap'[d] \cup skipped'[d]
    BY DEF CatchUpExplained
  <2> QED BY DEF Explained, CatchUpExplained
<1>2. FewSkipped'
  <2> SUFFICES ASSUME NEW d \in Client PROVE Cardinality(skipped'[d]) <= since[d]
    BY DEF FewSkipped
  <2> QED BY DEF Explained, FewSkipped
<1>3. MissedIsExplained'
  <2> SUFFICES ASSUME NEW d \in Client, client'[d] = "live",
                      NEW e \in Event, stage[e] \in {"sent", "recorded"}
               PROVE  e \in ToSet(got'[d]) \cup ToSet(queue'[d]) \cup gap'[d] \cup lost[d]
                              \cup skipped'[d]
    BY <1>2 DEF MissedIsExplained, FewSkipped, Subscribed
  <2> QED BY DEF Explained, MissedIsExplained, Subscribed
<1> QED BY <1>1, <1>2, <1>3 DEF Explained

(* since passes over at most as many events of the buffer, and the reader  *)
(* gets the others.                                                        *)
LEMMA SkippedByRead ==
  ASSUME TypeOK, NEW c \in Client
  PROVE  /\ Cardinality(Passed(c)) <= since[c]
         /\ ToSet(events) \subseteq
              Passed(c) \cup ToSet(SubSeq(events, since[c] + 1, Len(events)))
<1> DEFINE n == since[c]
           first == {j \in DOMAIN events : j <= n}
<1>1. events \in Seq(Event) /\ n \in Nat
  BY StreamAssumption DEF TypeOK
<1>2. first \subseteq 1 .. n
  BY <1>1
<1>3. IsFiniteSet(1 .. n) /\ Cardinality(1 .. n) = n
  <2>1. IsFiniteSet(1 .. n) /\ Cardinality(1 .. n) = IF 1 > n THEN 0 ELSE n - 1 + 1
    <3>1. 1 \in Int /\ n \in Int
      BY <1>1
    <3> HIDE DEF n
    <3> QED BY <3>1, FS_Interval, Zenon
  <2> QED BY <1>1, <2>1
<1>4. IsFiniteSet(first) /\ Cardinality(first) <= n
  BY <1>2, <1>3, FS_Subset
<1> DEFINE event == [j \in first |-> events[j]]
<1>5. event \in Surjection(first, Passed(c))
  BY DEF Passed, Surjection
<1>6. IsFiniteSet(Passed(c)) /\ Cardinality(Passed(c)) <= Cardinality(first)
  BY <1>4, <1>5, FS_Surjection
<1>7. Cardinality(Passed(c)) <= n
  BY <1>1, <1>4, <1>6, FS_CardinalityType
<1>8. ASSUME NEW e \in ToSet(events)
      PROVE  e \in Passed(c) \cup ToSet(SubSeq(events, n + 1, Len(events)))
  <2>1. PICK i \in DOMAIN events : events[i] = e
    BY <1>8 DEF ToSet
  <2>2. CASE i <= n
    BY <2>1, <2>2 DEF Passed
  <2>3. CASE i > n
    <3>1. /\ i - n \in DOMAIN SubSeq(events, n + 1, Len(events))
          /\ SubSeq(events, n + 1, Len(events))[i - n] = e
      BY <1>1, <2>1, <2>3, Rest
    <3> QED BY <3>1 DEF ToSet
  <2>4. i <= n \/ i > n
    BY <1>1
  <2> QED BY <2>2, <2>3, <2>4
<1> QED BY <1>7, <1>8

LEMMA ClientExplained ==
  ASSUME TypeOK, Explained, StreamInOrder, NEW c \in Client,
         Open(c) \/ Follow(c) \/ Leave(c)
  PROVE  Explained'
<1> USE DEF Goto
<1>1. got[c] \in Seq(Messages) /\ todo[c] \in Seq(Messages) /\ queue[c] \in Seq(Messages)
  BY ListsOfMessages
<1>few. Cardinality(skipped[c]) <= since[c]
  BY DEF Explained, FewSkipped
<1>2. CASE Open(c) \/ Leave(c)
  BY <1>2, <1>few, OneClientExplained DEF Open, Leave, TypeOK
<1>3. CASE ReadEvents(c)
  <2>1. /\ client'[c] = "catchup" /\ todo'[c] = SubSeq(events, since[c] + 1, Len(events))
        /\ skipped'[c] = Passed(c) /\ gap'[c] = Unreadable
    BY <1>3 DEF ReadEvents, TypeOK
  <2>2. \A e \in Event : stage[e] \in {"sent", "recorded"} =>
          e \in gap'[c] \cup skipped'[c] \cup ToSet(todo'[c])
    BY <2>1, SkippedByRead DEF Unreadable
  <2> QED BY <1>3, <2>1, <2>2, SkippedByRead, OneClientExplained DEF ReadEvents, TypeOK
<1>4. CASE SendBuffered(c)
  <2>1. /\ todo[c] # <<>> /\ client[c] = "catchup" /\ client' = client
        /\ got'[c] = Append(got[c], Head(todo[c])) /\ todo'[c] = Tail(todo[c])
    BY <1>4 DEF SendBuffered, TypeOK
  <2>2. /\ ToSet(got'[c]) = ToSet(got[c]) \cup {Head(todo[c])}
        /\ ToSet(todo[c]) = {Head(todo[c])} \cup ToSet(todo'[c])
    BY <1>1, <2>1, SetOfAppend, SetOfTail
  <2>3. \A e \in Event : stage[e] \in {"sent", "recorded"} =>
          e \in ToSet(got'[c]) \cup ToSet(todo'[c]) \cup gap[c] \cup skipped[c]
    BY <2>1, <2>2 DEF Explained, CatchUpExplained
  <2> QED BY <1>4, <1>few, <2>1, <2>3, OneClientExplained DEF SendBuffered, TypeOK
<1>5. CASE Subscribe(c)
  <2>1. \A e \in Event : stage[e] \in {"sent", "recorded"} =>
          e \in ToSet(got[c]) \cup gap[c] \cup skipped[c]
    BY <1>5, EmptyLists DEF Subscribe, Explained, CatchUpExplained
  <2> QED BY <1>5, <1>few, <2>1, OneClientExplained DEF Subscribe, TypeOK
<1>6. CASE Receive(c)
  <2> DEFINE m == Head(queue[c])
  <2>1. /\ queue[c] # <<>> /\ client[c] = "live" /\ client'[c] \in {"live", "closed"}
        /\ got'[c] = IF m = Other THEN got[c] ELSE Append(got[c], m)
        /\ queue'[c] = Tail(queue[c])
    BY <1>6 DEF Receive, After, TypeOK
  <2>2. /\ m # Other => ToSet(got'[c]) = ToSet(got[c]) \cup {m}
        /\ ToSet(queue[c]) = {m} \cup ToSet(queue'[c])
    BY <1>1, <2>1, SetOfAppend, SetOfTail
  <2>3. \A e \in Event : stage[e] \in {"sent", "recorded"} =>
          e \in ToSet(got'[c]) \cup ToSet(queue'[c]) \cup gap[c] \cup lost[c] \cup skipped[c]
    BY <2>1, <2>2, Apart DEF Explained, MissedIsExplained, Subscribed
  <2> QED BY <1>6, <1>few, <2>1, <2>3, OneClientExplained DEF Receive, After, TypeOK
<1>7. CASE Heartbeat(c)
  BY <1>7, <1>few, OneClientExplained DEF Heartbeat, After, Explained, MissedIsExplained, Subscribed, TypeOK
<1> QED BY <1>2, <1>3, <1>4, <1>5, <1>6, <1>7 DEF Follow

LEMMA ExplainedStep ==
  ASSUME TypeOK, OneAtATime, StreamInOrder, Explained, [Next]_vars
  PROVE  Explained'
<1>1. ASSUME NEW e \in Event, Broadcast(e) PROVE Explained'
  BY <1>1, DeliverExplained DEF Broadcast, Messages, TypeOK
<1>2. CASE BroadcastOther
  BY <1>2, DeliverExplained DEF BroadcastOther, Messages
<1>3. CASE \E c \in Client : Open(c) \/ Follow(c) \/ Leave(c)
  BY <1>3, ClientExplained
<1>4. ASSUME clientVars' = clientVars,
             \A e \in Event : stage'[e] \in {"sent", "recorded"} => stage[e] \in {"sent", "recorded"}
      PROVE  Explained'
  BY <1>4 DEF clientVars, Explained, CatchUpExplained, FewSkipped, MissedIsExplained, Subscribed
<1>5. CASE Start \/ Close \/ (\E n \in Phase : Update(n)) \/ (\E l \in Line : Output(l))
  BY <1>4, <1>5 DEF Start, Close, Update, Output, Fire, TypeOK
<1>6. CASE Expire \/ (\E e \in Event : Record(e)) \/ UNCHANGED vars
  BY <1>4, <1>6 DEF Expire, Record, vars, clientVars, TypeOK
<1> QED BY <1>1, <1>2, <1>3, <1>5, <1>6 DEF Next, Tracker

-----------------------------------------------------------------------------

LEMMA InitIInv == Init => IInv
<1> SUFFICES ASSUME Init PROVE IInv
  OBVIOUS
<1>1. TypeOK
  BY StreamAssumption DEF Init, TypeOK
<1>2. OneAtATime /\ CatchUpExplained /\ MissedIsExplained
  BY Apart DEF Init, OneAtATime, CatchUpExplained, MissedIsExplained, Subscribed, Event
<1>few. FewSkipped
  <2> SUFFICES ASSUME NEW c \in Client PROVE Cardinality(skipped[c]) <= since[c]
    BY DEF FewSkipped
  <2>1. skipped[c] = {} /\ since[c] \in Nat
    BY StreamAssumption DEF Init
  <2>2. Cardinality(skipped[c]) = 0
    BY <2>1, FS_EmptySet, Zenon
  <2> QED BY <2>1, <2>2
<1>3. BufferInOrder /\ StreamInOrder /\ OnlyBroadcast
  BY DEF Init, BufferInOrder, StreamInOrder, OnlyBroadcast, Ordered, Precedes
<1> QED BY <1>1, <1>2, <1>3, <1>few DEF IInv

LEMMA NextIInv == IInv /\ [Next]_vars => IInv'
BY TypeStep, EmissionStep, BufferStep, StreamStep, ExplainedStep DEF IInv, Explained

(* The invariant holds in every state of every operation. *)
THEOREM Invariant == Spec => []IInv
BY InitIInv, NextIInv, PTL DEF Spec

(* Every variable has its type: the buffer and the queues keep their sizes. *)
THEOREM TypeCorrect == Spec => []TypeOK
<1>1. IInv => TypeOK
  BY DEF IInv
<1> QED BY <1>1, Invariant, PTL

(* However the emissions, the records and the reads of any number of       *)
(* clients fall, no client is sent an event twice or a phase after a later *)
(* one (operation_progress.py broadcasts before it records).               *)
THEOREM EachOnceAndInOrder == Spec => []OnceInOrder
<1>1. ASSUME IInv, NEW c \in Client
      PROVE  /\ IsInjective(got[c])
             /\ \A i, j \in 1 .. Len(got[c]) :
                  i < j /\ {got[c][i], got[c][j]} \subseteq Phase => got[c][i] < got[c][j]
  <2>1. got[c] \in Seq(Event) /\ \A i \in DOMAIN got[c] : got[c][i] \in Event
    BY <1>1 DEF IInv, TypeOK
  <2>2. \A i, j \in DOMAIN got[c] : i < j => Follows(got[c][i], got[c][j])
    BY <1>1 DEF IInv, StreamInOrder, Ordered
  <2>3. \A i, j \in DOMAIN got[c] : i < j =>
          /\ got[c][i] # got[c][j]
          /\ got[c][i] \in Phase /\ got[c][j] \in Phase => got[c][i] < got[c][j]
    BY <2>1, <2>2, Apart DEF Follows
  <2>4. IsInjective(got[c])
    BY <2>1, <2>3 DEF IsInjective
  <2> QED BY <2>1, <2>3, <2>4
<1>2. IInv => OnceInOrder
  BY <1>1 DEF OnceInOrder
<1> QED BY <1>2, Invariant, PTL

(* What a client that follows the operation was not sent is in its queue,  *)
(* was not to be seen when it caught up, found its queue full, or was one  *)
(* of the at most since events that its request passed over.               *)
THEOREM NothingElseIsMissed == Spec => []MissedIsExplained
<1>1. IInv => MissedIsExplained
  BY DEF IInv
<1> QED BY <1>1, Invariant, PTL

=============================================================================
