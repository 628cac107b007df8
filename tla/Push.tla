-------------------------------- MODULE Push --------------------------------
(***************************************************************************)
(* serve/push.py and the part of serve/events.py that calls it: which      *)
(* events are worth a notification, the subscriptions of the users'        *)
(* devices, and the delivery, which runs in a thread of its own for every  *)
(* event and removes the subscriptions whose endpoint is gone.             *)
(*                                                                         *)
(* The lists of subscriptions are objects: a delivery goes through the     *)
(* list it found, to which a subscribe may append meanwhile, while an      *)
(* unsubscribe puts a new list in its place.  subscribe() runs in the loop *)
(* and blocks it, between any two of its steps the threads may run.        *)
(***************************************************************************)
EXTENDS Integers, Sequences, FiniteSets, SequencesExt

CONSTANTS
    User,
    Device,          \* endpoints
    Owner,           \* the user of each
    Delivery,        \* bound: the deliveries
    MaxLists         \* bound: the lists that are ever made

ASSUME PushAssumption == Owner \in [Device -> User]

VARIABLES
    heap,            \* the list objects
    table,           \* _subscriptions: the list of every user, 0 for none
    file,            \* push_subscriptions.json
    muted,           \* the categories every user has turned off
    gone,            \* the devices whose endpoint is gone
    subscriber,      \* the call of subscribe under way
    delivery,        \* every delivery
    got,             \* how often a delivery has reached a device
    kept,            \* the devices whose subscription no clean-up overlapped
    due,             \* those kept, and wanting it, ever since a delivery was scheduled,
                     \* but for those for which the delivery's send failed
    overlapped       \* two saves have overlapped

pushVars == <<heap, table, file, muted, gone, subscriber, delivery, got, kept, due, overlapped>>

None == "none"
NoCall == [at |-> "none"]

-----------------------------------------------------------------------------
(* Which events are worth a notification.                                  *)

\* DEFAULT_PREFERENCES: what a user can turn off.
Preference ==
    {"pipeline_failure", "pipeline_success", "agent_question", "agent_completion",
     "conductor_message", "conductor_completion", "service_state", "branch_activity",
     "review_activity", "rebase_result", "test_results"}

\* _PUSH_EVENT_MAP, with the status of a pipeline taken into account.
Category(e) ==
    CASE e.type = "pipeline.state" ->
           IF e.status = "success" THEN "pipeline_success" ELSE "pipeline_failure"
      [] e.type = "agent.question" -> "agent_question"
      [] e.type = "agent.run.DONE" -> "agent_completion"
      [] e.type = "conductor.message" -> "conductor_message"
      [] e.type = "conductor.stop" -> "conductor_completion"
      [] e.type = "conductor.crash" -> "conductor_crash"
      [] e.type = "service.state" -> "service_state"
      [] e.type \in {"branch.switch", "branch.create.DONE", "branch.close.DONE",
                     "branch.rename.DONE"} -> "branch_activity"
      [] e.type \in {"rebase.DONE", "rebase.conflict"} -> "rebase_result"
      [] e.type = "tests.run.DONE" -> "test_results"
      [] e.type \in {"review.post.DONE", "review.resolve.DONE"} -> "review_activity"
      [] OTHER -> None

\* _build_push_content: whether there is a title.
Titled(e) ==
    CASE e.type = "pipeline.state" -> e.status \in {"success", "failure"}
      [] e.type = "service.state" ->
           e.status = "migration_error" \/ e.status \in {"stopped", "error", "crashed"}
      [] OTHER -> Category(e) # None

Worth(e) == Category(e) # None /\ Titled(e)

-----------------------------------------------------------------------------

Idle == [at |-> "none", category |-> None, users |-> {}, user |-> None, list |-> 0, i |-> 0,
         stale |-> <<>>, new |-> <<>>]

PushInit ==
    /\ heap = <<>> /\ table = [u \in User |-> 0] /\ file = [u \in User |-> <<>>]
    /\ muted = [u \in User |-> {}] /\ gone = {}
    /\ subscriber = NoCall
    /\ delivery = [p \in Delivery |-> Idle]
    /\ got = [p \in Delivery |-> [d \in Device |-> 0]]
    /\ kept = {} /\ due = [p \in Delivery |-> {}] /\ overlapped = FALSE

Listed(u) == IF table[u] = 0 THEN <<>> ELSE heap[table[u]]
Contents == [u \in User |-> Listed(u)]

\* The list without an endpoint, filtered from its front on.
Without(l, d) ==
    LET upTo[n \in 0 .. Len(l)] ==
          IF n = 0 THEN <<>>
          ELSE IF l[n] = d THEN upTo[n - 1] ELSE Append(upTo[n - 1], l[n])
    IN  upTo[Len(l)]

\* A save: what is dumped now is written later, whatever was written in between.
Saving == {p \in Delivery : delivery[p].at = "write"}
Dumps == overlapped' = (overlapped \/ Saving # {} \/ subscriber.at = "write")

\* The new object a user's entry is set to.
Rebind(u, l) ==
    /\ Len(heap) < MaxLists
    /\ heap' = Append(heap, l) /\ table' = [table EXCEPT ![u] = Len(heap) + 1]

\* The clean-up of a user: from the read of the list to the check that it is not empty.
Cleaning(u) == \E p \in Delivery : delivery[p].user = u /\ delivery[p].at \in {"assign", "check", "del"}

-----------------------------------------------------------------------------
(* Calls in the loop.                                                      *)

\* subscribe(): the entry of the user ...
Subscribe(d) ==
    /\ subscriber = NoCall
    /\ d \notin gone
    /\ subscriber' = [at |-> "append", device |-> d]
    /\ IF table[Owner[d]] = 0 THEN Rebind(Owner[d], <<>>) ELSE UNCHANGED <<heap, table>>
    /\ UNCHANGED <<file, muted, gone, delivery, got, kept, due, overlapped>>

\* ... then the subscription, unless a delivery has removed the entry: a KeyError.
AppendDevice ==
    /\ subscriber.at = "append"
    /\ LET d == subscriber.device
           u == Owner[d]
       IN IF table[u] = 0
          THEN subscriber' = NoCall /\ UNCHANGED <<heap, kept>>
          ELSE /\ heap' = [heap EXCEPT ![table[u]] = IF Contains(@, d) THEN @ ELSE Append(@, d)]
               /\ kept' = IF Cleaning(u) \/ d \in gone THEN kept ELSE kept \cup {d}
               /\ subscriber' = [at |-> "dump", device |-> d]
    /\ UNCHANGED <<table, file, muted, gone, delivery, got, due, overlapped>>

DumpSubscribed ==
    /\ subscriber.at = "dump"
    /\ subscriber' = [at |-> "write", new |-> Contents]
    /\ Dumps
    /\ UNCHANGED <<heap, table, file, muted, gone, delivery, got, kept, due>>

WriteSubscribed ==
    /\ subscriber.at = "write"
    /\ file' = subscriber.new /\ subscriber' = NoCall
    /\ UNCHANGED <<heap, table, muted, gone, delivery, got, kept, due, overlapped>>

\* set_preferences: known categories only, one assignment.
SetPreferences(u, c, on) ==
    /\ c \in Preference
    /\ muted' = [muted EXCEPT ![u] = IF on THEN @ \ {c} ELSE @ \cup {c}]
    /\ due' = [p \in Delivery |-> due[p] \ {d \in Device : Owner[d] = u /\ delivery[p].category = c}]
    /\ UNCHANGED <<heap, table, file, gone, subscriber, delivery, got, kept, overlapped>>

\* _maybe_push: the delivery of an event that is worth it is scheduled.
MaybePush(e) ==
    \/ ~Worth(e) /\ UNCHANGED pushVars
    \/ /\ Worth(e)
       /\ \E p \in Delivery :
            /\ delivery[p] = Idle
            /\ delivery' = [delivery EXCEPT ![p].at = "begin", ![p].category = Category(e)]
            /\ due' = [due EXCEPT ![p] = {d \in kept \ gone : Category(e) \notin muted[Owner[d]]}]
       /\ UNCHANGED <<heap, table, file, muted, gone, subscriber, got, kept, overlapped>>

-----------------------------------------------------------------------------
(* A delivery, in its thread.                                              *)

Quiet == <<file, muted, gone, subscriber, kept, due, overlapped>>

\* broadcast: the users of the moment.
Begin(p) ==
    /\ delivery[p].at = "begin"
    /\ delivery' = [delivery EXCEPT ![p].at = "users", ![p].users = {u \in User : table[u] # 0}]
    /\ UNCHANGED <<heap, table, got>> /\ UNCHANGED Quiet

\* send_notification: the preferences, then the list of the user.
NextUser(p, u) ==
    /\ delivery[p].at = "users" /\ u \in delivery[p].users
    /\ delivery' =
         [delivery EXCEPT ![p].users = @ \ {u},
            ![p].at = IF delivery[p].category \in muted[u] \/ Listed(u) = <<>> THEN "users" ELSE "send",
            ![p].user = u, ![p].list = table[u], ![p].i = 1, ![p].stale = <<>>]
    /\ UNCHANGED <<heap, table, got>> /\ UNCHANGED Quiet

DeliveryEnds(p) ==
    /\ delivery[p].at = "users" /\ delivery[p].users = {}
    /\ delivery' = [delivery EXCEPT ![p] = [Idle EXCEPT !.at = "ended", !.category = delivery[p].category]]
    /\ UNCHANGED <<heap, table, got>> /\ UNCHANGED Quiet

\* Mutant of Send: a gone endpoint is taken out of the list at once.
SendRemoving(p) ==
    /\ delivery[p].at = "send" /\ delivery[p].i <= Len(heap[delivery[p].list])
    /\ LET d == heap[delivery[p].list][delivery[p].i]
       IN IF d \in gone
          THEN /\ heap' = [heap EXCEPT ![delivery[p].list] = Without(@, d)]
               /\ delivery' = [delivery EXCEPT ![p].i = @ + 1]
               /\ UNCHANGED got
          ELSE /\ got' = [got EXCEPT ![p][d] = @ + 1]
               /\ delivery' = [delivery EXCEPT ![p].i = @ + 1] /\ UNCHANGED heap
    /\ UNCHANGED table /\ UNCHANGED Quiet

\* webpush to the next device of the list: 404 or 410 from a gone endpoint.
Send(p) ==
    /\ delivery[p].at = "send" /\ delivery[p].i <= Len(heap[delivery[p].list])
    /\ LET d == heap[delivery[p].list][delivery[p].i]
       IN IF d \in gone
          THEN /\ delivery' = [delivery EXCEPT ![p].i = @ + 1, ![p].stale = Append(@, d)]
               /\ UNCHANGED got
          ELSE /\ got' = [got EXCEPT ![p][d] = @ + 1]
               /\ delivery' = [delivery EXCEPT ![p].i = @ + 1]
    /\ UNCHANGED <<heap, table>> /\ UNCHANGED Quiet

\* Any other exception of webpush, be it before the endpoint took it or after:
\* it is logged, and the next device is tried.
SendFails(p) ==
    /\ delivery[p].at = "send" /\ delivery[p].i <= Len(heap[delivery[p].list])
    /\ delivery' = [delivery EXCEPT ![p].i = @ + 1]
    /\ LET d == heap[delivery[p].list][delivery[p].i]
       IN /\ due' = [due EXCEPT ![p] = @ \ {d}]
          /\ \/ UNCHANGED got
             \/ d \notin gone /\ got' = [got EXCEPT ![p][d] = @ + 1]
    /\ UNCHANGED <<heap, table, file, muted, gone, subscriber, kept, overlapped>>

\* The end of the list, and of every unsubscribe: the next stale endpoint, if any.
\* unsubscribe filters the list of the moment.
NextStale(p) ==
    /\ \/ delivery[p].at = "send" /\ delivery[p].i > Len(heap[delivery[p].list])
       \/ delivery[p].at = "stale"
    /\ LET s == delivery[p].stale
           u == delivery[p].user
       IN delivery' =
            IF s = <<>> THEN [delivery EXCEPT ![p].at = "users"]
            ELSE IF table[u] = 0 THEN [delivery EXCEPT ![p].at = "stale", ![p].stale = Tail(s)]
            ELSE [delivery EXCEPT ![p].at = "assign", ![p].stale = Tail(s),
                    ![p].new = Without(Listed(u), Head(s))]
    /\ UNCHANGED <<heap, table, got>> /\ UNCHANGED Quiet

Assign(p) ==
    /\ delivery[p].at = "assign"
    /\ Rebind(delivery[p].user, delivery[p].new)
    /\ delivery' = [delivery EXCEPT ![p].at = "check", ![p].new = <<>>]
    /\ UNCHANGED got /\ UNCHANGED Quiet

\* Mutant of Emptied: the entry goes with the first stale endpoint.
EmptiedAlways(u) == TRUE

Emptied(u) == Listed(u) = <<>>

\* The test for an empty list; without an entry a KeyError ends the delivery.
CheckEmpty(p) ==
    /\ delivery[p].at = "check"
    /\ LET u == delivery[p].user
       IN delivery' = [delivery EXCEPT ![p].at =
                         IF table[u] = 0 THEN "raised" ELSE IF Emptied(u) THEN "del" ELSE "dump"]
    /\ UNCHANGED <<heap, table, got>> /\ UNCHANGED Quiet

Del(p) ==
    /\ delivery[p].at = "del"
    /\ LET u == delivery[p].user
       IN IF table[u] = 0
          THEN delivery' = [delivery EXCEPT ![p].at = "raised"] /\ UNCHANGED table
          ELSE delivery' = [delivery EXCEPT ![p].at = "dump"] /\ table' = [table EXCEPT ![u] = 0]
    /\ UNCHANGED <<heap, got>> /\ UNCHANGED Quiet

Dump(p) ==
    /\ delivery[p].at = "dump"
    /\ delivery' = [delivery EXCEPT ![p].at = "write", ![p].new = Contents]
    /\ Dumps
    /\ UNCHANGED <<heap, table, got, file, muted, gone, subscriber, kept, due>>

Write(p) ==
    /\ delivery[p].at = "write"
    /\ file' = delivery[p].new
    /\ delivery' = [delivery EXCEPT ![p].at = "stale", ![p].new = <<>>]
    /\ UNCHANGED <<heap, table, got, muted, gone, subscriber, kept, due, overlapped>>

\* An endpoint of the push service is gone (external).
Gone(d) ==
    /\ d \notin gone /\ gone' = gone \cup {d}
    /\ kept' = kept \ {d} /\ due' = [p \in Delivery |-> due[p] \ {d}]
    /\ UNCHANGED <<heap, table, file, muted, subscriber, delivery, got, overlapped>>

Deliver(p) ==
    \/ Begin(p) \/ DeliveryEnds(p) \/ Send(p) \/ SendFails(p) \/ NextStale(p) \/ Assign(p) \/ CheckEmpty(p) \/ Del(p)
    \/ Dump(p) \/ Write(p)
    \/ \E u \in User : NextUser(p, u)

\* The loop is inside subscribe().
Subscribing == subscriber # NoCall

SubscriberStep == AppendDevice \/ DumpSubscribed \/ WriteSubscribed

-----------------------------------------------------------------------------
(* Properties.                                                             *)

\* A subscription is lost only when the call that made it overlapped the few
\* statements of a clean-up of the same user, never because a delivery was under
\* way; and the file has what the table has once nobody saves, unless two saves
\* have overlapped (push.py:117-147 and 231-233, without a lock).
KeptUnlessRaced ==
    /\ \A d \in kept : Contains(Listed(Owner[d]), d)
    /\ ~overlapped /\ ~Subscribing
         /\ (\A p \in Delivery : delivery[p].at \notin {"check", "del", "dump", "write"})
       => \A u \in User : \A d \in ToSet(Listed(u)) : Contains(file[u], d)

\* A device that was subscribed when a notification was scheduled, and is still,
\* gets it once if its user wants it, whatever other devices are found gone, fail
\* or are subscribed meanwhile, unless the send to that device failed or the
\* delivery itself raised; and none ever gets it twice (push.py:205-245).
EachDeviceOnce ==
    /\ \A p \in Delivery, d \in Device : got[p][d] <= 1
    /\ \A p \in Delivery : delivery[p].at = "ended" => \A d \in due[p] : got[p][d] = 1
=============================================================================
