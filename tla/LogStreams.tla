----------------------------- MODULE LogStreams -----------------------------
(***************************************************************************)
(* monitoring/logs.py and monitoring/container_map.py: the log aggregator. *)
(* Its task looks, every five seconds and in a thread, which containers    *)
(* belong to which services and starts a thread for each that has none;    *)
(* the threads follow the output of their containers and queue it line by  *)
(* line; the task takes a batch from the queue every 200 ms, keeps it in   *)
(* the ring of its service and broadcasts it.                              *)
(*                                                                         *)
(* A thread begins at the start of the second it is started in, so lines   *)
(* of that second that an earlier thread has read are read again.          *)
(***************************************************************************)
EXTENDS Integers, Sequences, SequencesExt

CONSTANTS
    Container,
    NameOf,          \* the name of each container, as the sequence of its words
    Services,        \* the registered services, in the order of the registry
    Project,         \* the words of the Compose project of a service
    ComposeService,  \* the words of its name there, <<>> when it has none
    BatchSize,       \* _MAX_BATCH_SIZE
    BufferSize,      \* _BUFFER_SIZE
    MaxLines,        \* bound: the lines a container prints
    MaxThreads       \* bound: the threads that are started for a container

Service == {Services[i] : i \in DOMAIN Services}

ASSUME LogAssumption ==
    /\ Services \in Seq(Service)
    /\ BatchSize \in Nat \ {0} /\ BufferSize \in Nat \ {0}
    /\ MaxLines \in Nat /\ MaxThreads \in Nat

VARIABLES
    running,         \* the containers that run
    printed,         \* the lines each has printed
    second,          \* how many of them before the present second
    logTask,         \* where the task is
    client,          \* there is a client of the Docker daemon
    seen,            \* the containers the thread of the task has seen
    table,           \* the thread of every container in _threads, 0 for none
    thread,          \* what every thread is doing
    next,            \* the line it reads next
    pending,         \* the queue
    ring             \* the entries kept for every service

logVars == <<running, printed, second, logTask, client, seen, table, thread, next, pending, ring>>
dockerVars == <<running, printed, second>>

\* _map_compose_service: a container belongs to the last service whose prefix it has.
Prefix(s) == Project[s] \o ComposeService[s]
Matches(s, c) ==
    /\ ComposeService[s] # <<>>
    /\ IsPrefix(Prefix(s), NameOf[c]) /\ Len(NameOf[c]) > Len(Prefix(s))
Claims(c) == {i \in DOMAIN Services : Matches(Services[i], c)}
ServiceOf(c) == Services[Max(Claims(c))]

LogInit ==
    /\ running = {} /\ printed = [c \in Container |-> 0] /\ second = printed
    /\ logTask = "off" /\ client = FALSE /\ seen = {}
    /\ table = [c \in Container |-> 0]
    /\ thread = [c \in Container |-> [g \in 1 .. MaxThreads |-> "none"]]
    /\ next = [c \in Container |-> [g \in 1 .. MaxThreads |-> 0]]
    /\ pending = <<>> /\ ring = [s \in Service |-> <<>>]

-----------------------------------------------------------------------------
(* Containers, as the Docker daemon shows them (external).                 *)

ContainerStarts(c) ==
    /\ c \notin running /\ running' = running \cup {c}
    /\ UNCHANGED <<printed, second, logTask, client, seen, table, thread, next, pending, ring>>

ContainerStops(c) ==
    /\ c \in running /\ running' = running \ {c}
    /\ UNCHANGED <<printed, second, logTask, client, seen, table, thread, next, pending, ring>>

Prints(c) ==
    /\ c \in running /\ printed[c] < MaxLines
    /\ printed' = [printed EXCEPT ![c] = @ + 1]
    /\ UNCHANGED <<running, second, logTask, client, seen, table, thread, next, pending, ring>>

SecondEnds ==
    /\ second # printed /\ second' = printed
    /\ UNCHANGED <<running, printed, logTask, client, seen, table, thread, next, pending, ring>>

-----------------------------------------------------------------------------
(* The task.                                                               *)

\* run: without a daemon it ends at once.
LogRun ==
    /\ logTask = "new"
    /\ \/ logTask' = "idle" /\ client' = TRUE
       \/ logTask' = "disabled" /\ UNCHANGED client
    /\ UNCHANGED <<dockerVars, seen, table, thread, next, pending, ring>>

\* build_container_map, in the thread of _manage_threads; when the daemon does
\* not answer the map is empty.
MapContainers ==
    /\ logTask = "idle" /\ client
    /\ seen' \in {{}, {c \in running : Claims(c) # {}}}
    /\ logTask' = "managing"
    /\ UNCHANGED <<dockerVars, client, table, thread, next, pending, ring>>

Live(c, g) == thread[c][g] \in {"new", "following"}

\* The containers without a living thread; entries of dead threads are removed.
Lacking == {c \in seen : table[c] = 0 \/ ~Live(c, table[c])}

\* The next thread of c; the bound keeps the last one for a container that lacks one.
Newest(c) == Cardinality({g \in 1 .. MaxThreads : thread[c][g] # "none"}) + 1

ManageThreads ==
    /\ logTask \in {"managing", "leaving"}
    /\ \A c \in Lacking : Newest(c) <= MaxThreads
    /\ table' = [c \in Container |->
         IF c \in Lacking THEN Newest(c)
         ELSE IF table[c] # 0 /\ ~Live(c, table[c]) THEN 0 ELSE table[c]]
    /\ thread' = [c \in Container |->
         IF c \in Lacking THEN [thread[c] EXCEPT ![Newest(c)] = "new"] ELSE thread[c]]
    /\ logTask' = IF logTask = "managing" THEN "idle" ELSE "stopped"
    /\ seen' = {}
    /\ UNCHANGED <<dockerVars, client, next, pending, ring>>

\* The entry of a line that thread g of c has read.
Entry(c, g) == [from |-> c, by |-> g, line |-> next[c][g]]

\* The entries of one service, one after the other.
EntriesOf(entries, s) ==
    LET upTo[n \in 0 .. Len(entries)] ==
          IF n = 0 THEN <<>>
          ELSE IF ServiceOf(entries[n].from) = s THEN Append(upTo[n - 1], entries[n]) ELSE upTo[n - 1]
    IN  upTo[Len(entries)]

Keep(entries, s) ==
    LET all == ring[s] \o EntriesOf(entries, s)
        n == Len(all)
    IN  SubSeq(all, IF n > BufferSize THEN n - BufferSize + 1 ELSE 1, n)

\* Mutant of Rest: what does not fit into the batch is forgotten.
RestForgotten == <<>>

\* _drain_pending: what stays in the queue.
Batch == SubSeq(pending, 1, IF Len(pending) > BatchSize THEN BatchSize ELSE Len(pending))
Rest == SubSeq(pending, BatchSize + 1, Len(pending))

Drain ==
    /\ logTask = "idle" /\ pending # <<>>
    /\ ring' = [s \in Service |-> Keep(Batch, s)]
    /\ pending' = Rest
    /\ UNCHANGED <<dockerVars, logTask, client, seen, table, thread, next>>

\* stop and the cancel of the task: the thread of _manage_threads goes on.
LogStop ==
    /\ logTask' = IF logTask = "managing" THEN "leaving" ELSE "stopped"
    /\ client' = FALSE
    /\ table' = [c \in Container |-> 0]
    /\ UNCHANGED <<dockerVars, seen, thread, next, pending, ring>>

-----------------------------------------------------------------------------
(* The threads.                                                            *)

\* It finds no client, or no container, or begins with the present second.
Attach(c, g) ==
    /\ thread[c][g] = "new"
    /\ IF client /\ c \in running
       THEN /\ thread' = [thread EXCEPT ![c][g] = "following"]
            /\ next' = [next EXCEPT ![c][g] = second[c] + 1]
       ELSE thread' = [thread EXCEPT ![c][g] = "over"] /\ UNCHANGED next
    /\ UNCHANGED <<dockerVars, logTask, client, seen, table, pending, ring>>

ReadLine(c, g) ==
    /\ thread[c][g] = "following" /\ next[c][g] <= printed[c] /\ client
    /\ pending' = Append(pending, Entry(c, g))
    /\ next' = [next EXCEPT ![c][g] = @ + 1]
    /\ UNCHANGED <<dockerVars, logTask, client, seen, table, thread, ring>>

\* The stream ends with its container, with the client, or with an error.
StreamEnds(c, g) ==
    /\ thread[c][g] = "following"
    /\ thread' = [thread EXCEPT ![c][g] = "over"]
    /\ UNCHANGED <<dockerVars, logTask, client, seen, table, next, pending, ring>>

LogInput == SecondEnds \/ \E c \in Container : ContainerStarts(c) \/ ContainerStops(c) \/ Prints(c)

LogStep ==
    \/ LogRun \/ MapContainers \/ ManageThreads \/ Drain
    \/ \E c \in Container, g \in 1 .. MaxThreads : Attach(c, g) \/ ReadLine(c, g) \/ StreamEnds(c, g)

-----------------------------------------------------------------------------
(* Properties.                                                             *)

\* The lines that are kept for a service, or queued for it, are lines of its
\* containers; what one thread has read is there from the oldest that is kept to
\* the newest, in order and without a gap, whatever the batches and the rings cut.
\* The names must not be ambiguous (container_map.py:102).
LogsInOrder ==
    \A s \in Service :
        LET all == ring[s] \o EntriesOf(pending, s)
        IN  \A c \in Container, g \in 1 .. MaxThreads :
              LET own == {i \in DOMAIN all : all[i].from = c /\ all[i].by = g}
              IN  /\ \A i, j \in own : i < j => all[i].line < all[j].line
                  /\ \A i \in own :
                        /\ all[i].line < next[c][g]
                        /\ \A n \in all[i].line .. next[c][g] - 1 : \E j \in own : all[j].line = n
                  /\ own # {} => Front(NameOf[c]) = Prefix(s)

=============================================================================
