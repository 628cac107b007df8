------------------------------ MODULE Terminals ------------------------------
(***************************************************************************)
(* pty.py: the terminals of the dashboard.  Every terminal is a shell      *)
(* behind a pseudo-terminal, with any number of WebSocket connections and  *)
(* one reader task that reads the output of the shell chunk by chunk, in a *)
(* thread of the executor, keeps it and sends it to all connections.       *)
(*                                                                         *)
(* Cancelling the reader does not end a read its thread is blocked in: the *)
(* thread stays behind, takes the next chunk and throws it away ("stray"). *)
(* The WebSocket handlers are a plugin's (external); they add a connection *)
(* and ensure a reader, and at their end remove the connection and stop    *)
(* the reader of an empty terminal.                                        *)
(***************************************************************************)
EXTENDS Integers, Sequences, FiniteSets

CONSTANTS
    Terminal,        \* the ids of sessions
    Conn,            \* the connections there may be
    Owner,           \* those of the owners of the terminals
    MaxChunks        \* bound: the chunks a shell writes

ASSUME TerminalsAssumption ==
    /\ Owner \subseteq Conn /\ MaxChunks \in Nat
    /\ Terminal \cap {"new", "gone"} = {}  \* a handler that serves none is told apart

VARIABLES
    sessions,        \* the terminals in the table of the manager
    shell,           \* the shell of every terminal
    written,         \* how many chunks it has written
    taken,           \* how many of them a thread has read
    scrollback,      \* the chunks that are kept
    reader,          \* what the reader task is doing, and whom it has yet to send to
    stray,           \* the threads cancelled readers have left in a read
    connections,     \* the connections of every terminal
    handler,         \* the terminal every connection's handler serves, "new" before, "gone" after
    joined,          \* how long the scrollback was when a connection was added
    sent,            \* the chunks every connection has been sent
    closing,         \* the connections destroy has yet to close
    destroying       \* the terminals whose destroy is under way

termVars == <<sessions, shell, written, taken, scrollback, reader, stray, connections,
              handler, joined, sent, closing, destroying>>

NoReader == [at |-> "none", left |-> {}]

TermInit ==
    /\ sessions = {} /\ destroying = {}
    /\ shell = [s \in Terminal |-> "none"]
    /\ written = [s \in Terminal |-> 0] /\ taken = [s \in Terminal |-> 0]
    /\ scrollback = [s \in Terminal |-> <<>>]
    /\ reader = [s \in Terminal |-> NoReader]
    /\ stray = [s \in Terminal |-> 0]
    /\ connections = [s \in Terminal |-> {}]
    /\ handler = [c \in Conn |-> "new"]
    /\ joined = [c \in Conn |-> 0] /\ sent = [c \in Conn |-> <<>>]
    /\ closing = [s \in Terminal |-> {}]

Create(s) ==
    /\ shell[s] = "none"
    /\ shell' = [shell EXCEPT ![s] = "running"]
    /\ sessions' = sessions \cup {s}
    /\ UNCHANGED <<written, taken, scrollback, reader, stray, connections, handler, joined, sent,
                   closing, destroying>>

\* The lock of the session: nobody holds it over an await but a broadcast.
SessionLocked(s) == reader[s].at = "send"

\* Mutant of Connect: the connections are changed without the lock.
ConnectAnytime(s, c) ==
    /\ s \in sessions /\ handler[c] = "new"
    /\ connections' = [connections EXCEPT ![s] = @ \cup {c}]
    /\ handler' = [handler EXCEPT ![c] = s]
    /\ joined' = [joined EXCEPT ![c] = Len(scrollback[s])]
    /\ reader' = [reader EXCEPT ![s] = IF @.at = "none" THEN [at |-> "read", left |-> {}]
                                       ELSE [@ EXCEPT !.left = @ \cup {c}]]
    /\ UNCHANGED <<sessions, shell, written, taken, scrollback, stray, sent, closing, destroying>>

\* add_connection and ensure_reader: a reader that has ended is replaced.
Connect(s, c) ==
    /\ s \in sessions /\ ~SessionLocked(s) /\ handler[c] = "new"
    /\ connections' = [connections EXCEPT ![s] = @ \cup {c}]
    /\ handler' = [handler EXCEPT ![c] = s]
    /\ joined' = [joined EXCEPT ![c] = Len(scrollback[s])]
    /\ reader' = [reader EXCEPT ![s] = IF @.at = "none" THEN [at |-> "read", left |-> {}] ELSE @]
    /\ UNCHANGED <<sessions, shell, written, taken, scrollback, stray, sent, closing, destroying>>

ShellWrites(s) ==
    /\ shell[s] = "running" /\ written[s] < MaxChunks
    /\ written' = [written EXCEPT ![s] = @ + 1]
    /\ UNCHANGED <<sessions, shell, taken, scrollback, reader, stray, connections, handler, joined, sent,
                   closing, destroying>>

\* The reader has got a chunk, keeps it and begins to send it.
Read(s) ==
    /\ reader[s].at = "read" /\ taken[s] < written[s]
    /\ taken' = [taken EXCEPT ![s] = @ + 1]
    /\ scrollback' = [scrollback EXCEPT ![s] = Append(@, taken[s] + 1)]
    /\ reader' = [reader EXCEPT ![s] = [at |-> "send", left |-> connections[s]]]
    /\ UNCHANGED <<sessions, shell, written, stray, connections, handler, joined, sent, closing, destroying>>

\* The file of the terminal has been closed.
Closed(s) == shell[s] # "none" /\ s \notin sessions \cup destroying

\* A thread left behind takes a chunk, which is lost.  When it was the last that
\* kept a closed terminal open the shell is hung up.
StrayRead(s) ==
    /\ stray[s] > 0 /\ taken[s] < written[s]
    /\ taken' = [taken EXCEPT ![s] = @ + 1]
    /\ stray' = [stray EXCEPT ![s] = @ - 1]
    /\ shell' = IF Closed(s) /\ stray[s] = 1 THEN [shell EXCEPT ![s] = "gone"] ELSE shell
    /\ UNCHANGED <<sessions, written, scrollback, reader, connections, handler, joined, sent,
                   closing, destroying>>

\* broadcast_to_session: one connection after the other, a broken one is removed.
Send(s, c) ==
    /\ reader[s].at = "send" /\ c \in reader[s].left
    /\ reader' = [reader EXCEPT ![s].left = @ \ {c}]
    /\ \/ sent' = [sent EXCEPT ![c] = Append(@, scrollback[s][Len(scrollback[s])])]
          /\ UNCHANGED connections
       \/ connections' = [connections EXCEPT ![s] = @ \ {c}] /\ UNCHANGED sent
    /\ UNCHANGED <<sessions, shell, written, taken, scrollback, stray, handler, joined, closing, destroying>>

SendEnds(s) ==
    /\ reader[s].at = "send" /\ reader[s].left = {}
    /\ reader' = [reader EXCEPT ![s].at = "read"]
    /\ UNCHANGED <<sessions, shell, written, taken, scrollback, stray, connections, handler, joined, sent,
                   closing, destroying>>

\* What is left of the reader of s when it is cancelled.
CancelReader(s) ==
    /\ reader' = [reader EXCEPT ![s] = NoReader]
    /\ stray' = IF reader[s].at = "read" THEN [stray EXCEPT ![s] = @ + 1] ELSE stray

\* The handler of a connection ends, whoever has removed the connection:
\* remove_connection and stop_reader_if_empty.
Leave(s, c) ==
    /\ handler[c] = s /\ ~SessionLocked(s)
    /\ handler' = [handler EXCEPT ![c] = "gone"]
    /\ connections' = [connections EXCEPT ![s] = @ \ {c}]
    /\ IF connections[s] \subseteq {c} THEN CancelReader(s) ELSE UNCHANGED <<reader, stray>>
    /\ UNCHANGED <<sessions, shell, written, taken, scrollback, joined, sent, closing, destroying>>

\* Those of others are taken out of the list; closing them ends their handlers.
DisconnectNonOwners(s) ==
    /\ s \in sessions /\ ~SessionLocked(s) /\ ~ connections[s] \subseteq Owner
    /\ connections' = [connections EXCEPT ![s] = @ \cap Owner]
    /\ UNCHANGED <<sessions, shell, written, taken, scrollback, reader, stray, handler, joined,
                   sent, closing, destroying>>

\* The shell has ended: every read of its terminal fails.
ShellEnds(s) ==
    /\ shell[s] = "running"
    /\ shell' = [shell EXCEPT ![s] = "gone"]
    /\ UNCHANGED <<sessions, written, taken, scrollback, reader, stray, connections, handler, joined, sent,
                   closing, destroying>>

EndOfFile(s) ==
    /\ shell[s] = "gone" /\ taken[s] = written[s]
    /\ reader[s].at = "read" \/ stray[s] > 0
    /\ reader' = [reader EXCEPT ![s] = IF @.at = "read" THEN NoReader ELSE @]
    /\ stray' = [stray EXCEPT ![s] = 0]
    /\ UNCHANGED <<sessions, shell, written, taken, scrollback, connections, handler, joined, sent,
                   closing, destroying>>

-----------------------------------------------------------------------------
(* destroy: take it out of the table, cancel, close, kill.                 *)

Destroy(s) ==
    /\ s \in sessions
    /\ sessions' = sessions \ {s} /\ destroying' = destroying \cup {s}
    /\ CancelReader(s)
    /\ closing' = [closing EXCEPT ![s] = connections[s]]
    /\ connections' = [connections EXCEPT ![s] = {}]
    /\ UNCHANGED <<shell, written, taken, scrollback, handler, joined, sent>>

Close(s, c) ==
    /\ c \in closing[s]
    /\ closing' = [closing EXCEPT ![s] = @ \ {c}]
    /\ UNCHANGED <<sessions, shell, written, taken, scrollback, reader, stray, connections,
                   handler, joined, sent, destroying>>

\* SIGTERM, which an interactive shell may ignore, then the close of the file:
\* it hangs the shell up unless a thread is still reading.
Kill(s) ==
    /\ s \in destroying /\ closing[s] = {}
    /\ destroying' = destroying \ {s}
    /\ \/ shell' = [shell EXCEPT ![s] = "gone"]
       \/ stray[s] > 0 /\ UNCHANGED shell
    /\ UNCHANGED <<sessions, written, taken, scrollback, reader, stray, connections, handler, joined, sent,
                   closing>>

\* What users and shells do.
TermInput ==
    \E s \in Terminal :
       \/ Create(s) \/ ShellWrites(s) \/ ShellEnds(s) \/ DisconnectNonOwners(s) \/ Destroy(s)
       \/ \E c \in Conn : Connect(s, c) \/ Leave(s, c)

\* What follows from it.
TermStep ==
    \E s \in Terminal :
       \/ Read(s) \/ StrayRead(s) \/ SendEnds(s) \/ EndOfFile(s) \/ Kill(s)
       \/ \E c \in Conn : Send(s, c) \/ Close(s, c)

-----------------------------------------------------------------------------
(* Properties.                                                             *)

\* Every variable has its type.
TermTypeOK ==
    /\ sessions \subseteq Terminal /\ destroying \subseteq Terminal
    /\ shell \in [Terminal -> {"none", "running", "gone"}]
    /\ written \in [Terminal -> 0 .. MaxChunks] /\ taken \in [Terminal -> 0 .. MaxChunks]
    /\ scrollback \in [Terminal -> Seq(1 .. MaxChunks)]
    /\ reader \in [Terminal -> [at : {"none", "read", "send"}, left : SUBSET Conn]]
    /\ stray \in [Terminal -> Nat]
    /\ connections \in [Terminal -> SUBSET Conn] /\ closing \in [Terminal -> SUBSET Conn]
    /\ handler \in [Conn -> Terminal \cup {"new", "gone"}] /\ joined \in [Conn -> Nat]
    /\ sent \in [Conn -> Seq(1 .. MaxChunks)]

\* Whoever is connected is sent what is kept from then on, without a gap and
\* nothing twice: readers that come and go, broken connections and the chunk
\* being sent when a connection is added make no difference (pty.py:227).
SharedViewIsWhole ==
    \A s \in Terminal : \A c \in connections[s] :
        LET due == SubSeq(scrollback[s], joined[c] + 1, Len(scrollback[s]))
        IN  \/ sent[c] = due
            \/ reader[s].at = "send" /\ c \in reader[s].left /\ due # <<>>
               /\ sent[c] = SubSeq(due, 1, Len(due) - 1)

=============================================================================
