---------------------------- MODULE ServerProofs ----------------------------
(***************************************************************************)
(* What holds of the server: of ServerControl for any number of launches   *)
(* and stops, and of Lifespan, with its terminals and logs, for any number *)
(* of terminals, connections, containers, tasks and Conductors.            *)
(*                                                                         *)
(* Of ServerControl there are two invariants: Sound, of all behaviours,    *)
(* says that a pid is recorded and signalled only once its process has got *)
(* as far as writing it, which is what makes the answer of a stop true     *)
(* however commands overlap.  Orderly, of commands that do not overlap,    *)
(* says who holds the port and what the port file names at every step of   *)
(* the one command there is, but for servers that a launch pinged in vain. *)
(***************************************************************************)
EXTENDS ServerControl, Lifespan, SequenceTheorems, FiniteSetTheorems, WellFoundedInduction, TLAPS

(* The process has written its pid. *)
Past == {"written", "building", "serving", "leaving", "left", "gone"}
HasSocket == {"serving", "leaving", "left"}
HasEnded == {"leaving", "left", "gone"}

Pids ==
  /\ \A i, l \in Launch : content[i] = l => at[l] \in Past
  /\ \A z \in Stopper, l \in Launch : target[z] = l => at[l] \in Past

Socket ==
  /\ \A l \in Launch : at[l] = "serving" => holder = l
  /\ \A l \in Launch : holder = l => at[l] \in HasSocket

(* What a stop has done to the process it is for. *)
Signalled ==
  \A z \in Stopper, l \in Launch : target[z] = l =>
    /\ stop[z] \in {"waiting", "killing"} => at[l] \in HasEnded \union {"serving"}
    /\ stop[z] \in {"freed", "stopped"} => at[l] \in HasEnded /\ holder # l

(* A restart has its launch for itself until it goes on with it. *)
Restarts ==
  /\ \A z \in Stopper, l \in Launch : then[z] = l /\ stop[z] # "stopped" => at[l] = "idle"
  /\ \A y, z \in Stopper : then[y] = then[z] /\ then[y] # None => y = z

Sound == Pids /\ Socket /\ Signalled /\ Restarts

(* At most one command is under way. *)
OneCommand ==
  /\ \A k, l \in Launch : Starting(k) /\ Starting(l) => k = l
  /\ \A y, z \in Stopper : Stopping(y) /\ Stopping(z) => y = z
  /\ \A l \in Launch, z \in Stopper : ~(Starting(l) /\ Stopping(z))

(* A launch past the test of the port, and a stop that waited for it, find *)
(* it free; a server has it until its process ends.                        *)
Writing == {"opening", "locking", "locked", "written", "building"}
PortKept ==
  /\ \A l \in Launch : at[l] \in Writing => holder = None
  /\ \A z \in Stopper : stop[z] = "freed" => holder = None
  /\ \A l \in Launch : at[l] \in HasSocket => holder = l

(* The inode a launch has open is still the port file, and what it wrote   *)
(* is still in it; nobody is about to remove the file of a server, unless  *)
(* that let a ping go without an answer.                                   *)
FileKept ==
  /\ \A l \in Launch : at[l] \in Writing \ {"opening"} => file # None /\ opened[l] = file
  /\ \A l \in Launch : at[l] = "serving" => l \in unheard \/ (file # None /\ content[file] = l)
  /\ \A l \in Launch : at[l] \in {"written", "building"} => file # None /\ content[file] = l
  /\ \A k, l \in Launch : at[l] = "serving" => at[k] \notin {"stale", "binding"} \/ l \in unheard

Orderly == OneCommand /\ PortKept /\ FileKept

IInv == TypeOK /\ Sound /\ (~overlapped => Orderly)

-----------------------------------------------------------------------------
(* Types                                                                   *)

LEMMA TypeStep == TypeOK /\ [Next]_vars => TypeOK'
<1> SUFFICES ASSUME TypeOK, [Next]_vars PROVE TypeOK'
  OBVIOUS
<1> USE DEF TypeOK, Arrive, Moves, Steps, Over, launchVars, stopVars
<1>1. ASSUME NEW l \in Launch,
             Ask(l) \/ Probe(l) \/ RemoveStale(l) \/ TestPort(l) \/ Lock(l) \/ Unlock(l)
      PROVE  TypeOK'
  <2>1. CASE Probe(l)
    <3>1. unheard' \subseteq Launch
      BY <2>1 DEF Probe, Listens
    <3> QED BY <2>1, <3>1 DEF Probe
  <2> QED BY <1>1, <2>1 DEF Ask, RemoveStale, TestPort, Lock, Unlock
<1>2. ASSUME NEW l \in Launch, Open(l)
      PROVE  TypeOK'
  BY <1>2 DEF Open
<1>3. ASSUME NEW l \in Launch, Record(l) \/ Serve(l) \/ Return(l) \/ RemoveFile(l) \/ Exit(l) \/ Crash(l)
      PROVE  TypeOK'
  BY <1>3 DEF Record, Serve, Return, RemoveFile, Exit, Crash
<1>4. ASSUME NEW z \in Stopper, Order(z) \/ ReadPid(z)
      PROVE  TypeOK'
  <2>1. CASE Order(z)
    BY <2>1 DEF Order
  <2>2. CASE ReadPid(z)
    <3>1. PICK pid \in Launch \union {None} : target' = [target EXCEPT ![z] = pid]
      BY <2>2 DEF ReadPid, Recorded
    <3> QED BY <2>2, <3>1 DEF ReadPid
  <2> QED BY <1>4, <2>1, <2>2
<1>5. ASSUME NEW z \in Stopper, Cleaned(z) \/ Unknown(z) \/ Freed(z) \/ GivesUp(z)
      PROVE  TypeOK'
  BY <1>5 DEF Cleaned, Unknown, Freed, GivesUp
<1>6. ASSUME NEW z \in Stopper, Signal(z) \/ Escalate(z) \/ Stopped(z)
      PROVE  TypeOK'
  BY <1>6 DEF Signal, Escalate, Stopped
<1>7. CASE UNCHANGED vars
  BY <1>7 DEF vars
<1> QED BY <1>1, <1>2, <1>3, <1>4, <1>5, <1>6, <1>7 DEF Next

-----------------------------------------------------------------------------
(* Sound is kept by every step                                             *)

LEMMA LaunchSound ==
  ASSUME TypeOK, Sound, NEW l \in Launch,
         \/ Ask(l) \/ Probe(l) \/ RemoveStale(l) \/ TestPort(l) \/ Open(l) \/ Lock(l) \/ Record(l)
         \/ Unlock(l) \/ Serve(l) \/ Return(l) \/ RemoveFile(l) \/ Exit(l) \/ Crash(l)
  PROVE  Sound'
<1> USE ServerAssumption DEF TypeOK, Sound, Moves, launchVars, stopVars, Past, HasSocket, HasEnded
<1>1. CASE Ask(l) \/ Probe(l) \/ RemoveStale(l) \/ TestPort(l) \/ Lock(l) \/ Unlock(l)
  BY <1>1 DEF Ask, Probe, RemoveStale, TestPort, Lock, Unlock, Pids, Socket, Signalled, Restarts
<1>2. CASE Open(l) \/ Record(l)
  BY <1>2 DEF Open, Record, Pids, Socket, Signalled, Restarts
<1>3. CASE Serve(l) \/ Return(l) \/ RemoveFile(l)
  BY <1>3 DEF Serve, Return, RemoveFile, Pids, Socket, Signalled, Restarts
<1>4. CASE Exit(l) \/ Crash(l)
  BY <1>4 DEF Exit, Crash, Over, Starting, Pids, Socket, Signalled, Restarts
<1> QED BY <1>1, <1>2, <1>3, <1>4

LEMMA StopSound ==
  ASSUME TypeOK, Sound, NEW z \in Stopper,
         \/ Order(z) \/ ReadPid(z) \/ Cleaned(z) \/ Unknown(z) \/ Signal(z) \/ Freed(z)
         \/ Escalate(z) \/ GivesUp(z) \/ Stopped(z)
  PROVE  Sound'
<1> USE ServerAssumption DEF TypeOK, Sound, Moves, Steps, launchVars, stopVars, Past, HasSocket, HasEnded
<1>1. CASE Order(z)
  BY <1>1 DEF Order, Pids, Socket, Signalled, Restarts
<1>2. CASE ReadPid(z)
  BY <1>2 DEF ReadPid, Recorded, Pids, Socket, Signalled, Restarts
<1>3. CASE Cleaned(z) \/ Unknown(z) \/ GivesUp(z)
  BY <1>3 DEF Cleaned, Unknown, GivesUp, Pids, Socket, Signalled, Restarts
<1>4. CASE Signal(z)
  BY <1>4 DEF Signal, Over, Starting, Pids, Socket, Signalled, Restarts
<1>5. CASE Freed(z)
  BY <1>5 DEF Freed, PortFree, Pids, Socket, Signalled, Restarts
<1>6. CASE Escalate(z)
  BY <1>6 DEF Escalate, Over, Pids, Socket, Signalled, Restarts
<1>7. CASE Stopped(z)
  BY <1>7 DEF Stopped, Pids, Socket, Signalled, Restarts
<1> QED BY <1>1, <1>2, <1>3, <1>4, <1>5, <1>6, <1>7

-----------------------------------------------------------------------------
(* Orderly is kept by every step of commands that do not overlap           *)

LEMMA LaunchOrderly ==
  ASSUME TypeOK, Sound, Orderly, NEW l \in Launch, ~overlapped',
         \/ Ask(l) \/ Probe(l) \/ RemoveStale(l) \/ TestPort(l) \/ Open(l) \/ Lock(l) \/ Record(l)
         \/ Unlock(l) \/ Serve(l) \/ Return(l) \/ RemoveFile(l) \/ Exit(l) \/ Crash(l)
  PROVE  Orderly'
<1> USE ServerAssumption DEF TypeOK, Orderly, Moves, launchVars, stopVars, HasSocket, Writing, Starting, Stopping
<1>1. CASE Ask(l)
  <2>1. ~UnderWay /\ UNCHANGED unheard
    BY <1>1 DEF Ask, Arrive
  <2> QED BY <1>1, <2>1 DEF Ask, UnderWay, OneCommand, PortKept, FileKept
<1>2. CASE Probe(l)
  <2>1. PICK answered \in BOOLEAN :
          /\ Responds(answered)
          /\ at' = [at EXCEPT ![l] = IF Running(answered) THEN "refused" ELSE "stale"]
          /\ unheard' = IF Recorded # None /\ Listens /\ ~answered THEN unheard \union {holder} ELSE unheard
    BY <1>2 DEF Probe
  <2>2. unheard \subseteq unheard'
    BY <2>1
  <2>3. ~Running(answered) => \A k \in Launch : at[k] = "serving" => k \in unheard'
    BY <2>1 DEF Running, Recorded, Listens, PortKept, FileKept
  <2>4. OneCommand' /\ PortKept'
    BY <1>2, <2>1 DEF Probe, OneCommand, PortKept
  <2>5. FileKept'
    <3>1. UNCHANGED <<file, content, opened>> /\ at[l] = "asked" /\ at'[l] \in {"refused", "stale"}
      BY <1>2, <2>1 DEF Probe
    <3>2. \A k \in Launch \ {l} : at'[k] = at[k]
      BY <2>1
    <3>3. \A k \in Launch : at'[k] = "serving" => at'[l] # "stale" \/ k \in unheard'
      BY <2>1, <2>3, <3>2
    <3> QED BY <2>2, <3>1, <3>2, <3>3 DEF FileKept
  <2> QED BY <2>4, <2>5
<1>3. CASE RemoveStale(l) \/ TestPort(l)
  BY <1>3 DEF RemoveStale, TestPort, OneCommand, PortKept, FileKept
<1>4. CASE Open(l)
  BY <1>4 DEF Open, OneCommand, PortKept, FileKept
<1>5. CASE Lock(l) \/ Unlock(l)
  BY <1>5 DEF Lock, Unlock, OneCommand, PortKept, FileKept
<1>6. CASE Record(l)
  BY <1>6 DEF Record, OneCommand, PortKept, FileKept
<1>7. CASE Serve(l)
  BY <1>7 DEF Serve, OneCommand, PortKept, FileKept
<1>8. CASE Return(l) \/ RemoveFile(l)
  BY <1>8 DEF Return, RemoveFile, OneCommand, PortKept, FileKept
<1>9. CASE Exit(l) \/ Crash(l)
  BY <1>9 DEF Exit, Crash, Over, OneCommand, PortKept, FileKept
<1> QED BY <1>1, <1>2, <1>3, <1>4, <1>5, <1>6, <1>7, <1>8, <1>9

LEMMA StopOrderly ==
  ASSUME TypeOK, Sound, Orderly, NEW z \in Stopper, ~overlapped',
         \/ Order(z) \/ ReadPid(z) \/ Cleaned(z) \/ Unknown(z) \/ Signal(z) \/ Freed(z)
         \/ Escalate(z) \/ GivesUp(z) \/ Stopped(z)
  PROVE  Orderly'
<1> USE ServerAssumption
    DEF TypeOK, Orderly, Moves, Steps, launchVars, stopVars, HasSocket, Writing, Starting, Stopping
<1>1. CASE Order(z)
  <2>1. ~UnderWay /\ UNCHANGED unheard
    BY <1>1 DEF Order, Arrive
  <2> QED BY <1>1, <2>1 DEF Order, UnderWay, OneCommand, PortKept, FileKept
<1>2. CASE ReadPid(z) \/ Cleaned(z) \/ GivesUp(z)
  BY <1>2 DEF ReadPid, Cleaned, GivesUp, OneCommand, PortKept, FileKept
<1>3. CASE Unknown(z) \/ Freed(z)
  BY <1>3 DEF Unknown, Freed, PortFree, OneCommand, PortKept, FileKept
<1>4. CASE Signal(z) \/ Escalate(z)
  BY <1>4 DEF Signal, Escalate, Over, OneCommand, PortKept, FileKept
<1>5. CASE Stopped(z)
  <2>1. \A l \in Launch : at[l] \notin HasSocket /\ ~Starting(l)
    BY <1>5 DEF Stopped, OneCommand, PortKept
  <2>2. then[z] # None => at[then[z]] = "idle"
    BY <1>5 DEF Stopped, Sound, Restarts
  <2> QED BY <1>5, <2>1, <2>2 DEF Stopped, OneCommand, PortKept, FileKept
<1> QED BY <1>1, <1>2, <1>3, <1>4, <1>5

-----------------------------------------------------------------------------
(* The theorems                                                            *)

(***************************************************************************)
(* The inductive invariant: what was signalled was a server or on its way  *)
(* out; and of commands that do not overlap each finds the port and the    *)
(* port file as it left them.                                              *)
(***************************************************************************)
THEOREM Invariant == Spec => []IInv
<1>1. Init => IInv
  <2> SUFFICES ASSUME Init PROVE IInv
    OBVIOUS
  <2>1. TypeOK
    BY DEF Init, TypeOK
  <2>2. Sound /\ Orderly
    BY ServerAssumption DEF Init, Sound, Orderly, Pids, Socket, Signalled, Restarts, OneCommand, PortKept, FileKept,
       HasSocket, Writing, Starting, Stopping
  <2> QED BY <2>1, <2>2 DEF IInv
<1>2. IInv /\ [Next]_vars => IInv'
  <2> SUFFICES ASSUME IInv, [Next]_vars PROVE IInv'
    OBVIOUS
  <2>1. TypeOK'
    BY TypeStep DEF IInv
  <2>2. CASE UNCHANGED vars
    BY <2>1, <2>2 DEF IInv, vars, launchVars, stopVars, Sound, Orderly, Pids, Socket, Signalled, Restarts,
       OneCommand, PortKept, FileKept, Starting, Stopping
  <2>3. CASE Next
    <3>1. Sound'
      BY <2>3, LaunchSound, StopSound DEF IInv, Next
    <3>2. ASSUME ~overlapped' PROVE Orderly'
      <4>1. ~overlapped
        BY <2>3, <3>2 DEF Next, Arrive, Ask, Probe, RemoveStale, TestPort, Open, Lock, Record, Unlock, Serve,
           Return, RemoveFile, Exit, Crash, Order, ReadPid, Cleaned, Unknown, Signal, Freed, Escalate,
           GivesUp, Stopped
      <4> QED BY <2>3, <3>2, <4>1, LaunchOrderly, StopOrderly DEF IInv, Next
    <3> QED BY <2>1, <3>1, <3>2 DEF IInv
  <2> QED BY <2>2, <2>3
<1> QED BY <1>1, <1>2, PTL DEF Spec

(* Every variable has its type, for any number of launches and stops. *)
THEOREM TypeCorrect == Spec => []TypeOK
<1>1. IInv => TypeOK
  BY DEF IInv
<1> QED BY <1>1, Invariant, PTL

(***************************************************************************)
(* When a stop returns the process it was for neither listens nor will,    *)
(* for any number of commands in any overlap (_server_stop).               *)
(***************************************************************************)
THEOREM StopsTell == Spec => []StoppedIsDown
<1>1. IInv => StoppedIsDown
  BY DEF IInv, TypeOK, Sound, Signalled, HasEnded, StoppedIsDown
<1> QED BY <1>1, Invariant, PTL

(***************************************************************************)
(* The server that runs is the one the port file names, for any number of  *)
(* commands that do not overlap, through crashes, refusals and restarts,   *)
(* unless it let the ping of a launch go without an answer.                *)
(***************************************************************************)
THEOREM ServersAreFound == Spec => []FoundUnlessRaced
<1>1. IInv => FoundUnlessRaced
  BY DEF IInv, Orderly, FileKept, FoundUnlessRaced, Found, Recorded
<1> QED BY <1>1, Invariant, PTL

-----------------------------------------------------------------------------
(* Terminals                                                               *)

(* A step of a terminal, whoever takes it.                                 *)
TermMove == TermInput \/ TermStep \/ UNCHANGED termVars

(* What a connection has been sent is what was kept from the time it       *)
(* joined up to the n-th chunk.                                            *)
Sees(s, c, n) ==
    /\ joined[c] + Len(sent[c]) = n
    /\ \A i \in 1 .. Len(sent[c]) : sent[c][i] = scrollback[s][joined[c] + i]

(* All but the last chunk when the reader has yet to send it that.         *)
View(s, c) ==
    /\ handler[c] = s
    /\ Sees(s, c, IF c \in reader[s].left THEN Len(scrollback[s]) - 1 ELSE Len(scrollback[s]))

(* The reader sends to connections of its terminal only: none leaves or    *)
(* joins while it does.                                                    *)
Sending(s) ==
    /\ reader[s].left \subseteq connections[s]
    /\ reader[s].at # "send" => reader[s].left = {}
    /\ reader[s].at = "send" => scrollback[s] # <<>>

Shared ==
    /\ \A s \in Terminal : Sending(s) /\ \A c \in connections[s] : View(s, c)
    /\ \A c \in Conn : handler[c] = "new" => sent[c] = <<>>

(* What is kept of a terminal that is closed or being closed.              *)
Left(s) ==
    /\ s \notin sessions => reader[s] = NoReader /\ connections[s] = {}
    /\ s \notin sessions \cup destroying =>
         closing[s] = {} /\ (shell[s] = "running" => stray[s] > 0)

TermIInv == TermTypeOK /\ Shared /\ \A s \in Terminal : Left(s)

LEMMA TermTypeStep == TermTypeOK /\ (\A s \in Terminal : Sending(s)) /\ TermMove => TermTypeOK'
<1> USE TerminalsAssumption
<1> SUFFICES ASSUME TermTypeOK, \A s \in Terminal : Sending(s), TermMove PROVE TermTypeOK'
  OBVIOUS
<1>1. CASE UNCHANGED termVars
  BY <1>1 DEF termVars, TermTypeOK
<1>2. ASSUME NEW s \in Terminal, Create(s) PROVE TermTypeOK'
  BY <1>2 DEF TermTypeOK, Create
<1>3. ASSUME NEW s \in Terminal, ShellWrites(s) PROVE TermTypeOK'
  BY <1>3 DEF TermTypeOK, ShellWrites
<1>4. ASSUME NEW s \in Terminal, ShellEnds(s) PROVE TermTypeOK'
  BY <1>4 DEF TermTypeOK, ShellEnds
<1>5. ASSUME NEW s \in Terminal, DisconnectNonOwners(s) PROVE TermTypeOK'
  BY <1>5 DEF TermTypeOK, DisconnectNonOwners
<1>6. ASSUME NEW s \in Terminal, Destroy(s) PROVE TermTypeOK'
  BY <1>6 DEF TermTypeOK, Destroy, CancelReader, NoReader
<1>7. ASSUME NEW s \in Terminal, Kill(s) PROVE TermTypeOK'
  BY <1>7 DEF TermTypeOK, Kill
<1>8. ASSUME NEW s \in Terminal, EndOfFile(s) PROVE TermTypeOK'
  BY <1>8 DEF TermTypeOK, EndOfFile, NoReader
<1>9. ASSUME NEW s \in Terminal, SendEnds(s) PROVE TermTypeOK'
  <2>0. reader[s] \in [at : {"none", "read", "send"}, left : SUBSET Conn]
    BY DEF TermTypeOK
  <2>1. [reader[s] EXCEPT !.at = "read"] \in [at : {"none", "read", "send"}, left : SUBSET Conn]
    BY <2>0
  <2>2. reader' = [reader EXCEPT ![s] = [reader[s] EXCEPT !.at = "read"]]
    BY <1>9 DEF SendEnds
  <2>3. reader' \in [Terminal -> [at : {"none", "read", "send"}, left : SUBSET Conn]]
    BY <2>1, <2>2 DEF TermTypeOK
  <2> QED BY <1>9, <2>3 DEF TermTypeOK, SendEnds
<1>10. ASSUME NEW s \in Terminal, Read(s) PROVE TermTypeOK'
  BY <1>10 DEF TermTypeOK, Read
<1>11. ASSUME NEW s \in Terminal, StrayRead(s) PROVE TermTypeOK'
  BY <1>11 DEF TermTypeOK, StrayRead
<1>12. ASSUME NEW s \in Terminal, NEW c \in Conn, Connect(s, c) PROVE TermTypeOK'
  BY <1>12 DEF TermTypeOK, Connect
<1>13. ASSUME NEW s \in Terminal, NEW c \in Conn, Leave(s, c) PROVE TermTypeOK'
  <2>1. CASE connections[s] \subseteq {c}
    <3>0. CancelReader(s)
      BY <1>13, <2>1 DEF Leave
    <3>1. reader' \in [Terminal -> [at : {"none", "read", "send"}, left : SUBSET Conn]]
      BY <3>0 DEF TermTypeOK, CancelReader, NoReader
    <3>2. stray' \in [Terminal -> Nat]
      BY <3>0 DEF TermTypeOK, CancelReader
    <3>3. handler' \in [Conn -> Terminal \cup {"new", "gone"}] /\ connections' \in [Terminal -> SUBSET Conn]
      BY <1>13 DEF TermTypeOK, Leave
    <3> QED BY <1>13, <3>1, <3>2, <3>3 DEF TermTypeOK, Leave
  <2>2. CASE ~ connections[s] \subseteq {c}
    BY <1>13, <2>2 DEF TermTypeOK, Leave
  <2> QED BY <2>1, <2>2
<1>14. ASSUME NEW s \in Terminal, NEW c \in Conn, Close(s, c) PROVE TermTypeOK'
  BY <1>14 DEF TermTypeOK, Close
<1>15. ASSUME NEW s \in Terminal, NEW c \in Conn, Send(s, c) PROVE TermTypeOK'
  <2>0. reader[s] \in [at : {"none", "read", "send"}, left : SUBSET Conn]
    BY DEF TermTypeOK
  <2>1. [reader[s] EXCEPT !.left = @ \ {c}] \in [at : {"none", "read", "send"}, left : SUBSET Conn]
    BY <2>0
  <2>2. reader' = [reader EXCEPT ![s] = [reader[s] EXCEPT !.left = @ \ {c}]]
    BY <1>15 DEF Send
  <2>3. scrollback[s] \in Seq(1 .. MaxChunks) /\ scrollback[s] # <<>>
    BY <1>15 DEF TermTypeOK, Send, Sending
  <2>4. scrollback[s][Len(scrollback[s])] \in 1 .. MaxChunks
    BY <2>3
  <2>5. sent' \in [Conn -> Seq(1 .. MaxChunks)]
    <3>1. CASE sent' = [sent EXCEPT ![c] = Append(@, scrollback[s][Len(scrollback[s])])]
      BY <2>4, <3>1 DEF TermTypeOK
    <3> QED BY <1>15, <3>1 DEF TermTypeOK, Send
  <2>6. connections' \in [Terminal -> SUBSET Conn]
    <3>1. CASE connections' = [connections EXCEPT ![s] = @ \ {c}]
      BY <3>1 DEF TermTypeOK
    <3> QED BY <1>15, <3>1 DEF TermTypeOK, Send
  <2>7. reader' \in [Terminal -> [at : {"none", "read", "send"}, left : SUBSET Conn]]
    BY <2>1, <2>2 DEF TermTypeOK
  <2>8. UNCHANGED <<sessions, shell, written, taken, scrollback, stray, handler, joined, closing, destroying>>
    BY <1>15 DEF Send
  <2> QED BY <2>5, <2>6, <2>7, <2>8 DEF TermTypeOK
<1> QED BY <1>1, <1>2, <1>3, <1>4, <1>5, <1>6, <1>7, <1>8, <1>9, <1>10, <1>11, <1>12, <1>13, <1>14, <1>15 DEF TermMove, TermInput, TermStep

(* Terminals are independent but for the connections.                      *)
LEMMA LeftStep ==
    ASSUME TermTypeOK, \A s \in Terminal : Left(s), TermMove
    PROVE  \A s \in Terminal : Left(s)'
<1> USE TerminalsAssumption
<1>1. CASE UNCHANGED termVars
  BY <1>1 DEF termVars, Left
<1>2. ASSUME NEW s \in Terminal, Create(s) \/ ShellWrites(s) \/ ShellEnds(s) PROVE \A t \in Terminal : Left(t)'
  BY <1>2 DEF TermTypeOK, Left, Create, ShellWrites, ShellEnds
<1>3. ASSUME NEW s \in Terminal, DisconnectNonOwners(s) PROVE \A t \in Terminal : Left(t)'
  BY <1>3 DEF TermTypeOK, Left, DisconnectNonOwners
<1>4. ASSUME NEW s \in Terminal, Destroy(s) PROVE \A t \in Terminal : Left(t)'
  BY <1>4 DEF TermTypeOK, Left, Destroy, CancelReader
<1>5. ASSUME NEW s \in Terminal, Kill(s) PROVE \A t \in Terminal : Left(t)'
  BY <1>5 DEF TermTypeOK, Left, Kill
<1>6. ASSUME NEW s \in Terminal, EndOfFile(s) PROVE \A t \in Terminal : Left(t)'
  BY <1>6 DEF TermTypeOK, Left, EndOfFile, NoReader
<1>7. ASSUME NEW s \in Terminal, Read(s) \/ SendEnds(s) PROVE \A t \in Terminal : Left(t)'
  <2>1. s \in sessions
    BY <1>7 DEF Left, Read, SendEnds, NoReader
  <2> QED BY <1>7, <2>1 DEF TermTypeOK, Left, Read, SendEnds
<1>8. ASSUME NEW s \in Terminal, StrayRead(s) PROVE \A t \in Terminal : Left(t)'
  BY <1>8 DEF TermTypeOK, Left, StrayRead, Closed
<1>9. ASSUME NEW s \in Terminal, NEW c \in Conn, Connect(s, c) PROVE \A t \in Terminal : Left(t)'
  BY <1>9 DEF TermTypeOK, Left, Connect
<1>10. ASSUME NEW s \in Terminal, NEW c \in Conn, Leave(s, c) PROVE \A t \in Terminal : Left(t)'
  <2>1. s \in sessions \/ (reader[s].at = "none" /\ connections[s] \subseteq {c})
    BY <1>10 DEF Left, NoReader
  <2> QED BY <1>10, <2>1 DEF TermTypeOK, Left, Leave, CancelReader
<1>11. ASSUME NEW s \in Terminal, NEW c \in Conn, Send(s, c) PROVE \A t \in Terminal : Left(t)'
  <2>1. s \in sessions
    BY <1>11 DEF Left, Send, NoReader
  <2> QED BY <1>11, <2>1 DEF TermTypeOK, Left, Send
<1>12. ASSUME NEW s \in Terminal, NEW c \in Conn, Close(s, c) PROVE \A t \in Terminal : Left(t)'
  BY <1>12 DEF TermTypeOK, Left, Close
<1> QED BY <1>1, <1>2, <1>3, <1>4, <1>5, <1>6, <1>7, <1>8, <1>9, <1>10, <1>11, <1>12
        DEF TermMove, TermInput, TermStep

(* Readers may end, connections leave or be closed, without a change of    *)
(* what those that stay have seen.                                         *)
LEMMA ViewsKept ==
    ASSUME Shared, UNCHANGED <<scrollback, joined, sent>>,
           \A t \in Terminal : connections'[t] \subseteq connections[t] /\ Sending(t)',
           \A t \in Terminal : connections'[t] # {} => reader'[t].left = reader[t].left,
           \A c \in Conn : handler'[c] \in {handler[c], "gone"},
           \A t \in Terminal : \A c \in connections'[t] : handler'[c] = handler[c]
    PROVE  Shared'
<1>1. ASSUME NEW t \in Terminal, NEW c \in connections'[t] PROVE View(t, c)'
  <2>1. View(t, c) /\ handler'[c] = handler[c] /\ reader'[t].left = reader[t].left
    BY DEF Shared
  <2> QED BY <2>1 DEF View, Sees
<1>2. \A c \in Conn : handler'[c] = "new" => sent'[c] = <<>>
  BY DEF Shared
<1> QED BY <1>1, <1>2 DEF Shared

LEMMA SharedStep == TermTypeOK /\ Shared /\ TermMove => Shared'
<1> USE TerminalsAssumption
<1> SUFFICES ASSUME TermTypeOK, Shared, TermMove PROVE Shared'
  OBVIOUS
<1>0. UNCHANGED <<scrollback, reader, connections, handler, joined, sent>> => Shared'
  BY DEF Shared, Sending, View, Sees
<1>1. CASE UNCHANGED termVars
  BY <1>0, <1>1 DEF termVars
<1>2. ASSUME NEW s \in Terminal, Create(s) \/ ShellWrites(s) \/ ShellEnds(s) \/ Kill(s) \/ StrayRead(s) PROVE Shared'
  BY <1>0, <1>2 DEF Create, ShellWrites, ShellEnds, Kill, StrayRead
<1>3. ASSUME NEW s \in Terminal, NEW c \in Conn, Close(s, c) PROVE Shared'
  BY <1>0, <1>3 DEF Close
<1>4. ASSUME NEW s \in Terminal, DisconnectNonOwners(s) PROVE Shared'
  <2>1. reader[s].left = {}
    BY <1>4 DEF Shared, Sending, DisconnectNonOwners, SessionLocked
  <2>2. \A t \in Terminal : connections'[t] \subseteq connections[t] /\ Sending(t)'
    BY <1>4, <2>1 DEF Shared, Sending, DisconnectNonOwners, TermTypeOK
  <2> QED BY <1>4, <2>2, ViewsKept DEF DisconnectNonOwners
<1>5. ASSUME NEW s \in Terminal, Destroy(s) PROVE Shared'
  <2>1. /\ connections'[s] = {} /\ reader'[s] = NoReader
        /\ \A t \in Terminal \ {s} : connections'[t] = connections[t] /\ reader'[t] = reader[t]
    BY <1>5 DEF Destroy, CancelReader, TermTypeOK
  <2>2. \A t \in Terminal : connections'[t] \subseteq connections[t] /\ Sending(t)'
    BY <1>5, <2>1 DEF Shared, Sending, Destroy, NoReader
  <2> QED BY <1>5, <2>1, <2>2, ViewsKept DEF Destroy
<1>6. ASSUME NEW s \in Terminal, EndOfFile(s) \/ SendEnds(s) PROVE Shared'
  <2>1. \A t \in Terminal \ {s} : reader'[t] = reader[t]
    BY <1>6 DEF EndOfFile, SendEnds, TermTypeOK
  <2>2. \/ reader'[s] = reader[s]
        \/ reader'[s].left = {} /\ reader'[s].at # "send" /\ reader[s].left = {}
    <3>1. CASE EndOfFile(s)
      BY <3>1 DEF EndOfFile, NoReader, TermTypeOK, Shared, Sending
    <3>2. CASE SendEnds(s)
      BY <3>2 DEF SendEnds, TermTypeOK
    <3> QED BY <1>6, <3>1, <3>2
  <2>3. \A t \in Terminal : reader'[t].left = reader[t].left
    BY <2>1, <2>2
  <2>4. UNCHANGED <<scrollback, connections, handler, joined, sent>>
    BY <1>6 DEF EndOfFile, SendEnds
  <2>5. \A t \in Terminal : Sending(t)'
    BY <2>1, <2>2, <2>3, <2>4 DEF Shared, Sending
  <2> QED BY <2>3, <2>4, <2>5, ViewsKept
<1>7. ASSUME NEW s \in Terminal, NEW c \in Conn, Leave(s, c) PROVE Shared'
  <2>1. reader[s].left = {} /\ reader[s].at # "send"
    BY <1>7 DEF Shared, Sending, Leave, SessionLocked
  <2>2. reader'[s] \in {reader[s], NoReader} /\ \A t \in Terminal \ {s} : reader'[t] = reader[t]
    BY <1>7 DEF Leave, CancelReader, TermTypeOK
  <2>3. \A t \in Terminal : Sending(t)' /\ reader'[t].left = reader[t].left /\ connections'[t] \subseteq connections[t]
    <3>1. reader'[s].left = {} /\ reader'[s].at # "send"
      BY <2>1, <2>2 DEF NoReader
    <3>2. /\ \A t \in Terminal \ {s} : connections'[t] = connections[t]
          /\ connections'[s] \subseteq connections[s] /\ UNCHANGED scrollback
      BY <1>7 DEF Leave, TermTypeOK
    <3> QED BY <2>1, <2>2, <3>1, <3>2 DEF Shared, Sending
  <2>4. \A t \in Terminal : \A d \in connections'[t] : d # c
    BY <1>7 DEF Leave, TermTypeOK, Shared, View
  <2>5. /\ \A d \in Conn : handler'[d] \in {handler[d], "gone"}
        /\ \A t \in Terminal : \A d \in connections'[t] : handler'[d] = handler[d]
    BY <1>7, <2>3, <2>4 DEF Leave, TermTypeOK
  <2> QED BY <1>7, <2>3, <2>5, ViewsKept DEF Leave
<1>8. ASSUME NEW s \in Terminal, NEW c \in Conn, Connect(s, c) PROVE Shared'
  <2>1. \A t \in Terminal : c \notin connections[t] /\ c \notin reader[t].left
    BY <1>8 DEF Shared, Sending, View, Connect
  <2>2. \A t \in Terminal : Sending(t)' /\ reader'[t].left = reader[t].left
    BY <1>8 DEF Shared, Sending, Connect, SessionLocked, TermTypeOK
  <2>3. View(s, c)'
    <3>1. handler'[c] = s /\ joined'[c] = Len(scrollback[s]) /\ sent'[c] = <<>> /\ c \notin reader'[s].left
      BY <1>8, <2>1, <2>2 DEF Connect, TermTypeOK, Shared
    <3>2. Len(scrollback[s]) \in Nat /\ scrollback' = scrollback
      BY <1>8 DEF TermTypeOK, Connect
    <3> QED BY <3>1, <3>2 DEF View, Sees
  <2>4. ASSUME NEW t \in Terminal, NEW d \in connections[t] PROVE View(t, d)'
    <3>1. d # c /\ d \in Conn /\ View(t, d)
      BY <2>1 DEF TermTypeOK, Shared
    <3>2. handler'[d] = handler[d] /\ joined'[d] = joined[d] /\ UNCHANGED <<sent, scrollback>>
      BY <1>8, <3>1 DEF Connect, TermTypeOK
    <3> QED BY <2>2, <3>1, <3>2 DEF View, Sees
  <2>5. \A t \in Terminal : \A d \in connections'[t] : d \in connections[t] \/ (t = s /\ d = c)
    BY <1>8 DEF Connect, TermTypeOK
  <2>6. \A d \in Conn : handler'[d] = "new" => sent'[d] = <<>>
    BY <1>8 DEF Connect, TermTypeOK, Shared
  <2> QED BY <2>2, <2>3, <2>4, <2>5, <2>6 DEF Shared
<1>9. ASSUME NEW s \in Terminal, Read(s) PROVE Shared'
  <2>1. /\ scrollback[s] \in Seq(1 .. MaxChunks) /\ taken[s] + 1 \in 1 .. MaxChunks
    BY <1>9 DEF Read, TermTypeOK
  <2>2. /\ scrollback'[s] = Append(scrollback[s], taken[s] + 1)
        /\ reader'[s] = [at |-> "send", left |-> connections[s]]
        /\ \A t \in Terminal \ {s} : reader'[t] = reader[t] /\ scrollback'[t] = scrollback[t]
        /\ reader[s].left = {} /\ UNCHANGED <<connections, handler, joined, sent>>
    BY <1>9 DEF Read, TermTypeOK, Shared, Sending
  <2>3. \A t \in Terminal : Sending(t)'
    BY <2>1, <2>2 DEF Shared, Sending
  <2>4. ASSUME NEW d \in connections[s] PROVE View(s, d)'
    <3>1. d \in Conn /\ joined[d] \in Nat /\ sent[d] \in Seq(1 .. MaxChunks) /\ View(s, d) /\ d \notin reader[s].left
      BY <2>2 DEF TermTypeOK, Shared
    <3>2. joined[d] + Len(sent[d]) = Len(scrollback[s])
      BY <3>1 DEF View, Sees
    <3>3. Len(scrollback'[s]) - 1 = Len(scrollback[s])
      BY <2>1, <2>2
    <3>4. \A i \in 1 .. Len(sent[d]) : sent[d][i] = scrollback'[s][joined[d] + i]
      <4>1. ASSUME NEW i \in 1 .. Len(sent[d]) PROVE scrollback'[s][joined[d] + i] = scrollback[s][joined[d] + i]
        <5>1. joined[d] + i \in 1 .. Len(scrollback[s])
          BY <3>1, <3>2
        <5> QED BY <2>1, <2>2, <5>1
      <4> QED BY <2>2, <3>1, <4>1 DEF View, Sees
    <3> QED BY <2>2, <3>1, <3>2, <3>3, <3>4, SMTT(30) DEF View, Sees
  <2>5. ASSUME NEW t \in Terminal \ {s}, NEW d \in connections[t] PROVE View(t, d)'
    BY <2>2 DEF Shared, View, Sees
  <2> QED BY <2>2, <2>3, <2>4, <2>5 DEF Shared
<1>10. ASSUME NEW s \in Terminal, NEW c \in Conn, Send(s, c) PROVE Shared'
  <2>1. /\ c \in connections[s] /\ View(s, c) /\ c \in reader[s].left
        /\ scrollback[s] \in Seq(1 .. MaxChunks) /\ joined[c] \in Nat /\ sent[c] \in Seq(1 .. MaxChunks)
    BY <1>10 DEF Shared, Sending, Send, TermTypeOK
  <2>2. /\ reader'[s].left = reader[s].left \ {c} /\ reader'[s].at = "send"
        /\ \A t \in Terminal \ {s} : reader'[t] = reader[t]
        /\ UNCHANGED <<scrollback, handler, joined>>
    BY <1>10 DEF Send, TermTypeOK
  <2>3. \A t \in Terminal \ {s} : c \notin connections[t]
    BY <2>1 DEF Shared, View
  <2>4. CASE sent' = [sent EXCEPT ![c] = Append(@, scrollback[s][Len(scrollback[s])])] /\ UNCHANGED connections
    <3>1. \A t \in Terminal : Sending(t)'
      BY <1>10, <2>2, <2>4 DEF Shared, Sending, Send
    <3>2. sent'[c] = Append(sent[c], scrollback[s][Len(scrollback[s])]) /\ \A d \in Conn \ {c} : sent'[d] = sent[d]
      BY <2>4 DEF TermTypeOK
    <3>3. View(s, c)'
      <4>1. /\ joined[c] + Len(sent[c]) = Len(scrollback[s]) - 1
            /\ Len(sent[c]) \in Nat /\ Len(scrollback[s]) \in Nat /\ joined[c] \in Nat
        BY <2>1 DEF View, Sees
      <4>2. Len(sent'[c]) = Len(sent[c]) + 1
        BY <2>1, <3>2
      <4>3. joined[c] + Len(sent'[c]) = Len(scrollback[s])
        BY <4>1, <4>2
      <4>4. ASSUME NEW i \in 1 .. Len(sent'[c]) PROVE sent'[c][i] = scrollback[s][joined[c] + i]
        <5>1. CASE i = Len(sent[c]) + 1
          <6>1. joined[c] + i = Len(scrollback[s])
            BY <4>1, <5>1
          <6>2. sent'[c][i] = scrollback[s][Len(scrollback[s])]
            BY <2>1, <3>2, <5>1
          <6> QED BY <6>1, <6>2
        <5>2. CASE i # Len(sent[c]) + 1
          <6>1. i \in 1 .. Len(sent[c])
            BY <2>1, <4>2, <5>2
          <6> QED BY <2>1, <3>2, <6>1 DEF View, Sees
        <5> QED BY <5>1, <5>2
      <4> QED BY <2>1, <2>2, <4>3, <4>4 DEF View, Sees
    <3>4. ASSUME NEW t \in Terminal, NEW d \in connections[t], <<t, d>> # <<s, c>> PROVE View(t, d)'
      <4>1. d # c /\ d \in Conn
        BY <2>3, <3>4 DEF TermTypeOK
      <4>2. View(t, d) /\ (d \in reader'[t].left <=> d \in reader[t].left)
        BY <2>2, <4>1 DEF Shared
      <4> QED BY <2>2, <3>2, <4>1, <4>2 DEF View, Sees
    <3>5. \A d \in Conn : handler[d] = "new" => sent'[d] = <<>>
      BY <2>1, <3>2 DEF Shared, View
    <3> QED BY <2>2, <2>4, <3>1, <3>3, <3>4, <3>5 DEF Shared
  <2>5. CASE connections' = [connections EXCEPT ![s] = @ \ {c}] /\ UNCHANGED sent
    <3>1. /\ connections'[s] = connections[s] \ {c}
          /\ \A t \in Terminal \ {s} : connections'[t] = connections[t]
      BY <2>5 DEF TermTypeOK
    <3>2. \A t \in Terminal : Sending(t)'
      BY <1>10, <2>2, <3>1 DEF Shared, Sending, Send
    <3>3. ASSUME NEW t \in Terminal, NEW d \in connections'[t] PROVE View(t, d)'
      <4>1. d # c /\ d \in connections[t]
        BY <2>3, <3>1
      <4>2. View(t, d) /\ (d \in reader'[t].left <=> d \in reader[t].left)
        BY <2>2, <4>1 DEF Shared
      <4> QED BY <2>2, <2>5, <4>2 DEF View, Sees
    <3> QED BY <2>2, <2>5, <3>2, <3>3 DEF Shared
  <2> QED BY <1>10, <2>4, <2>5 DEF Send
<1> QED BY <1>1, <1>2, <1>3, <1>4, <1>5, <1>6, <1>7, <1>8, <1>9, <1>10 DEF TermMove, TermInput, TermStep

LEMMA TermIInvStep == TermIInv /\ TermMove => TermIInv'
BY TermTypeStep, SharedStep, LeftStep DEF TermIInv, Shared

-----------------------------------------------------------------------------
(* Sequences of entries                                                    *)

(* An entry is in a sequence; it is there before another one.              *)
Has(l, x) == \E i \in DOMAIN l : l[i] = x
Before(l, x, y) == \E i, j \in DOMAIN l : i < j /\ l[i] = x /\ l[j] = y

(* A set of numbers that is closed under the next number has them all.     *)
LEMMA Induct ==
    ASSUME NEW n \in Nat, NEW T, 0 \in T, \A m \in 0 .. n - 1 : m \in T => m + 1 \in T
    PROVE  0 .. n \subseteq T
<1> DEFINE Missing == (0 .. n) \ T
<1> SUFFICES ASSUME Missing # {} PROVE FALSE
  OBVIOUS
<1>1. Missing \subseteq Nat
  OBVIOUS
<1>2. PICK m \in Missing : \A k \in Missing : ~ (<<k, m>> \in OpToRel(<, Nat))
  BY <1>1, WFMin, NatLessThanWellFounded, Zenon
<1>3. \A k \in Missing : ~ (k < m)
  BY <1>1, <1>2 DEF OpToRel
<1>4. m \in 0 .. n /\ m \notin T
  OBVIOUS
<1>5. m - 1 \in 0 .. n - 1
  BY <1>4
<1>6. m - 1 \in 0 .. n /\ m - 1 < m /\ (m - 1) + 1 = m
  BY <1>5
<1>7. m - 1 \in T
  BY <1>3, <1>6
<1> QED BY <1>4, <1>5, <1>6, <1>7

(* A set of numbers up to some number has a largest one.                   *)
LEMMA LargestOf ==
    ASSUME NEW n \in Nat, NEW S, S \subseteq 1 .. n, S # {}
    PROVE  \E m \in S : \A j \in S : j <= m
<1> DEFINE T == {k \in 0 .. n : (\E j \in S : j <= k) => \E m \in S : m <= k /\ \A j \in S : j <= k => j <= m}
<1>1. 0 \in T
  OBVIOUS
<1>2. ASSUME NEW k \in 0 .. n - 1, k \in T PROVE k + 1 \in T
  <2>1. CASE k + 1 \in S
    BY <2>1
  <2>2. CASE k + 1 \notin S
    <3>1. \A j \in S : j <= k + 1 <=> j <= k
      BY <2>2
    <3> QED BY <1>2, <3>1
  <2> QED BY <2>1, <2>2
<1>3. n \in T
  <2> HIDE DEF T
  <2> QED BY <1>1, <1>2, Induct
<1>4. \A j \in S : j <= n
  OBVIOUS
<1> QED BY <1>3, <1>4

LEMMA AppendHas ==
    ASSUME NEW S, NEW l \in Seq(S), NEW e \in S
    PROVE  /\ Append(l, e) \in Seq(S)
           /\ \A x : Has(Append(l, e), x) <=> Has(l, x) \/ x = e
           /\ \A x, y : Before(Append(l, e), x, y) <=> Before(l, x, y) \/ (Has(l, x) /\ y = e)
<1> DEFINE a == Append(l, e)
<1>1. a \in Seq(S) /\ Len(a) = Len(l) + 1 /\ a[Len(l) + 1] = e /\ \A i \in 1 .. Len(l) : a[i] = l[i]
  OBVIOUS
<1>2. DOMAIN l = 1 .. Len(l) /\ DOMAIN a = 1 .. Len(l) + 1 /\ Len(l) \in Nat
  BY <1>1
<1> HIDE DEF a
<1>3. ASSUME NEW x PROVE Has(a, x) <=> Has(l, x) \/ x = e
  BY <1>1, <1>2 DEF Has
<1>4. ASSUME NEW x, NEW y PROVE Before(a, x, y) <=> Before(l, x, y) \/ (Has(l, x) /\ y = e)
  <2>1. ASSUME Before(a, x, y) PROVE Before(l, x, y) \/ (Has(l, x) /\ y = e)
    <3>1. PICK i \in 1 .. Len(l) + 1, j \in 1 .. Len(l) + 1 : i < j /\ a[i] = x /\ a[j] = y
      BY <1>2, <2>1 DEF Before
    <3>2. i \in 1 .. Len(l) /\ l[i] = x
      BY <1>1, <1>2, <3>1
    <3>3. CASE j = Len(l) + 1
      BY <1>1, <1>2, <3>1, <3>2, <3>3 DEF Has
    <3>4. CASE j # Len(l) + 1
      <4>1. j \in 1 .. Len(l) /\ l[j] = y
        BY <1>1, <1>2, <3>1, <3>4
      <4> QED BY <1>2, <3>1, <3>2, <4>1 DEF Before
    <3> QED BY <3>3, <3>4
  <2>2. ASSUME Before(l, x, y) PROVE Before(a, x, y)
    BY <1>1, <1>2, <2>2 DEF Before
  <2>3. ASSUME Has(l, x), y = e PROVE Before(a, x, y)
    <3>1. PICK i \in 1 .. Len(l) : l[i] = x
      BY <1>2, <2>3 DEF Has
    <3>2. i < Len(l) + 1 /\ a[i] = x /\ a[Len(l) + 1] = y /\ i \in DOMAIN a /\ Len(l) + 1 \in DOMAIN a
      BY <1>1, <1>2, <2>3, <3>1
    <3> QED BY <3>2 DEF Before
  <2> QED BY <2>1, <2>2, <2>3
<1> QED BY <1>1, <1>3, <1>4 DEF a

LEMMA ConcatHas ==
    ASSUME NEW S, NEW k \in Seq(S), NEW l \in Seq(S)
    PROVE  /\ k \o l \in Seq(S)
           /\ \A x : Has(k \o l, x) <=> Has(k, x) \/ Has(l, x)
           /\ \A x, y : Before(k \o l, x, y) <=> Before(k, x, y) \/ Before(l, x, y) \/ (Has(k, x) /\ Has(l, y))
<1> DEFINE a == k \o l
           m == Len(k)
           n == Len(l)
<1>1. /\ a \in Seq(S) /\ Len(a) = m + n
      /\ \A i \in 1 .. m : a[i] = k[i]
      /\ \A i \in 1 .. n : a[m + i] = l[i]
  <2>1. \A i \in 1 .. Len(k) + Len(l) : a[i] = IF i <= Len(k) THEN k[i] ELSE l[i - Len(k)]
    BY ConcatProperties
  <2> QED BY <2>1, ConcatProperties
<1>2. DOMAIN k = 1 .. m /\ DOMAIN l = 1 .. n /\ DOMAIN a = 1 .. m + n /\ m \in Nat /\ n \in Nat
  BY <1>1
<1> HIDE DEF a, m, n
<1>3. ASSUME NEW i \in 1 .. m + n PROVE (i \in 1 .. m /\ a[i] = k[i]) \/ (i - m \in 1 .. n /\ a[i] = l[i - m])
  <2>1. CASE i <= m
    BY <1>1, <1>2, <2>1
  <2>2. CASE i > m
    <3>1. i - m \in 1 .. n /\ m + (i - m) = i
      BY <1>2, <2>2
    <3>2. a[m + (i - m)] = l[i - m]
      BY <1>1, <3>1
    <3> QED BY <3>1, <3>2
  <2> QED BY <1>2, <2>1, <2>2
<1>4. ASSUME NEW i \in 1 .. n PROVE m + i \in 1 .. m + n /\ a[m + i] = l[i]
  BY <1>1, <1>2
<1>5. ASSUME NEW x PROVE Has(a, x) <=> Has(k, x) \/ Has(l, x)
  <2>1. Has(a, x) => Has(k, x) \/ Has(l, x)
    BY <1>2, <1>3 DEF Has
  <2>2. Has(k, x) => Has(a, x)
    BY <1>1, <1>2 DEF Has
  <2>3. Has(l, x) => Has(a, x)
    BY <1>2, <1>4 DEF Has
  <2> QED BY <2>1, <2>2, <2>3
<1>6. ASSUME NEW x, NEW y PROVE Before(a, x, y) <=> Before(k, x, y) \/ Before(l, x, y) \/ (Has(k, x) /\ Has(l, y))
  <2>1. ASSUME Before(a, x, y) PROVE Before(k, x, y) \/ Before(l, x, y) \/ (Has(k, x) /\ Has(l, y))
    <3>1. PICK i \in 1 .. m + n, j \in 1 .. m + n : i < j /\ a[i] = x /\ a[j] = y
      BY <1>2, <2>1 DEF Before
    <3>2. CASE i \in 1 .. m /\ a[i] = k[i] /\ j \in 1 .. m /\ a[j] = k[j]
      BY <1>2, <3>1, <3>2 DEF Before
    <3>3. CASE i \in 1 .. m /\ a[i] = k[i] /\ j - m \in 1 .. n /\ a[j] = l[j - m]
      BY <1>2, <3>1, <3>3 DEF Has
    <3>4. CASE i - m \in 1 .. n /\ a[i] = l[i - m] /\ j - m \in 1 .. n /\ a[j] = l[j - m]
      <4>1. i - m < j - m
        BY <1>2, <3>1
      <4> QED BY <1>2, <3>1, <3>4, <4>1 DEF Before
    <3>5. CASE i - m \in 1 .. n /\ j \in 1 .. m
      BY <1>2, <3>1, <3>5
    <3> QED BY <1>3, <3>2, <3>3, <3>4, <3>5
  <2>2. ASSUME Before(k, x, y) PROVE Before(a, x, y)
    BY <1>1, <1>2, <2>2 DEF Before
  <2>3. ASSUME Before(l, x, y) PROVE Before(a, x, y)
    <3>1. PICK i \in 1 .. n, j \in 1 .. n : i < j /\ l[i] = x /\ l[j] = y
      BY <1>2, <2>3 DEF Before
    <3>2. m + i < m + j /\ m + i \in DOMAIN a /\ m + j \in DOMAIN a /\ a[m + i] = x /\ a[m + j] = y
      BY <1>2, <1>4, <3>1
    <3> QED BY <3>2 DEF Before
  <2>4. ASSUME Has(k, x), Has(l, y) PROVE Before(a, x, y)
    <3>1. PICK i \in 1 .. m : k[i] = x
      BY <1>2, <2>4 DEF Has
    <3>2. PICK j \in 1 .. n : l[j] = y
      BY <1>2, <2>4 DEF Has
    <3>3. i < m + j /\ i \in DOMAIN a /\ m + j \in DOMAIN a /\ a[i] = x /\ a[m + j] = y
      BY <1>1, <1>2, <1>4, <3>1, <3>2
    <3> QED BY <3>3 DEF Before
  <2> QED BY <2>1, <2>2, <2>3, <2>4
<1> QED BY <1>1, <1>5, <1>6 DEF a

Lines == [from : Container, by : 1 .. MaxThreads, line : Nat]

(* upTo in EntriesOf is what its definition says.                          *)
UpTo(l, s, n, f) ==
    f = [m \in 0 .. n |-> IF m = 0 THEN <<>>
                          ELSE IF ServiceOf(l[m].from) = s THEN Append(f[m - 1], l[m]) ELSE f[m - 1]]

(* There is such a function: the CHOOSE in EntriesOf finds one.            *)
LEMMA UpToExists ==
    ASSUME NEW l \in Seq(Lines), NEW s
    PROVE  \E f : UpTo(l, s, Len(l), f)
<1> DEFINE Adds(m, z) == IF ServiceOf(l[m].from) = s THEN Append(z, l[m]) ELSE z
           T == {n \in 0 .. Len(l) : \E f \in [0 .. n -> Seq(Lines)] : UpTo(l, s, n, f)}
<1>1. 0 \in T
  <2>1. [m \in 0 .. 0 |-> <<>>] \in [0 .. 0 -> Seq(Lines)]
    OBVIOUS
  <2>2. UpTo(l, s, 0, [m \in 0 .. 0 |-> <<>>])
    BY DEF UpTo
  <2>3. 0 \in 0 .. Len(l) /\ \E f \in [0 .. 0 -> Seq(Lines)] : UpTo(l, s, 0, f)
    BY <2>1, <2>2
  <2> QED BY <2>3
<1>2. ASSUME NEW n \in 0 .. Len(l) - 1, n \in T PROVE n + 1 \in T
  <2>1. PICK f \in [0 .. n -> Seq(Lines)] : UpTo(l, s, n, f)
    BY <1>2
  <2> DEFINE e == Adds(n + 1, f[n])
             g == [m \in 0 .. n + 1 |-> IF m = n + 1 THEN e ELSE f[m]]
  <2>2. e \in Seq(Lines)
    OBVIOUS
  <2>3. g \in [0 .. n + 1 -> Seq(Lines)]
    BY <2>2
  <2>4. \A m \in 0 .. n : f[m] = IF m = 0 THEN <<>> ELSE Adds(m, f[m - 1])
    BY <2>1 DEF UpTo
  <2>5. \A m \in 0 .. n + 1 : g[m] = IF m = 0 THEN <<>> ELSE Adds(m, g[m - 1])
    <3> SUFFICES ASSUME NEW m \in 0 .. n + 1 PROVE g[m] = IF m = 0 THEN <<>> ELSE Adds(m, g[m - 1])
      OBVIOUS
    <3>1. CASE m = n + 1
      <4>1. g[m] = e /\ m # 0 /\ m - 1 = n /\ g[m - 1] = f[n]
        BY <3>1
      <4> QED BY <3>1, <4>1
    <3>2. CASE m # n + 1
      <4>1. m \in 0 .. n /\ g[m] = f[m] /\ (m # 0 => m - 1 \in 0 .. n /\ g[m - 1] = f[m - 1])
        BY <3>2
      <4> HIDE DEF g
      <4> QED BY <2>4, <4>1
    <3> QED BY <3>1, <3>2
  <2>6. UpTo(l, s, n + 1, g)
    <3>1. g = [m \in 0 .. n + 1 |-> g[m]]
      OBVIOUS
    <3> HIDE DEF g
    <3> QED BY <2>5, <3>1 DEF UpTo
  <2>7. n + 1 \in 0 .. Len(l)
    OBVIOUS
  <2> HIDE DEF g
  <2> QED BY <2>3, <2>6, <2>7
<1>3. Len(l) \in T
  <2> HIDE DEF T
  <2>1. Len(l) \in Nat
    OBVIOUS
  <2>2. 0 .. Len(l) \subseteq T
    BY <1>1, <1>2, <2>1, Induct
  <2> QED BY <2>1, <2>2
<1> QED BY <1>3

(* The first n entries of a sequence, and those of one service among them. *)
LEMMA EntriesOfFacts ==
    ASSUME NEW l \in Seq(Lines), NEW s
    PROVE  /\ EntriesOf(l, s) \in Seq(Lines)
           /\ \A x : Has(EntriesOf(l, s), x) <=> Has(l, x) /\ ServiceOf(x.from) = s
           /\ \A x, y : Before(EntriesOf(l, s), x, y) => Before(l, x, y)
<1>1. PICK f : UpTo(l, s, Len(l), f) /\ EntriesOf(l, s) = f[Len(l)]
  <2> DEFINE upTo == CHOOSE f : UpTo(l, s, Len(l), f)
  <2>1. UpTo(l, s, Len(l), upTo)
    <3>1. \E f : UpTo(l, s, Len(l), f)
      BY UpToExists
    <3> QED BY <3>1, Zenon
  <2>2. EntriesOf(l, s) = upTo[Len(l)]
    BY DEF UpTo, EntriesOf
  <2> QED BY <2>1, <2>2
<1>2. \A m \in 0 .. Len(l) : f[m] = IF m = 0 THEN <<>>
                                    ELSE IF ServiceOf(l[m].from) = s THEN Append(f[m - 1], l[m]) ELSE f[m - 1]
  BY <1>1 DEF UpTo
<1> DEFINE Part(n, x) == \E i \in 1 .. n : l[i] = x
           T == {n \in 0 .. Len(l) : /\ f[n] \in Seq(Lines)
                                     /\ \A x \in Lines : Has(f[n], x) <=> Part(n, x) /\ ServiceOf(x.from) = s
                                     /\ \A x, y \in Lines : Before(f[n], x, y) => Before(l, x, y)}
<1>3. Len(l) \in Nat /\ DOMAIN l = 1 .. Len(l)
  OBVIOUS
<1>4. 0 \in T
  <2>1. f[0] = <<>>
    BY <1>2, <1>3
  <2>2. \A x : ~Has(<<>>, x)
    BY DEF Has
  <2>3. \A x, y : ~Before(<<>>, x, y)
    BY DEF Before
  <2>4. \A x : ~Part(0, x)
    OBVIOUS
  <2>5. f[0] \in Seq(Lines) /\ 0 \in 0 .. Len(l)
    BY <2>1, <1>3
  <2> HIDE DEF Part
  <2> QED BY <2>1, <2>2, <2>3, <2>4, <2>5
<1>5. ASSUME NEW n \in 0 .. Len(l) - 1, n \in T PROVE n + 1 \in T
  <2> DEFINE e == l[n + 1]
  <2>1. /\ n \in Nat /\ n + 1 \in 0 .. Len(l) /\ n + 1 \in 1 .. Len(l) /\ e \in Lines
        /\ f[n] \in Seq(Lines) /\ (\A x \in Lines : Has(f[n], x) <=> Part(n, x) /\ ServiceOf(x.from) = s)
        /\ \A x, y \in Lines : Before(f[n], x, y) => Before(l, x, y)
    BY <1>3, <1>5
  <2>2. f[n + 1] = IF ServiceOf(e.from) = s THEN Append(f[n], e) ELSE f[n]
    BY <1>2, <2>1
  <2>3. ASSUME NEW x PROVE Part(n + 1, x) <=> Part(n, x) \/ x = e
    BY <2>1
  <2>4. ASSUME NEW x, Part(n, x) PROVE Before(l, x, e)
    <3>1. PICK i \in 1 .. n : l[i] = x
      BY <2>4
    <3>2. i < n + 1 /\ i \in DOMAIN l /\ n + 1 \in DOMAIN l
      BY <1>3, <2>1
    <3> QED BY <3>1, <3>2 DEF Before
  <2> HIDE DEF Part, e
  <2>5. CASE ServiceOf(e.from) # s
    BY <2>1, <2>2, <2>3, <2>5
  <2>6. CASE ServiceOf(e.from) = s
    <3>1. /\ f[n + 1] \in Seq(Lines)
          /\ \A x : Has(f[n + 1], x) <=> Has(f[n], x) \/ x = e
          /\ \A x, y : Before(f[n + 1], x, y) <=> Before(f[n], x, y) \/ (Has(f[n], x) /\ y = e)
      BY <2>1, <2>2, <2>6, AppendHas
    <3>2. \A x, y \in Lines : Before(f[n + 1], x, y) => Before(l, x, y)
      BY <2>1, <2>4, <3>1
    <3>3. \A x \in Lines : Has(f[n + 1], x) <=> Part(n + 1, x) /\ ServiceOf(x.from) = s
      BY <2>1, <2>3, <2>6, <3>1
    <3> QED BY <2>1, <3>1, <3>2, <3>3
  <2> QED BY <2>5, <2>6
<1>6. Len(l) \in T
  <2> HIDE DEF T
  <2>1. 0 .. Len(l) \subseteq T
    BY <1>3, <1>4, <1>5, Induct
  <2> QED BY <1>3, <2>1
<1> DEFINE o == f[Len(l)]
<1>7. /\ o \in Seq(Lines)
      /\ \A x \in Lines : Has(o, x) <=> Part(Len(l), x) /\ ServiceOf(x.from) = s
      /\ \A x, y \in Lines : Before(o, x, y) => Before(l, x, y)
  BY <1>6
<1>8. \A x : (Has(o, x) => x \in Lines) /\ (Has(l, x) => x \in Lines)
  BY <1>3, <1>7 DEF Has
<1>9. \A x, y : Before(o, x, y) => Has(o, x) /\ Has(o, y)
  BY DEF Before, Has
<1>10. ASSUME NEW x PROVE Has(o, x) <=> Has(l, x) /\ ServiceOf(x.from) = s
  <2>1. Part(Len(l), x) <=> Has(l, x)
    BY <1>3 DEF Has
  <2> HIDE DEF Part, o
  <2> QED BY <1>7, <1>8, <2>1
<1> HIDE DEF o
<1>11. \A x, y : Before(o, x, y) => Before(l, x, y)
  BY <1>7, <1>8, <1>9
<1> QED BY <1>1, <1>7, <1>10, <1>11 DEF o

(* The service of a container that belongs to one.                         *)
LEMMA ServiceClaims ==
    ASSUME NEW c, Claims(c) # {}
    PROVE  ServiceOf(c) \in Service /\ Matches(ServiceOf(c), c)
<1>1. Claims(c) \subseteq 1 .. Len(Services) /\ Len(Services) \in Nat /\ DOMAIN Services = 1 .. Len(Services)
  BY LogAssumption DEF Claims
<1>2. \E m \in Claims(c) : \A j \in Claims(c) : j <= m
  BY <1>1, LargestOf
<1>3. \E m \in Claims(c) : \A j \in Claims(c) : m >= j
  BY <1>1, <1>2
<1>4. Max(Claims(c)) \in Claims(c)
  BY <1>3 DEF Max
<1> QED BY <1>4 DEF Claims, ServiceOf, Service

-----------------------------------------------------------------------------
(* The log aggregator                                                      *)

(* A step of the aggregator, whoever takes it.                             *)
LogMove ==
    \/ LogInput \/ LogStep \/ LogStop
    \/ logTask' = "new" /\ UNCHANGED <<dockerVars, client, seen, table, thread, next, pending, ring>>
    \/ UNCHANGED logVars

LogTypeOK ==
    /\ running \subseteq Container /\ seen \subseteq Container
    /\ printed \in [Container -> Nat] /\ second \in [Container -> Nat]
    /\ table \in [Container -> 0 .. MaxThreads]
    /\ thread \in [Container -> [1 .. MaxThreads -> {"none", "new", "following", "over"}]]
    /\ next \in [Container -> [1 .. MaxThreads -> Nat]]
    /\ pending \in Seq(Lines) /\ ring \in [Service -> Seq(Lines)]

(* Threads are used one after the other, for containers of services only.  *)
Used(c) == {g \in 1 .. MaxThreads : thread[c][g] # "none"}
Threads ==
    /\ \A c \in seen : Claims(c) # {}
    /\ \A c \in Container : \E k \in 0 .. MaxThreads : Used(c) = 1 .. k /\ (k # 0 => Claims(c) # {})

(* What a thread has read, of the lines before the next one it reads.      *)
IsRead(x) == thread[x.from][x.by] \in {"following", "over"} /\ x.line < next[x.from][x.by]
Entries ==
    /\ \A x : Has(pending, x) => IsRead(x)
    /\ \A s \in Service : \A x : Has(ring[s], x) => ServiceOf(x.from) = s /\ IsRead(x)

Same(x, y) == x.from = y.from /\ x.by = y.by
InOrder(l) == \A x, y : Before(l, x, y) /\ Same(x, y) => x.line < y.line
Orders ==
    /\ InOrder(pending)
    /\ \A s \in Service :
         /\ InOrder(ring[s])
         /\ \A x, y : Has(ring[s], x) /\ Has(pending, y) /\ Same(x, y) => x.line < y.line

(* Nothing is missing between an entry that is kept, or queued, and the    *)
(* newest one of its thread.                                               *)
Stands(s, x) == Has(ring[s], x) \/ (Has(pending, x) /\ ServiceOf(x.from) = s)
WithLine(x, n) == [from |-> x.from, by |-> x.by, line |-> n]
NoGap ==
    \A s \in Service : \A x : Stands(s, x) =>
        \A n \in x.line .. next[x.from][x.by] - 1 : Stands(s, WithLine(x, n))

LogIInv == LogTypeOK /\ Threads /\ Entries /\ Orders /\ NoGap

LEMMA EntryTypes ==
    ASSUME LogTypeOK
    PROVE  /\ \A x : Has(pending, x) => x \in Lines
           /\ \A s \in Service : \A x : Has(ring[s], x) => x \in Lines
BY DEF LogTypeOK, Has

(* The thread that is started next is a new one.                           *)
LEMMA NewestIsNew ==
    ASSUME LogTypeOK, Threads, NEW c \in Container, Newest(c) <= MaxThreads
    PROVE  /\ Newest(c) \in 1 .. MaxThreads /\ thread[c][Newest(c)] = "none"
           /\ Used(c) = 1 .. Newest(c) - 1
<1>1. PICK k \in 0 .. MaxThreads : Used(c) = 1 .. k
  BY DEF Threads
<1>2. Cardinality(1 .. k) = k
  BY FS_Interval
<1>3. Newest(c) = k + 1
  BY <1>1, <1>2 DEF Newest, Used
<1>4. k + 1 \in 1 .. MaxThreads /\ k + 1 \notin 1 .. k /\ (k + 1) - 1 = k
  BY <1>3, LogAssumption
<1>5. thread[c][k + 1] = "none"
  BY <1>1, <1>4 DEF Used
<1> QED BY <1>1, <1>3, <1>4, <1>5

LEMMA LogTypeStep == LogTypeOK /\ Threads /\ LogMove => LogTypeOK'
<1> USE LogAssumption
<1> SUFFICES ASSUME LogTypeOK, Threads, LogMove PROVE LogTypeOK'
  OBVIOUS
<1>1. CASE UNCHANGED logVars \/ LogStop \/ LogRun
           \/ (logTask' = "new" /\ UNCHANGED <<dockerVars, client, seen, table, thread, next, pending, ring>>)
  BY <1>1 DEF logVars, dockerVars, LogStop, LogRun, LogTypeOK
<1>2. CASE MapContainers
  BY <1>2 DEF MapContainers, dockerVars, LogTypeOK
<1>3. CASE ManageThreads
  <2>1. \A c \in Container : c \in Lacking => Newest(c) \in 1 .. MaxThreads
    BY <1>3, NewestIsNew DEF ManageThreads, Lacking, LogTypeOK
  <2>2. table' \in [Container -> 0 .. MaxThreads]
    BY <1>3, <2>1 DEF ManageThreads, LogTypeOK
  <2>3. thread' \in [Container -> [1 .. MaxThreads -> {"none", "new", "following", "over"}]]
    BY <1>3 DEF ManageThreads, LogTypeOK
  <2> QED BY <1>3, <2>2, <2>3 DEF ManageThreads, dockerVars, LogTypeOK
<1>4. CASE Drain
  <2>1. Batch \in Seq(Lines) /\ Rest \in Seq(Lines)
    BY SubSeqProperties DEF Batch, Rest, LogTypeOK
  <2>2. ASSUME NEW s \in Service PROVE Keep(Batch, s) \in Seq(Lines)
    BY <2>1, EntriesOfFacts DEF Keep, LogTypeOK
  <2> QED BY <1>4, <2>1, <2>2 DEF Drain, dockerVars, LogTypeOK
<1>5. CASE LogInput
  <2>1. CASE SecondEnds
    BY <2>1 DEF SecondEnds, LogTypeOK
  <2>2. ASSUME NEW c \in Container, ContainerStarts(c) \/ ContainerStops(c) PROVE LogTypeOK'
    BY <2>2 DEF ContainerStarts, ContainerStops, LogTypeOK
  <2>3. ASSUME NEW c \in Container, Prints(c) PROVE LogTypeOK'
    BY <2>3 DEF Prints, LogTypeOK
  <2> QED BY <1>5, <2>1, <2>2, <2>3 DEF LogInput
<1>6. ASSUME NEW c \in Container, NEW g \in 1 .. MaxThreads, Attach(c, g) \/ StreamEnds(c, g) PROVE LogTypeOK'
  <2>1. PICK p \in {"following", "over"} : thread' = [thread EXCEPT ![c][g] = p]
    BY <1>6 DEF Attach, StreamEnds
  <2>2. thread' \in [Container -> [1 .. MaxThreads -> {"none", "new", "following", "over"}]]
    BY <2>1 DEF LogTypeOK
  <2>3. next' \in [Container -> [1 .. MaxThreads -> Nat]]
    <3>1. second[c] + 1 \in Nat
      BY DEF LogTypeOK
    <3>2. next' = next \/ next' = [next EXCEPT ![c][g] = second[c] + 1]
      BY <1>6 DEF Attach, StreamEnds
    <3>3. CASE next' = [next EXCEPT ![c][g] = second[c] + 1]
      BY <3>1, <3>3 DEF LogTypeOK
    <3> QED BY <3>2, <3>3 DEF LogTypeOK
  <2>4. UNCHANGED <<dockerVars, seen, table, pending, ring>>
    BY <1>6 DEF Attach, StreamEnds
  <2> QED BY <2>2, <2>3, <2>4 DEF dockerVars, LogTypeOK
<1>7. ASSUME NEW c \in Container, NEW g \in 1 .. MaxThreads, ReadLine(c, g) PROVE LogTypeOK'
  <2>1. Entry(c, g) \in Lines
    BY DEF Entry, Lines, LogTypeOK
  <2> QED BY <1>7, <2>1, SMTT(20) DEF ReadLine, dockerVars, LogTypeOK
<1> QED BY <1>1, <1>2, <1>3, <1>4, <1>5, <1>6, <1>7 DEF LogMove, LogStep

LEMMA ThreadsStep == LogTypeOK /\ Threads /\ LogMove => Threads'
<1> SUFFICES ASSUME LogTypeOK, Threads, LogMove PROVE Threads'
  OBVIOUS
<1>1. \A c \in Container : thread'[c] = thread[c] => Used(c)' = Used(c)
  BY DEF Used
<1>2. CASE UNCHANGED <<seen, thread>>
  BY <1>1, <1>2 DEF Threads
<1>3. CASE MapContainers
  <2>1. \A c \in seen' : Claims(c) # {}
    BY <1>3 DEF MapContainers
  <2> QED BY <1>1, <1>3, <2>1 DEF MapContainers, Threads
<1>4. CASE ManageThreads
  <2>1. ASSUME NEW c \in Container PROVE \E k \in 0 .. MaxThreads : Used(c)' = 1 .. k /\ (k # 0 => Claims(c) # {})
    <3>1. CASE c \in Lacking
      <4>1. /\ Newest(c) \in 1 .. MaxThreads /\ Used(c) = 1 .. Newest(c) - 1
            /\ thread'[c] = [thread[c] EXCEPT ![Newest(c)] = "new"]
        BY <1>4, <3>1, NewestIsNew DEF ManageThreads
      <4>2. Used(c)' = 1 .. Newest(c)
        <5>1. \A g \in 1 .. MaxThreads : thread'[c][g] = IF g = Newest(c) THEN "new" ELSE thread[c][g]
          BY <4>1 DEF LogTypeOK
        <5>2. \A g \in 1 .. MaxThreads : thread'[c][g] # "none" <=> g = Newest(c) \/ g \in 1 .. Newest(c) - 1
          BY <4>1, <5>1 DEF Used
        <5>3. Used(c)' \subseteq 1 .. MaxThreads /\ 1 .. Newest(c) \subseteq 1 .. MaxThreads
          BY <4>1, LogAssumption DEF Used
        <5>4. \A g \in 1 .. MaxThreads : g \in Used(c)' <=> g \in 1 .. Newest(c)
          BY <4>1, <5>2, LogAssumption DEF Used
        <5> HIDE DEF Newest
        <5> QED BY <5>3, <5>4
      <4>3. Claims(c) # {}
        BY <3>1 DEF Lacking, Threads
      <4> QED BY <4>1, <4>2, <4>3
    <3>2. CASE c \notin Lacking
      BY <1>1, <1>4, <3>2 DEF ManageThreads, Threads
    <3> QED BY <3>1, <3>2
  <2> QED BY <1>4, <2>1 DEF ManageThreads, Threads
<1>5. ASSUME NEW c \in Container, NEW g \in 1 .. MaxThreads, Attach(c, g) \/ StreamEnds(c, g) PROVE Threads'
  <2>1. /\ thread[c][g] # "none" /\ UNCHANGED seen
        /\ \E p \in {"following", "over"} : thread' = [thread EXCEPT ![c][g] = p]
    BY <1>5 DEF Attach, StreamEnds
  <2>2. \A d \in Container : Used(d)' = Used(d)
    BY <2>1 DEF Used, LogTypeOK
  <2> QED BY <2>1, <2>2 DEF Threads
<1>6. CASE LogInput
  BY <1>2, <1>6 DEF LogInput, SecondEnds, ContainerStarts, ContainerStops, Prints
<1>7. CASE LogRun \/ Drain \/ LogStop
  BY <1>2, <1>7 DEF LogRun, Drain, LogStop
<1>8. ASSUME NEW c \in Container, NEW g \in 1 .. MaxThreads, ReadLine(c, g) PROVE Threads'
  BY <1>2, <1>8 DEF ReadLine
<1> QED BY <1>2, <1>3, <1>4, <1>5, <1>6, <1>7, <1>8 DEF LogMove, LogStep, logVars

(* Steps that neither read nor move entries.                               *)
LEMMA EntriesKept ==
    ASSUME LogTypeOK, Entries, Orders, NoGap, UNCHANGED <<pending, ring>>,
           \A x \in Lines : IsRead(x) => IsRead(x)' /\ next'[x.from][x.by] = next[x.from][x.by]
    PROVE  Entries' /\ Orders' /\ NoGap'
<1>1. \A s \in Service : \A x : Stands(s, x) => x \in Lines /\ IsRead(x)
  BY EntryTypes DEF Stands, Entries
<1>2. Entries'
  BY EntryTypes DEF Entries
<1>3. Orders'
  BY DEF Orders, InOrder
<1>4. NoGap'
  <2>1. \A s, x : Stands(s, x)' <=> Stands(s, x)
    BY DEF Stands
  <2> QED BY <1>1, <2>1 DEF NoGap
<1> QED BY <1>2, <1>3, <1>4

(* What a read adds is the newest entry of its thread.                     *)
LEMMA ReadKeeps ==
    ASSUME LogTypeOK, Entries, Orders, NoGap, NEW c \in Container, NEW g \in 1 .. MaxThreads, ReadLine(c, g)
    PROVE  Entries' /\ Orders' /\ NoGap'
<1>0. /\ Entry(c, g) \in Lines /\ Entry(c, g) = [from |-> c, by |-> g, line |-> next[c][g]]
      /\ next[c][g] \in Nat
  BY DEF Entry, Lines, LogTypeOK
<1>1. PICK e \in Lines : /\ e = Entry(c, g) /\ e = [from |-> c, by |-> g, line |-> next[c][g]]
                        /\ e.from = c /\ e.by = g /\ e.line = next[c][g] /\ next[c][g] \in Nat
  BY <1>0
<1>2. /\ pending' = Append(pending, e) /\ UNCHANGED <<ring, thread>> /\ thread[c][g] = "following"
      /\ next' = [next EXCEPT ![c][g] = @ + 1]
  BY <1>1 DEF ReadLine
<1>3. /\ \A x : Has(pending', x) <=> Has(pending, x) \/ x = e
      /\ \A x, y : Before(pending', x, y) <=> Before(pending, x, y) \/ (Has(pending, x) /\ y = e)
  BY <1>1, <1>2, AppendHas DEF LogTypeOK
<1>4. \A x \in Lines : next'[x.from][x.by] = IF x.from = c /\ x.by = g THEN next[c][g] + 1 ELSE next[x.from][x.by]
  BY <1>2 DEF LogTypeOK, Lines
<1>5. \A x \in Lines : IsRead(x) => IsRead(x)'
  BY <1>1, <1>2, <1>4 DEF IsRead, Lines
<1>6. IsRead(e)'
  BY <1>1, <1>2, <1>4 DEF IsRead
<1>7. Entries'
  BY <1>2, <1>3, <1>5, <1>6, EntryTypes DEF Entries
<1>8. \A x : IsRead(x) /\ Same(x, e) => x.line < e.line
  BY <1>1 DEF IsRead, Same
<1>9. Orders'
  BY <1>2, <1>3, <1>8 DEF Orders, InOrder, Entries
<1>10. ASSUME NEW s \in Service, NEW x, Stands(s, x)', NEW n \in x.line .. next'[x.from][x.by] - 1
       PROVE  Stands(s, WithLine(x, n))'
  <2>1. \A y : Stands(s, y)' <=> Stands(s, y) \/ (y = e /\ ServiceOf(c) = s)
    BY <1>1, <1>2, <1>3 DEF Stands
  <2>2. x \in Lines
    BY <1>1, <1>10, <2>1, EntryTypes DEF Stands
  <2>3. CASE x.from = c /\ x.by = g /\ n = next[c][g]
    <3>1. WithLine(x, n) = e
      BY <1>1, <2>3 DEF WithLine
    <3>2. ServiceOf(c) = s
      BY <1>1, <1>10, <2>1, <2>3 DEF Stands, Entries
    <3> QED BY <2>1, <3>1, <3>2
  <2>4. CASE ~(x.from = c /\ x.by = g /\ n = next[c][g])
    <3>1. n \in x.line .. next[x.from][x.by] - 1
      BY <1>1, <1>4, <1>10, <2>2, <2>4 DEF LogTypeOK, Lines
    <3>2. x # e
      BY <1>1, <3>1, <2>2 DEF Lines
    <3> QED BY <1>10, <2>1, <3>1, <3>2 DEF NoGap
  <2> QED BY <2>3, <2>4
<1> QED BY <1>7, <1>9, <1>10 DEF NoGap

(* A batch of the queue is appended to the rings, the fronts of which are  *)
(* cut off.                                                                *)
LEMMA QueueParts ==
    ASSUME LogTypeOK
    PROVE  Batch \in Seq(Lines) /\ Rest \in Seq(Lines) /\ pending = Batch \o Rest
<1> DEFINE n == Len(pending)
           k == IF n > BatchSize THEN BatchSize ELSE n
<1>1. pending \in Seq(Lines) /\ n \in Nat /\ k \in 0 .. n /\ BatchSize \in Nat
  BY LogAssumption DEF LogTypeOK
<1>2. Batch = SubSeq(pending, 1, k)
  BY DEF Batch
<1>3. Rest = SubSeq(pending, k + 1, n)
  <2>1. CASE n > BatchSize
    BY <2>1 DEF Rest
  <2>2. CASE ~(n > BatchSize)
    <3>1. n < BatchSize + 1 /\ n < k + 1
      BY <1>1, <2>2
    <3>2. SubSeq(pending, BatchSize + 1, n) = <<>> /\ SubSeq(pending, k + 1, n) = <<>>
      <4> HIDE DEF n, k
      <4> QED BY <1>1, <3>1, SubSeqEmpty
    <3> QED BY <3>2 DEF Rest
  <2> QED BY <2>1, <2>2
<1>4. Batch \o Rest = SubSeq(pending, 1, n)
  <2> HIDE DEF n, k
  <2>1. 1 \in 1 .. n + 1 /\ k \in 1 - 1 .. n /\ n \in k .. n
    BY <1>1
  <2> QED BY <1>1, <1>2, <1>3, <2>1, ConcatAdjacentSubSeq DEF n
<1>5. SubSeq(pending, 1, n) = pending
  BY <1>1, SubSeqFull
<1>6. Batch \in Seq(Lines) /\ Rest \in Seq(Lines)
  BY LogAssumption, SubSeqProperties DEF Batch, Rest, LogTypeOK
<1> QED BY <1>4, <1>5, <1>6

LEMMA RingParts ==
    ASSUME LogTypeOK, NEW s \in Service, NEW l \in Seq(Lines)
    PROVE  /\ Keep(l, s) \in Seq(Lines)
           /\ \E cut \in Seq(Lines) : cut \o Keep(l, s) = ring[s] \o EntriesOf(l, s)
<1> DEFINE all == ring[s] \o EntriesOf(l, s)
           n == Len(all)
           m == IF n > BufferSize THEN n - BufferSize + 1 ELSE 1
           cut == SubSeq(all, 1, m - 1)
<1>1. all \in Seq(Lines)
  BY EntriesOfFacts DEF LogTypeOK
<1>2. Keep(l, s) = SubSeq(all, m, n)
  BY DEF Keep
<1> HIDE DEF all
<1>3. n \in Nat /\ m \in 1 .. n + 1 /\ m - 1 \in 0 .. n /\ (m - 1) + 1 = m
  BY <1>1, LogAssumption
<1> HIDE DEF n, m
<1>4. cut \o SubSeq(all, (m - 1) + 1, n) = SubSeq(all, 1, n)
  <2>1. 1 \in 1 .. n + 1 /\ m - 1 \in 1 - 1 .. n /\ n \in m - 1 .. n
    BY <1>3
  <2> QED BY <1>1, <1>3, <2>1, ConcatAdjacentSubSeq DEF n
<1>5. SubSeq(all, 1, n) = all
  BY <1>1, SubSeqFull DEF n
<1>6. cut \in Seq(Lines) /\ Keep(l, s) \in Seq(Lines)
  <2>1. \A i \in 1 .. n : all[i] \in Lines
    BY <1>1 DEF n
  <2>2. (\A i \in 1 .. m - 1 : all[i] \in Lines) /\ (\A i \in m .. n : all[i] \in Lines)
    BY <1>3, <2>1
  <2>3. 1 \in Int /\ m - 1 \in Int /\ m \in Int /\ n \in Int
    BY <1>3
  <2> QED BY <1>2, <2>2, <2>3, SubSeqProperties
<1>7. cut \o Keep(l, s) = all
  BY <1>2, <1>3, <1>4, <1>5
<1> QED BY <1>6, <1>7 DEF all

LEMMA DrainKeeps ==
    ASSUME LogTypeOK, Entries, Orders, NoGap, Drain
    PROVE  Entries' /\ Orders' /\ NoGap'
<1>1. PICK batch \in Seq(Lines), rest \in Seq(Lines) : Batch = batch /\ Rest = rest /\ pending = batch \o rest
  BY QueueParts
<1>2. /\ pending' = rest /\ UNCHANGED <<thread, next>>
      /\ \A s \in Service : ring'[s] = Keep(batch, s)
  BY <1>1 DEF Drain
<1>3. /\ \A x : Has(pending, x) <=> Has(batch, x) \/ Has(rest, x)
      /\ \A x, y : Before(pending, x, y) <=> Before(batch, x, y) \/ Before(rest, x, y) \/ (Has(batch, x) /\ Has(rest, y))
  BY <1>1, ConcatHas
<1>4. ASSUME NEW s \in Service
      PROVE  \E cut :
               /\ \A x : Has(cut, x) \/ Has(ring'[s], x) <=> Has(ring[s], x) \/ (Has(batch, x) /\ ServiceOf(x.from) = s)
               /\ \A x, y : Before(ring'[s], x, y) \/ (Has(cut, x) /\ Has(ring'[s], y)) =>
                     Before(ring[s], x, y) \/ Before(batch, x, y) \/ (Has(ring[s], x) /\ Has(batch, y))
  <2>1. /\ EntriesOf(batch, s) \in Seq(Lines)
        /\ \A x : Has(EntriesOf(batch, s), x) <=> Has(batch, x) /\ ServiceOf(x.from) = s
        /\ \A x, y : Before(EntriesOf(batch, s), x, y) => Before(batch, x, y)
    BY EntriesOfFacts
  <2>2. PICK cut \in Seq(Lines) : cut \o ring'[s] = ring[s] \o EntriesOf(batch, s)
    BY <1>2, RingParts
  <2>3. ring'[s] \in Seq(Lines) /\ ring[s] \in Seq(Lines)
    BY <1>2, RingParts DEF LogTypeOK
  <2>4. /\ \A x : Has(cut \o ring'[s], x) <=> Has(cut, x) \/ Has(ring'[s], x)
        /\ \A x, y : Before(cut \o ring'[s], x, y) <=> Before(cut, x, y) \/ Before(ring'[s], x, y) \/ (Has(cut, x) /\ Has(ring'[s], y))
    BY <2>3, ConcatHas
  <2>5. LET all == ring[s] \o EntriesOf(batch, s)
        IN  /\ \A x : Has(all, x) <=> Has(ring[s], x) \/ Has(EntriesOf(batch, s), x)
            /\ \A x, y : Before(all, x, y) <=> \/ Before(ring[s], x, y) \/ Before(EntriesOf(batch, s), x, y)
                                               \/ (Has(ring[s], x) /\ Has(EntriesOf(batch, s), y))
    BY <2>1, <2>3, ConcatHas
  <2>6. \A x : Has(cut, x) \/ Has(ring'[s], x) <=> Has(ring[s], x) \/ (Has(batch, x) /\ ServiceOf(x.from) = s)
    BY <2>1, <2>2, <2>4, <2>5
  <2>7. \A x, y : Before(ring'[s], x, y) \/ (Has(cut, x) /\ Has(ring'[s], y)) =>
                     Before(ring[s], x, y) \/ Before(batch, x, y) \/ (Has(ring[s], x) /\ Has(batch, y))
    BY <2>1, <2>2, <2>4, <2>5
  <2> QED BY <2>6, <2>7
<1>5. \A s \in Service : \A x : Has(ring'[s], x) => Has(ring[s], x) \/ (Has(batch, x) /\ ServiceOf(x.from) = s)
  BY <1>4
<1>6. Entries'
  <2>1. \A x : IsRead(x)' <=> IsRead(x)
    BY <1>2 DEF IsRead
  <2>2. \A s \in Service : \A x : Has(ring'[s], x) => ServiceOf(x.from) = s /\ IsRead(x)
    BY <1>3, <1>5 DEF Entries
  <2>3. \A x : Has(pending', x) => IsRead(x)
    BY <1>2, <1>3 DEF Entries
  <2> QED BY <2>1, <2>2, <2>3 DEF Entries
<1>7. Orders'
  <2>1. InOrder(pending')
    BY <1>2, <1>3 DEF Orders, InOrder
  <2>2. ASSUME NEW s \in Service PROVE InOrder(ring'[s])
    BY <1>3, <1>4 DEF Orders, InOrder
  <2>3. ASSUME NEW s \in Service, NEW x, NEW y, Has(ring'[s], x), Has(rest, y), Same(x, y) PROVE x.line < y.line
    BY <1>3, <1>5, <2>3 DEF Orders, InOrder
  <2>4. \A s \in Service : InOrder(ring'[s]) /\ \A x, y : Has(ring'[s], x) /\ Has(pending', y) /\ Same(x, y) => x.line < y.line
    BY <1>2, <2>2, <2>3
  <2> QED BY <2>1, <2>4 DEF Orders, InOrder
<1>8. ASSUME NEW s \in Service, NEW x, Stands(s, x)', NEW n \in x.line .. next'[x.from][x.by] - 1
      PROVE  Stands(s, WithLine(x, n))'
  <2> DEFINE w == WithLine(x, n)
  <2>1. \A y : Stands(s, y)' <=> Has(ring'[s], y) \/ (Has(rest, y) /\ ServiceOf(y.from) = s)
    BY <1>2 DEF Stands
  <2>2. Stands(s, x) /\ x \in Lines
    BY <1>3, <1>5, <1>8, <2>1, EntryTypes DEF Stands
  <2>3. Stands(s, w)
    BY <1>2, <1>8, <2>2 DEF NoGap
  <2>4. w.from = x.from /\ w.by = x.by /\ w.line = n /\ n >= x.line /\ (n = x.line => w = x) /\ Same(w, x)
    BY <1>8, <2>2 DEF WithLine, Lines, Same
  <2> HIDE DEF w
  <2>5. CASE n = x.line
    BY <1>8, <2>4, <2>5 DEF w
  <2>6. CASE n # x.line
    <3>1. ~ (w.line < x.line)
      BY <1>8, <2>2, <2>4 DEF Lines
    <3>2. PICK cut :
               /\ \A y : Has(cut, y) \/ Has(ring'[s], y) <=> Has(ring[s], y) \/ (Has(batch, y) /\ ServiceOf(y.from) = s)
               /\ \A y, z : Before(ring'[s], y, z) \/ (Has(cut, y) /\ Has(ring'[s], z)) =>
                     Before(ring[s], y, z) \/ Before(batch, y, z) \/ (Has(ring[s], y) /\ Has(batch, z))
      BY <1>4
    <3>3. CASE Has(rest, w) /\ ServiceOf(w.from) = s
      BY <2>1, <3>3 DEF w
    <3>4. CASE Has(ring'[s], w)
      BY <2>1, <3>4 DEF w
    <3>5. CASE Has(cut, w)
      <4>1. CASE Has(ring'[s], x)
        BY <1>3, <2>4, <3>1, <3>2, <3>5, <4>1 DEF Orders, InOrder
      <4>2. CASE Has(rest, x)
        <5>1. Has(ring[s], w) \/ Has(batch, w)
          BY <3>2, <3>5
        <5> QED BY <1>3, <2>4, <3>1, <4>2, <5>1 DEF Orders, InOrder
      <4> QED BY <1>8, <2>1, <4>1, <4>2
    <3>6. Has(ring[s], w) \/ (Has(batch, w) /\ ServiceOf(w.from) = s) \/ (Has(rest, w) /\ ServiceOf(w.from) = s)
      BY <1>3, <2>3 DEF Stands
    <3> QED BY <3>2, <3>3, <3>4, <3>5, <3>6
  <2> QED BY <2>5, <2>6
<1> QED BY <1>6, <1>7, <1>8 DEF NoGap

LEMMA LogStepKeeps ==
    ASSUME LogIInv, LogMove
    PROVE  Entries' /\ Orders' /\ NoGap'
<1>0. LogTypeOK /\ Threads /\ Entries /\ Orders /\ NoGap
  BY DEF LogIInv
<1>1. CASE UNCHANGED <<thread, next, pending, ring>>
  BY <1>0, <1>1, EntriesKept DEF IsRead
<1>2. CASE ManageThreads
  <2>1. ASSUME NEW x \in Lines, IsRead(x) PROVE thread'[x.from][x.by] = thread[x.from][x.by]
    <3>1. x.from \in Container /\ x.by \in 1 .. MaxThreads
      BY DEF Lines
    <3>2. CASE x.from \in Lacking
      <4>1. thread[x.from][Newest(x.from)] = "none"
        BY <1>0, <1>2, <3>1, <3>2, NewestIsNew DEF ManageThreads
      <4>2. thread'[x.from] = [thread[x.from] EXCEPT ![Newest(x.from)] = "new"]
        BY <1>2, <3>1, <3>2 DEF ManageThreads
      <4>3. x.by # Newest(x.from)
        BY <2>1, <4>1 DEF IsRead
      <4>4. thread[x.from] \in [1 .. MaxThreads -> {"none", "new", "following", "over"}]
        BY <1>0, <3>1 DEF LogTypeOK
      <4> HIDE DEF Newest
      <4> QED BY <3>1, <4>2, <4>3, <4>4
    <3>3. CASE x.from \notin Lacking
      BY <1>2, <3>1, <3>3 DEF ManageThreads
    <3> QED BY <3>2, <3>3
  <2>2. UNCHANGED <<next, pending, ring>>
    BY <1>2 DEF ManageThreads
  <2>3. \A x \in Lines : IsRead(x) => IsRead(x)' /\ next'[x.from][x.by] = next[x.from][x.by]
    BY <2>1, <2>2 DEF IsRead
  <2> QED BY <1>0, <2>2, <2>3, EntriesKept
<1>3. CASE Drain
  BY <1>0, <1>3, DrainKeeps
<1>4. ASSUME NEW c \in Container, NEW g \in 1 .. MaxThreads, ReadLine(c, g) PROVE Entries' /\ Orders' /\ NoGap'
  BY <1>0, <1>4, ReadKeeps
<1>5. ASSUME NEW c \in Container, NEW g \in 1 .. MaxThreads, Attach(c, g) \/ StreamEnds(c, g)
      PROVE  Entries' /\ Orders' /\ NoGap'
  <2>1. PICK p \in {"following", "over"} : thread' = [thread EXCEPT ![c][g] = p]
    BY <1>5 DEF Attach, StreamEnds
  <2>2. UNCHANGED <<pending, ring>> /\ (thread[c][g] = "new" \/ next' = next)
    BY <1>5 DEF Attach, StreamEnds
  <2>3. next' = next \/ next' = [next EXCEPT ![c][g] = second[c] + 1]
    BY <1>5 DEF Attach, StreamEnds
  <2>4. ASSUME NEW x \in Lines, IsRead(x) PROVE IsRead(x)' /\ next'[x.from][x.by] = next[x.from][x.by]
    <3>1. x.from \in Container /\ x.by \in 1 .. MaxThreads
      BY DEF Lines
    <3>2. thread'[x.from][x.by] \in {"following", "over"}
      BY <1>0, <2>1, <2>4, <3>1 DEF IsRead, LogTypeOK
    <3>3. next'[x.from][x.by] = next[x.from][x.by]
      <4>1. CASE x.from = c /\ x.by = g
        BY <2>2, <2>4, <4>1 DEF IsRead
      <4>2. CASE ~(x.from = c /\ x.by = g)
        <5>1. CASE next' = [next EXCEPT ![c][g] = second[c] + 1]
          BY <1>0, <3>1, <4>2, <5>1 DEF LogTypeOK
        <5> QED BY <2>3, <5>1
      <4> QED BY <4>1, <4>2
    <3> QED BY <2>4, <3>2, <3>3 DEF IsRead
  <2> QED BY <1>0, <2>2, <2>4, EntriesKept
<1>6. CASE LogInput
  BY <1>1, <1>6 DEF LogInput, SecondEnds, ContainerStarts, ContainerStops, Prints
<1>7. CASE LogRun \/ MapContainers \/ LogStop \/ UNCHANGED logVars
  BY <1>1, <1>7 DEF LogRun, MapContainers, LogStop, logVars
<1> QED BY <1>1, <1>2, <1>3, <1>4, <1>5, <1>6, <1>7 DEF LogMove, LogStep

LEMMA LogIInvStep == LogIInv /\ LogMove => LogIInv'
BY LogTypeStep, ThreadsStep, LogStepKeeps DEF LogIInv

(* The invariant is what the property says of the positions of entries.    *)
LEMMA InvariantIsOrder ==
    ASSUME LogIInv, \A s \in Service, c \in Container : Matches(s, c) => Front(NameOf[c]) = Prefix(s)
    PROVE  LogsInOrder
<1> SUFFICES ASSUME NEW s \in Service, NEW c \in Container, NEW g \in 1 .. MaxThreads
             PROVE  LET all == ring[s] \o EntriesOf(pending, s)
                        own == {i \in DOMAIN all : all[i].from = c /\ all[i].by = g}
                    IN
                    /\ \A i, j \in own : i < j => all[i].line < all[j].line
                    /\ \A i \in own :
                         /\ all[i].line < next[c][g]
                         /\ \A n \in all[i].line .. next[c][g] - 1 : \E j \in own : all[j].line = n
                    /\ own # {} => Front(NameOf[c]) = Prefix(s)
  BY DEF LogsInOrder
<1> DEFINE all == ring[s] \o EntriesOf(pending, s)
           own == {i \in DOMAIN all : all[i].from = c /\ all[i].by = g}
<1>0. LogTypeOK /\ Threads /\ Entries /\ Orders /\ NoGap
  BY DEF LogIInv
<1>1. /\ EntriesOf(pending, s) \in Seq(Lines) /\ ring[s] \in Seq(Lines)
      /\ \A x : Has(EntriesOf(pending, s), x) <=> Has(pending, x) /\ ServiceOf(x.from) = s
      /\ \A x, y : Before(EntriesOf(pending, s), x, y) => Before(pending, x, y)
  BY <1>0, EntriesOfFacts DEF LogTypeOK
<1>2. /\ all \in Seq(Lines)
      /\ \A x : Has(all, x) <=> Stands(s, x)
      /\ \A x, y : Before(all, x, y) => Before(ring[s], x, y) \/ Before(pending, x, y) \/ (Has(ring[s], x) /\ Has(pending, y))
  <2>1. /\ all \in Seq(Lines)
        /\ \A x : Has(all, x) <=> Has(ring[s], x) \/ Has(EntriesOf(pending, s), x)
        /\ \A x, y : Before(all, x, y) <=> \/ Before(ring[s], x, y) \/ Before(EntriesOf(pending, s), x, y)
                                           \/ (Has(ring[s], x) /\ Has(EntriesOf(pending, s), y))
    BY <1>1, ConcatHas
  <2> QED BY <1>1, <2>1 DEF Stands
<1> HIDE DEF all
<1>3. \A i \in own : i \in DOMAIN all /\ Has(all, all[i]) /\ all[i] \in Lines /\ all[i].from = c /\ all[i].by = g
  BY <1>2 DEF Has
<1>4. \A j \in DOMAIN all : all[j].from = c /\ all[j].by = g => j \in own
  OBVIOUS
<1> HIDE DEF own
<1>5. ASSUME NEW i \in own, NEW j \in own, i < j PROVE all[i].line < all[j].line
  <2>1. Before(all, all[i], all[j]) /\ Same(all[i], all[j])
    BY <1>3, <1>5 DEF Before, Same
  <2> QED BY <1>0, <1>2, <2>1 DEF Orders, InOrder
<1>6. ASSUME NEW i \in own PROVE IsRead(all[i]) /\ ServiceOf(c) = s
  BY <1>0, <1>2, <1>3 DEF Stands, Entries
<1>7. ASSUME NEW i \in own, NEW n \in all[i].line .. next[c][g] - 1 PROVE \E j \in own : all[j].line = n
  <2>1. Stands(s, WithLine(all[i], n))
    BY <1>0, <1>2, <1>3 DEF NoGap
  <2>2. PICK j \in DOMAIN all : all[j] = WithLine(all[i], n)
    BY <1>2, <2>1 DEF Has
  <2> QED BY <1>3, <1>4, <2>2 DEF WithLine
<1>8. ASSUME NEW i \in own PROVE Front(NameOf[c]) = Prefix(s)
  <2>1. thread[c][g] # "none" /\ ServiceOf(c) = s
    BY <1>3, <1>6 DEF IsRead
  <2>2. g \in Used(c)
    BY <2>1 DEF Used
  <2>3. Claims(c) # {}
    BY <1>0, <2>2 DEF Threads
  <2> QED BY <2>1, <2>3, ServiceClaims
<1> QED BY <1>3, <1>5, <1>6, <1>7, <1>8 DEF IsRead, all, own

-----------------------------------------------------------------------------
(* The life of the server                                                  *)

(* What the shutdown has done by each of its stages.                       *)
Ending ==
    /\ stage \in {"proxy", "tasks", "conductors", "terminals", "down"} => vite # "running"
    /\ stage \in {"conductors", "terminals", "down"} => tasks \subseteq stubborn
    /\ stage = "conductors" => conductors \subseteq unstopped \cup toStop
    /\ stage \in {"terminals", "down"} =>
         /\ conductors \subseteq unstopped
         /\ logTask \in {"leaving", "stopped"} /\ ~client
         /\ watchers = {}
    /\ stage = "down" => sessions = {}

LifeIInv == TermIInv /\ LogIInv /\ Ending

LEMMA LifeMoves == [LifeNext]_serverVars => TermMove
<1> SUFFICES ASSUME [LifeNext]_serverVars PROVE TermMove
  OBVIOUS
<1>1. CASE UNCHANGED serverVars \/ Configure \/ StartFails \/ StartParts \/ ViteStarts \/ ViteExits \/ Shutdown \/ StopVite
           \/ CloseProxy \/ StopAll \/ StopMonitoring \/ Ended
  BY <1>1 DEF serverVars, Configure, StartFails, StartParts, ViteStarts, ViteExits, Shutdown, StopVite,
              CloseProxy, StopAll, StopMonitoring, Ended, TermMove
<1>2. CASE Input
  BY <1>2 DEF Input, ConductorRequested, TermMove
<1>3. CASE TermStep \/ UNCHANGED termVars
  BY <1>3 DEF TermMove
<1>4. ASSUME NEW b \in Branch, ConductorEnters(b) \/ StopConductor(b) PROVE TermMove
  BY <1>4 DEF ConductorEnters, StopConductor, TermMove
<1>5. ASSUME NEW s \in Terminal, CleanUp(s) \/ CleanedUp(s) PROVE TermMove
  BY <1>5 DEF CleanUp, CleanedUp, TermMove, TermInput
<1> QED BY <1>1, <1>2, <1>3, <1>4, <1>5 DEF LifeNext

LEMMA LifeLogs == [LifeNext]_serverVars => LogMove
<1> SUFFICES ASSUME [LifeNext]_serverVars PROVE LogMove
  OBVIOUS
<1>1. CASE UNCHANGED serverVars \/ Configure \/ StartFails \/ ViteStarts \/ ViteExits \/ Shutdown \/ StopVite
           \/ CloseProxy \/ StopAll \/ Ended
  BY <1>1 DEF serverVars, Configure, StartFails, ViteStarts, ViteExits, Shutdown, StopVite,
              CloseProxy, StopAll, Ended, LogMove
<1>2. CASE StartParts
  BY <1>2 DEF StartParts, LogMove
<1>3. CASE StopMonitoring
  BY <1>3 DEF StopMonitoring, LogMove
<1>4. CASE Input
  BY <1>4 DEF Input, ConductorRequested, LogMove
<1>5. CASE LogStep \/ UNCHANGED logVars
  BY <1>5 DEF LogMove
<1>6. ASSUME NEW b \in Branch, ConductorEnters(b) \/ StopConductor(b) PROVE LogMove
  BY <1>6 DEF ConductorEnters, StopConductor, LogMove
<1>7. ASSUME NEW s \in Terminal, CleanUp(s) \/ CleanedUp(s) PROVE LogMove
  BY <1>7 DEF CleanUp, CleanedUp, LogMove
<1> QED BY <1>1, <1>2, <1>3, <1>4, <1>5, <1>6, <1>7 DEF LifeNext

LEMMA EndingStep == Ending /\ [LifeNext]_serverVars => Ending'
<1> SUFFICES ASSUME Ending, [LifeNext]_serverVars PROVE Ending'
  OBVIOUS
<1>1. CASE UNCHANGED serverVars
  BY <1>1 DEF serverVars, lifeVars, logVars, termVars, Ending
<1>2. CASE Configure \/ StartFails \/ StartParts \/ ViteStarts
  BY <1>2 DEF Configure, StartFails, StartParts, ViteStarts, Ending
<1>3. CASE ViteExits \/ Shutdown \/ StopVite \/ CloseProxy
  BY <1>3 DEF ViteExits, Shutdown, StopVite, CloseProxy, logVars, termVars, Ending
<1>4. CASE StopAll \/ StopMonitoring \/ Ended
  <2>1. CASE StopAll
    BY <2>1 DEF StopAll, logVars, termVars, Ending
  <2>2. CASE StopMonitoring
    BY <2>2 DEF StopMonitoring, LogStop, termVars, Ending
  <2>3. CASE Ended
    BY <2>3 DEF Ended, logVars, termVars, Ending
  <2> QED BY <1>4, <2>1, <2>2, <2>3
<1>5. CASE Input
  BY <1>5 DEF Input, Up, ConductorRequested, Ending
<1>6. CASE TermStep /\ UNCHANGED <<logVars, lifeVars>>
  <2>1. sessions' = sessions
    BY <1>6 DEF TermStep, Read, StrayRead, SendEnds, EndOfFile, Kill, Send, Close
  <2> QED BY <1>6, <2>1 DEF logVars, lifeVars, Ending
<1>7. CASE LogStep /\ UNCHANGED <<termVars, lifeVars>>
  <2>1. logTask \in {"leaving", "stopped"} /\ ~client => logTask' \in {"leaving", "stopped"} /\ ~client'
    BY <1>7 DEF LogStep, LogRun, MapContainers, ManageThreads, Drain, Attach, ReadLine, StreamEnds
  <2> QED BY <1>7, <2>1 DEF termVars, lifeVars, Ending
<1>8. ASSUME NEW b \in Branch, ConductorEnters(b) \/ StopConductor(b) PROVE Ending'
  BY <1>8 DEF ConductorEnters, StopConductor, logVars, termVars, Ending
<1>9. ASSUME NEW s \in Terminal, CleanUp(s) \/ CleanedUp(s) PROVE Ending'
  BY <1>9 DEF CleanUp, Destroy, CleanedUp, logVars, termVars, Ending
<1> QED BY <1>1, <1>2, <1>3, <1>4, <1>5, <1>6, <1>7, <1>8, <1>9 DEF LifeNext

(* The inductive invariant of the life of the server.                      *)
THEOREM LifeInvariant == LifeSpec => []LifeIInv
<1>1. LifeInit => LifeIInv
  <2> SUFFICES ASSUME LifeInit PROVE LifeIInv
    OBVIOUS
  <2>1. TermTypeOK
    BY TerminalsAssumption DEF LifeInit, TermInit, TermTypeOK, NoReader
  <2>2. Shared /\ \A s \in Terminal : Left(s)
    BY DEF LifeInit, TermInit, Shared, Sending, Left, NoReader
  <2>3. Ending
    BY DEF LifeInit, Ending
  <2>4. LogTypeOK
    BY LogAssumption DEF LifeInit, LogInit, LogTypeOK
  <2>5. Threads
    <3>1. \A c \in Container : Used(c) = 1 .. 0
      BY DEF LifeInit, LogInit, Used
    <3>2. 0 \in 0 .. MaxThreads /\ seen = {}
      BY LogAssumption DEF LifeInit, LogInit
    <3>3. \A c \in Container : \E k \in 0 .. MaxThreads : Used(c) = 1 .. k /\ (k # 0 => Claims(c) # {})
      BY <3>1, <3>2
    <3> QED BY <3>2, <3>3 DEF Threads
  <2>6. Entries /\ Orders /\ NoGap
    <3>1. (\A x : ~Has(<<>>, x)) /\ \A x, y : ~Before(<<>>, x, y)
      BY DEF Has, Before
    <3>2. pending = <<>> /\ \A s \in Service : ring[s] = <<>>
      BY DEF LifeInit, LogInit
    <3> QED BY <3>1, <3>2 DEF Entries, Orders, InOrder, NoGap, Stands
  <2> QED BY <2>1, <2>2, <2>3, <2>4, <2>5, <2>6 DEF LifeIInv, TermIInv, LogIInv
<1>2. LifeIInv /\ [LifeNext]_serverVars => LifeIInv'
  BY LifeMoves, LifeLogs, EndingStep, TermIInvStep, LogIInvStep DEF LifeIInv
<1> QED BY <1>1, <1>2, PTL DEF LifeSpec

(* Every variable of a terminal has its type (pty.py).                     *)
THEOREM TerminalsTyped == LifeSpec => []TermTypeOK
<1>1. LifeIInv => TermTypeOK
  BY DEF LifeIInv, TermIInv
<1> QED BY <1>1, LifeInvariant, PTL

(* Every variable of the log aggregator has its type (monitoring/logs.py). *)
THEOREM LogsTyped == LifeSpec => []LogTypeOK
<1>1. LifeIInv => LogTypeOK
  BY DEF LifeIInv, LogIInv
<1> QED BY <1>1, LifeInvariant, PTL

(* The lines a thread has read are there from the oldest that is kept to   *)
(* the newest, in order, for the service of their container, when the      *)
(* names are not ambiguous (container_map.py:102).                         *)
THEOREM LogsAreInOrder ==
    ASSUME \A s \in Service, c \in Container : Matches(s, c) => Front(NameOf[c]) = Prefix(s)
    PROVE  LifeSpec => []LogsInOrder
<1>1. LifeIInv => LogsInOrder
  BY InvariantIsOrder DEF LifeIInv
<1> QED BY <1>1, LifeInvariant, PTL

(* A shutdown that reaches its end leaves nothing running but what could   *)
(* not be stopped (server.py:213-255).                                     *)
THEOREM ShutdownIsComplete == LifeSpec => []NothingLeft
<1>1. LifeIInv => NothingLeft
  BY DEF LifeIInv, TermIInv, Left, Ending, NothingLeft
<1> QED BY <1>1, LifeInvariant, PTL

(* What agrees with a sequence from one place on is a part of it.          *)
LEMMA PartOf ==
    ASSUME NEW S, NEW all \in Seq(S), NEW own \in Seq(S), NEW from \in Nat,
           from + Len(own) <= Len(all), \A i \in 1 .. Len(own) : own[i] = all[from + i]
    PROVE  own = SubSeq(all, from + 1, from + Len(own))
<1> DEFINE n == from + Len(own)
           part == SubSeq(all, from + 1, n)
<1>1. Len(own) \in Nat /\ Len(all) \in Nat /\ n \in Nat
  OBVIOUS
<1>2. \A i \in from + 1 .. n : all[i] \in S
  BY <1>1
<1>3. part \in Seq(S) /\ Len(part) = Len(own) /\ \A i \in 1 .. Len(own) : part[i] = all[from + i]
  <2>1. \A i \in 1 .. n - (from + 1) + 1 : part[i] = all[from + 1 + i - 1]
    BY <1>1, <1>2, SubSeqProperties
  <2>2. part \in Seq(S) /\ Len(part) = IF from + 1 <= n THEN n - (from + 1) + 1 ELSE 0
    BY <1>1, <1>2, SubSeqProperties
  <2> QED BY <1>1, <2>1, <2>2
<1>4. own = part
  BY <1>3, SeqEqual
<1> QED BY <1>4

LEMMA AllButLastOf ==
    ASSUME NEW S, NEW all \in Seq(S), NEW own \in Seq(S), NEW from \in Nat,
           from + Len(own) = Len(all) - 1, \A i \in 1 .. Len(own) : own[i] = all[from + i]
    PROVE  /\ SubSeq(all, from + 1, Len(all)) # <<>>
           /\ own = SubSeq(SubSeq(all, from + 1, Len(all)), 1, Len(SubSeq(all, from + 1, Len(all))) - 1)
<1> DEFINE due == SubSeq(all, from + 1, Len(all))
<1>1. Len(own) \in Nat /\ Len(all) \in Nat
  OBVIOUS
<1>2. \A i \in from + 1 .. Len(all) : all[i] \in S
  OBVIOUS
<1>3. due \in Seq(S) /\ Len(due) = IF from + 1 <= Len(all) THEN Len(all) - (from + 1) + 1 ELSE 0
  BY <1>1, <1>2, SubSeqProperties
<1>4. Len(due) = Len(own) + 1
  BY <1>1, <1>3
<1>5. \A i \in 1 .. Len(all) - (from + 1) + 1 : due[i] = all[from + 1 + i - 1]
  BY <1>1, <1>2, SubSeqProperties
<1>6. \A i \in 1 .. Len(own) : own[i] = due[0 + i]
  <2>1. ASSUME NEW i \in 1 .. Len(own) PROVE due[i] = all[from + i]
    <3>1. i \in 1 .. Len(all) - (from + 1) + 1 /\ from + 1 + i - 1 = from + i /\ i \in Nat
      BY <1>1
    <3> QED BY <1>5, <3>1
  <2> QED BY <2>1
<1>7. 0 + Len(own) <= Len(due)
  BY <1>1, <1>4
<1>8. own = SubSeq(due, 0 + 1, 0 + Len(own))
  BY <1>3, <1>6, <1>7, PartOf
<1>9. 0 + Len(own) = Len(due) - 1
  BY <1>1, <1>4
<1>10. due # <<>>
  <2>1. Len(<<>>) = 0 /\ Len(due) # 0
    BY <1>1, <1>4
  <2> QED BY <2>1
<1>11. own = SubSeq(due, 1, Len(due) - 1)
  BY <1>1, <1>8, <1>9
<1> QED BY <1>10, <1>11

(* Whoever is connected to a terminal has been sent what was kept of it    *)
(* since, but for the chunk that is being sent (pty.py:227).               *)
THEOREM ViewsAreWhole == LifeSpec => []SharedViewIsWhole
<1>1. LifeIInv => SharedViewIsWhole
  <2> SUFFICES ASSUME LifeIInv, NEW s \in Terminal, NEW c \in connections[s]
               PROVE  LET due == SubSeq(scrollback[s], joined[c] + 1, Len(scrollback[s]))
                      IN  \/ sent[c] = due
                          \/ reader[s].at = "send" /\ c \in reader[s].left /\ due # <<>>
                             /\ sent[c] = SubSeq(due, 1, Len(due) - 1)
    BY DEF SharedViewIsWhole
  <2> DEFINE all == scrollback[s]
             own == sent[c]
             due == SubSeq(all, joined[c] + 1, Len(all))
  <2>1. c \in Conn /\ View(s, c) /\ Sending(s)
    BY DEF LifeIInv, TermIInv, TermTypeOK, Shared
  <2>2. own \in Seq(1 .. MaxChunks) /\ all \in Seq(1 .. MaxChunks) /\ joined[c] \in Nat
    BY <2>1 DEF LifeIInv, TermIInv, TermTypeOK
  <2>3. \A i \in 1 .. Len(own) : own[i] = all[joined[c] + i]
    BY <2>1 DEF View, Sees
  <2>4. /\ c \notin reader[s].left => joined[c] + Len(own) = Len(all)
        /\ c \in reader[s].left => joined[c] + Len(own) = Len(all) - 1 /\ reader[s].at = "send"
    BY <2>1 DEF View, Sees, Sending
  <2>5. Len(own) \in Nat /\ Len(all) \in Nat
    BY <2>2
  <2>6. ASSUME joined[c] + Len(own) = Len(all) PROVE own = due
    <3> DEFINE from == joined[c]
    <3> HIDE DEF own, all, from
    <3>1. from \in Nat /\ from + Len(own) <= Len(all) /\ \A i \in 1 .. Len(own) : own[i] = all[from + i]
      BY <2>2, <2>3, <2>5, <2>6 DEF from
    <3>2. own = SubSeq(all, from + 1, from + Len(own))
      BY <2>2, <3>1, PartOf
    <3> QED BY <2>6, <3>2 DEF from
  <2>7. ASSUME joined[c] + Len(own) = Len(all) - 1 PROVE due # <<>> /\ own = SubSeq(due, 1, Len(due) - 1)
    <3> DEFINE from == joined[c]
    <3> HIDE DEF own, all, from
    <3>1. from \in Nat /\ from + Len(own) = Len(all) - 1 /\ \A i \in 1 .. Len(own) : own[i] = all[from + i]
      BY <2>2, <2>3, <2>7 DEF from
    <3>2. own \in Seq(1 .. MaxChunks) /\ all \in Seq(1 .. MaxChunks)
      BY <2>2
    <3>3. SubSeq(all, from + 1, Len(all)) # <<>>
      BY <3>1, <3>2, AllButLastOf
    <3>4. own = SubSeq(SubSeq(all, from + 1, Len(all)), 1, Len(SubSeq(all, from + 1, Len(all))) - 1)
      BY <3>1, <3>2, AllButLastOf, SMTT(20)
    <3> QED BY <3>3, <3>4 DEF from
  <2> HIDE DEF own, all, due
  <2>8. own = due \/ (reader[s].at = "send" /\ c \in reader[s].left /\ due # <<>> /\ own = SubSeq(due, 1, Len(due) - 1))
    BY <2>4, <2>6, <2>7
  <2> QED BY <2>8 DEF own, due, all
<1> QED BY <1>1, LifeInvariant, PTL
=============================================================================
