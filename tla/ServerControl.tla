--------------------------- MODULE ServerControl ---------------------------
(***************************************************************************)
(* Starting and stopping the server of one port from the command line:     *)
(* commands/server_cmd.py and the port file of serve/__init__.py, which    *)
(* says which process serves.                                              *)
(*                                                                         *)
(* A `v server` process writes its pid into the port file, rebuilds the    *)
(* frontend and then becomes the server.  The file is a name for an inode, *)
(* which bears the name of the process that made it: the lock and the      *)
(* content belong to the inode, and a process that opened one keeps it     *)
(* when the name is removed.  The listening socket belongs to the Granian  *)
(* object, which lives until its process ends.                             *)
(***************************************************************************)
EXTENDS Naturals, FiniteSets

CONSTANTS
  Launch,   \* `v server` processes, and the inodes they make
  Stopper,  \* `v server stop` and `v server restart` commands
  None

ASSUME ServerAssumption == None \notin Launch

VARIABLES
  at,          \* where each launch is
  file,        \* the inode PORT_FILE names
  content,     \* the pid in each inode; None when it is empty
  opened,      \* the inode a launch has open
  holder,      \* the process whose socket listens on the port
  stop,        \* where each stop command is
  target,      \* the pid it signals
  then,        \* the launch a restart goes on with
  overlapped,  \* a command began while another was under way
  unheard      \* the servers of which a launch's ping went without an answer

launchVars == <<at, opened, content>>
stopVars == <<stop, target, then>>
vars == <<launchVars, file, holder, stopVars, overlapped, unheard>>

Init ==
  /\ at = [l \in Launch |-> "idle"]
  /\ file = None
  /\ content = [l \in Launch |-> None]
  /\ opened = [l \in Launch |-> None]
  /\ holder = None
  /\ stop = [z \in Stopper |-> "idle"]
  /\ target = [z \in Stopper |-> None]
  /\ then = [z \in Stopper |-> None]
  /\ overlapped = FALSE
  /\ unheard = {}

Starting(l) == at[l] \in {"asked", "stale", "binding", "opening", "locking", "locked", "written", "building"}
Stopping(z) == stop[z] \in {"reading", "cleaning", "signalling", "waiting", "killing", "freed"}
UnderWay == (\E l \in Launch : Starting(l)) \/ (\E z \in Stopper : Stopping(z))

Arrive == overlapped' = (overlapped \/ UnderWay) /\ UNCHANGED unheard

Moves(l, place) == at' = [at EXCEPT ![l] = place]

Recorded == IF file = None THEN None ELSE content[file]

\* /api/ping is asked of the port, whichever process listens on it.  A server
\* whose lifespan has yet to start, or whose loop is blocked, does not answer
\* within the second, and that is taken for no server.
Listens == holder # None /\ at[holder] = "serving"
Responds(answered) == answered => Listens

\* Mutant of Running: the port is not asked.
RunningUnasked(answered) == FALSE

\* read_server_info: the file holds a pid and the ping was answered.
Running(answered) == Recorded # None /\ answered

-----------------------------------------------------------------------------
(***************************************************************************)
(* cmd_server.                                                             *)
(***************************************************************************)
Ask(l) ==
  /\ at[l] = "idle" /\ \A z \in Stopper : then[z] # l
  /\ Moves(l, "asked")
  /\ Arrive
  /\ UNCHANGED <<file, content, opened, holder, stopVars>>

Probe(l) ==
  /\ at[l] = "asked"
  /\ \E answered \in BOOLEAN :
       /\ Responds(answered)
       /\ Moves(l, IF Running(answered) THEN "refused" ELSE "stale")
       /\ unheard' = IF Recorded # None /\ Listens /\ ~answered THEN unheard \union {holder} ELSE unheard
  /\ UNCHANGED <<file, content, opened, holder, stopVars, overlapped>>

RemoveStale(l) ==
  /\ at[l] = "stale"
  /\ file' = None
  /\ Moves(l, "binding")
  /\ UNCHANGED <<content, opened, holder, stopVars, overlapped, unheard>>

TestPort(l) ==
  /\ at[l] = "binding"
  /\ Moves(l, IF holder = None THEN "opening" ELSE "refused")
  /\ UNCHANGED <<file, content, opened, holder, stopVars, overlapped, unheard>>

\* open(PORT_FILE, "w") makes the file or empties the one there is.
Open(l) ==
  /\ at[l] = "opening"
  /\ LET inode == IF file = None THEN l ELSE file
     IN /\ file' = inode
        /\ opened' = [opened EXCEPT ![l] = inode]
        /\ content' = [content EXCEPT ![inode] = None]
  /\ Moves(l, "locking")
  /\ UNCHANGED <<holder, stopVars, overlapped, unheard>>

Locked(inode) == \E k \in Launch : opened[k] = inode /\ at[k] \in {"locked", "written"}

Lock(l) ==
  /\ at[l] = "locking"
  /\ Moves(l, IF Locked(opened[l]) THEN "refused" ELSE "locked")
  /\ UNCHANGED <<file, content, opened, holder, stopVars, overlapped, unheard>>

Record(l) ==
  /\ at[l] = "locked"
  /\ content' = [content EXCEPT ![opened[l]] = l]
  /\ Moves(l, "written")
  /\ UNCHANGED <<file, opened, holder, stopVars, overlapped, unheard>>

\* The lock goes with the descriptor; the frontend is rebuilt after that.
Unlock(l) ==
  /\ at[l] = "written"
  /\ Moves(l, "building")
  /\ UNCHANGED <<file, content, opened, holder, stopVars, overlapped, unheard>>

\* Granian binds the port, or fails to, which leads to the finally clause.
Serve(l) ==
  /\ at[l] = "building"
  /\ IF holder = None
     THEN /\ holder' = l
          /\ Moves(l, "serving")
     ELSE /\ Moves(l, "leaving")
          /\ UNCHANGED holder
  /\ UNCHANGED <<file, content, opened, stopVars, overlapped, unheard>>

\* serve() returns: the server was signalled, or interrupted at its terminal.
Return(l) ==
  /\ at[l] = "serving"
  /\ Moves(l, "leaving")
  /\ UNCHANGED <<file, content, opened, holder, stopVars, overlapped, unheard>>

RemoveFile(l) ==
  /\ at[l] = "leaving"
  /\ file' = None
  /\ Moves(l, "left")
  /\ UNCHANGED <<content, opened, holder, stopVars, overlapped, unheard>>

\* The process is over, and its socket closed with it.
Over(l) ==
  /\ Moves(l, "gone")
  /\ holder' = IF holder = l THEN None ELSE holder

Exit(l) ==
  /\ at[l] = "left"
  /\ Over(l)
  /\ UNCHANGED <<file, content, opened, stopVars, overlapped, unheard>>

\* A process is killed from outside: "Happens when the server is force-killed".
Crash(l) ==
  /\ Starting(l) \/ at[l] \in {"serving", "leaving", "left"}
  /\ Over(l)
  /\ UNCHANGED <<file, content, opened, stopVars, overlapped, unheard>>

-----------------------------------------------------------------------------
(***************************************************************************)
(* _server_stop, with which a restart begins.                              *)
(***************************************************************************)
Steps(z, place) == stop' = [stop EXCEPT ![z] = place]

Order(z) ==
  /\ stop[z] = "idle"
  /\ Steps(z, "reading")
  /\ \E l \in {None} \union {l \in Launch : at[l] = "idle" /\ \A y \in Stopper : then[y] # l} :
       then' = [then EXCEPT ![z] = l]
  /\ Arrive
  /\ UNCHANGED <<launchVars, file, holder, target>>

\* The pid in the file; without one ss is asked who listens, and may not know.
ReadPid(z) ==
  /\ stop[z] = "reading"
  /\ \E pid \in IF Recorded # None THEN {Recorded} ELSE {holder, None} :
       target' = [target EXCEPT ![z] = pid]
  /\ Steps(z, "cleaning")
  /\ UNCHANGED <<launchVars, file, holder, then, overlapped, unheard>>

\* POST /api/shutdown/cleanup may take half a minute, and may not be asked for.
Cleaned(z) ==
  /\ stop[z] = "cleaning"
  /\ Steps(z, "signalling")
  /\ UNCHANGED <<launchVars, file, holder, target, then, overlapped, unheard>>

\* There is nothing to signal: the port is free, or its owner is unknown.
Unknown(z) ==
  /\ stop[z] = "signalling" /\ target[z] = None
  /\ IF holder = None
     THEN Steps(z, "freed")
     ELSE Steps(z, "died")
  /\ UNCHANGED <<launchVars, file, holder, target, then, overlapped, unheard>>

\* SIGTERM: a server shuts down, and a process that does not serve ends.
Signal(z) ==
  /\ stop[z] = "signalling" /\ target[z] # None
  /\ IF Starting(target[z]) THEN Over(target[z]) ELSE UNCHANGED <<at, holder>>
  /\ Steps(z, "waiting")
  /\ UNCHANGED <<opened, content, file, target, then, overlapped, unheard>>

\* Mutant of PortFree: the stop does not wait for the port.
PortAssumed == TRUE

\* _wait_port_free succeeds.
PortFree == holder = None

Freed(z) ==
  /\ stop[z] \in {"waiting", "killing"} /\ PortFree
  /\ Steps(z, "freed")
  /\ UNCHANGED <<launchVars, file, holder, target, then, overlapped, unheard>>

\* Mutant of Escalate: the grace period has no end.
EscalateNever(z) == FALSE /\ UNCHANGED vars

\* The grace period is over: SIGKILL to the process and its descendants.
Escalate(z) ==
  /\ stop[z] = "waiting" /\ holder # None
  /\ IF at[target[z]] \in {"gone", "refused"} THEN UNCHANGED <<at, holder>> ELSE Over(target[z])
  /\ Steps(z, "killing")
  /\ UNCHANGED <<opened, content, file, target, then, overlapped, unheard>>

GivesUp(z) ==
  /\ stop[z] = "killing" /\ holder # None
  /\ Steps(z, "died")
  /\ UNCHANGED <<launchVars, file, holder, target, then, overlapped, unheard>>

\* The file is removed, and a restart goes on as a launch.
Stopped(z) ==
  /\ stop[z] = "freed"
  /\ file' = None
  /\ Steps(z, "stopped")
  /\ IF then[z] = None THEN UNCHANGED at ELSE Moves(then[z], "asked")
  /\ UNCHANGED <<opened, content, holder, target, then, overlapped, unheard>>

-----------------------------------------------------------------------------
Next ==
  \/ \E l \in Launch :
       \/ Ask(l) \/ Probe(l) \/ RemoveStale(l) \/ TestPort(l) \/ Open(l) \/ Lock(l) \/ Record(l)
       \/ Unlock(l) \/ Serve(l) \/ Return(l) \/ RemoveFile(l) \/ Exit(l) \/ Crash(l)
  \/ \E z \in Stopper :
       \/ Order(z) \/ ReadPid(z) \/ Cleaned(z) \/ Unknown(z) \/ Signal(z) \/ Freed(z)
       \/ Escalate(z) \/ GivesUp(z) \/ Stopped(z)

Spec == Init /\ [][Next]_vars

\* A command goes on, its timeouts expire, and a process whose server
\* returned ends.  Nothing makes a server that was signalled return.
FairSpec ==
  /\ Spec
  /\ \A l \in Launch : WF_vars(RemoveFile(l) \/ Exit(l))
  /\ \A z \in Stopper :
       WF_vars(ReadPid(z) \/ Cleaned(z) \/ Unknown(z) \/ Signal(z) \/ Freed(z)
               \/ Escalate(z) \/ GivesUp(z) \/ Stopped(z))

-----------------------------------------------------------------------------
\* Every variable has its type.
TypeOK ==
  /\ at \in [Launch -> {"idle", "asked", "stale", "binding", "opening", "locking", "locked", "written",
                        "building", "serving", "leaving", "left", "gone", "refused"}]
  /\ file \in Launch \union {None}
  /\ content \in [Launch -> Launch \union {None}]
  /\ opened \in [Launch -> Launch \union {None}]
  /\ holder \in Launch \union {None}
  /\ stop \in [Stopper -> {"idle", "reading", "cleaning", "signalling", "waiting", "killing",
                           "freed", "stopped", "died"}]
  /\ target \in [Stopper -> Launch \union {None}]
  /\ then \in [Stopper -> Launch \union {None}]
  /\ overlapped \in BOOLEAN
  /\ unheard \subseteq Launch

Found(l) == Recorded = l

\* As long as commands are given one after the other, the server that runs is
\* the one the port file names, through crashes, refused starts and restarts
\* (server_cmd.py:344, "The port file itself stays on disk so `v server
\* status` / `read_server_url()` can find the server"), but for a server that
\* let the ping of a later `v server` go without an answer, which removes the
\* file as stale (server_cmd.py:304).
FoundUnlessRaced ==
  ~overlapped => \A l \in Launch : at[l] = "serving" => Found(l) \/ l \in unheard

\* When a stop returns the process it was for neither listens nor will
\* (server_cmd.py:468, "on return, the port is guaranteed free or an error was
\* raised"), however commands overlap.
StoppedIsDown ==
  \A z \in Stopper :
    stop[z] = "stopped" /\ target[z] # None =>
      /\ holder # target[z]
      /\ at[target[z]] \in {"leaving", "left", "gone"}

\* A stop ends, with a server that ignores SIGTERM too: it returns or dies.
StopsEnd == \A z \in Stopper : Stopping(z) ~> stop[z] \in {"stopped", "died"}

=============================================================================
