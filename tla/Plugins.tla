------------------------------ MODULE Plugins ------------------------------
(***************************************************************************)
(* The plugins on disk, the state file that records which are enabled, and *)
(* the processes that read and write both: the commands of                 *)
(* commands/plugins_cmd.py and the server, which loads the plugins when it *)
(* starts (plugins/loader.py), and the index of the services the loaded    *)
(* plugins offer (state/service_registry.py).                              *)
(*                                                                         *)
(* A plugin is its rank among the sorted names.  Services of one plugin may *)
(* have their handlers in one module.  The state file is the function of its enabled *)
(* toggles; a file that was truncated and not written yet is read as one   *)
(* without plugins, which is what load_state makes of it.                  *)
(***************************************************************************)
EXTENDS PluginOrder, PluginCommands

CONSTANTS
  Plugin,       \* ranks of names
  Bundled,      \* the plugins of the configured paths
  Graphs,       \* the dependencies the manifests may declare
  Default,      \* the enabled field of each manifest
  Process,      \* command line processes and servers
  Thread,       \* threads of the server that ask for services
  Service,      \* the services the manifests declare
  Module,       \* the modules their handlers are in
  Owner,        \* the plugin that declares a service
  ModuleOf,     \* the module of its handler
  Lacking,      \* services whose module has no function of the declared name
  Asked,        \* the commands a user may give
  MaxCommands,  \* bound on the commands given
  None

ToggleKinds == {"enable", "disable", "disable --force"}
FindKinds == {"rescan", "install", "update", "update --all", "serve"}

ASSUME PluginAssumption ==
  /\ Plugin \subseteq Nat \ {0} /\ IsFiniteSet(Plugin) /\ Bundled \subseteq Plugin
  /\ Graphs \subseteq [Plugin -> Seq(Nat)]
  /\ Default \in [Plugin -> BOOLEAN]
  /\ Asked \subseteq [kind : ToggleKinds \union FindKinds, names : SUBSET Plugin]
  /\ \A ask \in Asked : ask.kind \in ToggleKinds \union {"install", "update"} => ask.names # {}
  /\ MaxCommands \in Nat
  /\ Owner \in [Service -> Plugin] /\ ModuleOf \in [Service -> Module] /\ Lacking \subseteq Service
  /\ None \notin Plugin /\ None \notin Service

VARIABLES
  deps,        \* the dependencies each manifest declares
  home,        \* the plugins under ~/.codehome/plugins
  file,        \* plugins-state.json
  proc,        \* the processes
  given,       \* how many commands were given
  loaded,      \* the plugins the server registered, in order
  index,       \* the services it deferred at its start
  deferred,    \* services still deferred
  registered,  \* services registered
  lost,        \* services whose import failed
  thread,      \* the service each thread is importing the module of
  entry,       \* sys.modules: the service a module was put there for
  begun,       \* services for which a module was created and run
  failed,      \* services for which that, or finding the file, failed
  raced,       \* modules two threads resolved services of at once
  wanted,      \* the toggle last written for a plugin
  disturbed    \* commands overlapped, or one was killed inside a write

diskVars == <<deps, home, file>>
importVars == <<entry, begun, failed, raced>>
serverVars == <<loaded, index, deferred, registered, lost, thread, importVars>>
vars == <<diskVars, proc, given, serverVars, wanted, disturbed>>

\* What load_state makes of a file that is empty or not there.
NoToggles == [p \in {} |-> FALSE]

Idle == [kind |-> "none", at |-> "idle", rest |-> {}, on |-> FALSE, found |-> {},
         seen |-> NoToggles]

Init ==
  /\ deps \in Graphs
  /\ home = {}
  /\ file = NoToggles
  /\ proc = [c \in Process |-> Idle]
  /\ given = 0
  /\ loaded = <<>>
  /\ index = {} /\ deferred = {} /\ registered = {} /\ lost = {}
  /\ thread = [t \in Thread |-> None]
  /\ entry = [m \in Module |-> None]
  /\ begun = {} /\ failed = {} /\ raced = {}
  /\ wanted = NoToggles
  /\ disturbed = FALSE

Discovered == Bundled \union home

\* Mutant of Merged: every plugin takes the default of its manifest.
MergedAfresh(old, found) == [p \in found |-> Default[p]]

\* merge_discovered: a known plugin keeps its toggle, a new one takes the
\* default of its manifest, one that is gone is pruned.
Merged(old, found) == [p \in found |-> IF p \in DOMAIN old THEN old[p] ELSE Default[p]]

At(c, place) == proc[c].at = place
Busy(c) == proc[c].at \notin {"idle", "up"}
Goes(c, place) == proc' = [proc EXCEPT ![c].at = place]
Ends(c) == proc' = [proc EXCEPT ![c] = Idle]

\* Where a command starts: an unforced disable looks for dependents, install
\* and update change the disk, rescan and the server discover.
Begin(kind) ==
  CASE kind = "disable" -> "check" [] kind \in ToggleKinds \ {"disable"} -> "read"
    [] kind = "install" -> "copy" [] kind \in {"update", "update --all"} -> "remove" [] OTHER -> "discover"

\* update wants its plugin installed, and update --all takes those that are.
Named(ask) == IF ask.kind = "update --all" THEN home ELSE ask.names

\* A user gives a command; a second server is not started beside the first.
Give(c) ==
  /\ given < MaxCommands /\ At(c, "idle")
  /\ \E ask \in Asked :
       /\ ask.kind = "serve" => \A d \in Process : proc[d].kind # "serve"
       /\ ask.kind = "update" => ask.names \subseteq home
       /\ ask.kind = "update --all" => home # {}
       /\ proc' = [proc EXCEPT ![c] =
            [Idle EXCEPT !.kind = ask.kind, !.at = Begin(ask.kind), !.rest = Named(ask),
                         !.on = (ask.kind = "enable")]]
  /\ given' = given + 1
  /\ disturbed' = (disturbed \/ \E d \in Process : Busy(d))
  /\ UNCHANGED <<diskVars, serverVars, wanted>>

-----------------------------------------------------------------------------
(***************************************************************************)
(* enable and disable.                                                     *)
(***************************************************************************)
Target(c) == Min(proc[c].rest)

\* _find_dependents; an entry without a toggle counts as enabled.
Dependents(p) ==
  {q \in Discovered \ {p} : p \in ToSet(deps[q]) /\ (q \in DOMAIN file => file[q])}

CheckDependents(c) ==
  /\ At(c, "check")
  /\ IF Dependents(Target(c)) # {} THEN Ends(c) ELSE Goes(c, "read")
  /\ UNCHANGED <<diskVars, given, serverVars, wanted, disturbed>>

Toggles(c) == proc[c].kind \in ToggleKinds

ReadToggle(c) ==
  /\ At(c, "read") /\ Toggles(c)
  /\ IF Target(c) \notin DOMAIN file THEN Ends(c)
     ELSE proc' = [proc EXCEPT ![c].at = "truncate",
                               ![c].seen = [file EXCEPT ![Target(c)] = proc[c].on]]
  /\ UNCHANGED <<diskVars, given, serverVars, wanted, disturbed>>

-----------------------------------------------------------------------------
(***************************************************************************)
(* rescan, and the same steps at the start of a load.                      *)
(***************************************************************************)
Discover(c) ==
  /\ At(c, "discover")
  /\ proc' = [proc EXCEPT ![c].at = "read", ![c].found = Discovered]
  /\ UNCHANGED <<diskVars, given, serverVars, wanted, disturbed>>

ReadMerge(c) ==
  /\ At(c, "read") /\ ~Toggles(c)
  /\ proc' = [proc EXCEPT ![c].at = "truncate", ![c].seen = Merged(file, proc[c].found)]
  /\ UNCHANGED <<diskVars, given, serverVars, wanted, disturbed>>

\* write_text opens the file empty, and then writes it.
Truncate(c) ==
  /\ At(c, "truncate")
  /\ file' = NoToggles
  /\ Goes(c, "write")
  /\ UNCHANGED <<deps, home, given, serverVars, wanted, disturbed>>

\* The plugins an update --all still has to do after the one it did.
Following(c) ==
  LET rest == proc[c].rest \ {Target(c)}
  IN [proc[c] EXCEPT !.at = "remove", !.rest = rest]

\* After a write, and after a copy that failed.
Continue(c) ==
  CASE proc[c].kind = "serve" -> Goes(c, "load")
    [] proc[c].kind = "update --all" /\ Cardinality(proc[c].rest) > 1 ->
           proc' = [proc EXCEPT ![c] = Following(c)]
    [] OTHER -> Ends(c)

Write(c) ==
  /\ At(c, "write")
  /\ file' = proc[c].seen
  /\ wanted' = IF Toggles(c) THEN [p \in DOMAIN wanted \union {Target(c)} |->
                                     IF p = Target(c) THEN proc[c].on ELSE wanted[p]]
               ELSE [p \in DOMAIN wanted \intersect proc[c].found |-> wanted[p]]
  /\ Continue(c)
  /\ UNCHANGED <<deps, home, given, serverVars, disturbed>>

-----------------------------------------------------------------------------
(***************************************************************************)
(* install and update.                                                     *)
(***************************************************************************)
Uninstall(c) ==
  /\ At(c, "remove")
  /\ home' = home \ {Target(c)}
  /\ Goes(c, "copy")
  /\ UNCHANGED <<deps, file, given, serverVars, wanted, disturbed>>

\* The plugin is copied from the sources there are, and then rescanned.
Copy(c) ==
  /\ At(c, "copy") /\ Target(c) \notin home
  /\ home' = home \union {Target(c)}
  /\ Goes(c, "discover")
  /\ UNCHANGED <<deps, file, given, serverVars, wanted, disturbed>>

\* It is there already, or there is no source of it: an install dies, and an
\* update goes on with the others.
CopyFails(c) ==
  /\ At(c, "copy")
  /\ Continue(c)
  /\ UNCHANGED <<diskVars, given, serverVars, wanted, disturbed>>

-----------------------------------------------------------------------------
(***************************************************************************)
(* The server.                                                             *)
(***************************************************************************)
Enabled(c, p) == proc[c].seen[p]

\* The sets of plugins whose namespace, _sdk.py or system dependency may fail.
Broken(enabled) == SUBSET ToSet(enabled)

\* A broken plugin stays out of the registry, and its services do not stay
\* out of the index; a cycle among the dependencies leaves both empty.
Load(c) ==
  /\ At(c, "load")
  /\ LET sorted == Sorted(proc[c].found, deps)
         enabled == Kept(sorted.order, {p \in proc[c].found : Enabled(c, p)})
     IN IF sorted.cycle THEN loaded' = <<>> /\ index' = {}
        ELSE /\ \E broken \in Broken(enabled) :
                  loaded' = Kept(enabled, ToSet(enabled) \ broken)
             /\ index' = {s \in Service : Owner[s] \in ToSet(enabled)}
  /\ deferred' = index' /\ registered' = {} /\ lost' = {}
  /\ Goes(c, "up")
  /\ UNCHANGED <<diskVars, given, thread, importVars, wanted, disturbed>>

\* The modules threads other than t are importing, or about to.
Importing(t) == {ModuleOf[thread[u]] : u \in {v \in Thread \ {t} : thread[v] # None}}

\* An entry in sys.modules is of a module that is still being run.
Half(m) == \E t \in Thread : thread[t] # None /\ thread[t] = entry[m]

Overlapping(t, m) == raced' = raced \union ({m} \intersect Importing(t))

\* Mutant of Resolve: the entry stays in the index while its module is imported.
ResolveInPlace(t) ==
  /\ thread[t] = None
  /\ \E s \in deferred :
       /\ entry[ModuleOf[s]] = None
       /\ thread' = [thread EXCEPT ![t] = s]
       /\ Overlapping(t, ModuleOf[s])
  /\ UNCHANGED <<diskVars, proc, given, loaded, index, deferred, registered, lost, entry, begun, failed, wanted, disturbed>>

\* get_handler, call and get_typed of a service that is not registered yet:
\* the entry leaves the index, and sys.modules does not have the module.
Resolve(t) ==
  /\ thread[t] = None
  /\ \E s \in deferred :
       /\ entry[ModuleOf[s]] = None
       /\ deferred' = deferred \ {s}
       /\ thread' = [thread EXCEPT ![t] = s]
       /\ Overlapping(t, ModuleOf[s])
  /\ UNCHANGED <<diskVars, proc, given, loaded, index, registered, lost, entry, begun, failed, wanted, disturbed>>

\* sys.modules has the module: one that another thread is still running may
\* not have the function yet, and then the service is gone.
Reuse(t) ==
  /\ thread[t] = None
  /\ \E s \in deferred :
       /\ entry[ModuleOf[s]] # None
       /\ deferred' = deferred \ {s}
       /\ \/ s \notin Lacking /\ registered' = registered \union {s} /\ UNCHANGED lost
          \/ /\ s \in Lacking \/ Half(ModuleOf[s])
             /\ lost' = lost \union {s} /\ UNCHANGED registered
       /\ Overlapping(t, ModuleOf[s])
  /\ UNCHANGED <<diskVars, proc, given, loaded, index, thread, entry, begun, failed, wanted, disturbed>>

\* The new module is put in sys.modules, over what another thread may have put
\* there meanwhile, and its code starts to run.
Create(t) ==
  /\ thread[t] # None /\ thread[t] \notin begun
  /\ entry' = [entry EXCEPT ![ModuleOf[thread[t]]] = thread[t]]
  /\ begun' = begun \union {thread[t]}
  /\ UNCHANGED <<diskVars, proc, given, loaded, index, deferred, registered, lost, thread, failed, raced,
                 wanted, disturbed>>

\* It has run: its function is registered, if it has one of the name.
Imported(t) ==
  /\ thread[t] \in begun
  /\ IF thread[t] \in Lacking THEN lost' = lost \union {thread[t]} /\ UNCHANGED registered
     ELSE registered' = registered \union {thread[t]} /\ UNCHANGED lost
  /\ deferred' = deferred \ {thread[t]}
  /\ thread' = [thread EXCEPT ![t] = None]
  /\ UNCHANGED <<diskVars, proc, given, loaded, index, importVars, wanted, disturbed>>

\* There is no such file, or it raises: then the name leaves sys.modules,
\* whichever module has it.
ImportFails(t) ==
  /\ thread[t] # None
  /\ lost' = lost \union {thread[t]} /\ failed' = failed \union {thread[t]}
  /\ entry' = IF thread[t] \in begun THEN [entry EXCEPT ![ModuleOf[thread[t]]] = None] ELSE entry
  /\ thread' = [thread EXCEPT ![t] = None]
  /\ UNCHANGED <<diskVars, proc, given, loaded, index, deferred, registered, begun, raced, wanted, disturbed>>

\* A process is killed; what a server had in memory goes with it.
Kill(c) ==
  /\ ~At(c, "idle")
  /\ Ends(c)
  /\ disturbed' = (disturbed \/ At(c, "write"))
  /\ IF proc[c].kind = "serve"
     THEN /\ loaded' = <<>> /\ index' = {} /\ deferred' = {} /\ registered' = {} /\ lost' = {}
          /\ thread' = [t \in Thread |-> None] /\ entry' = [m \in Module |-> None]
          /\ begun' = {} /\ failed' = {} /\ raced' = {}
     ELSE UNCHANGED serverVars
  /\ UNCHANGED <<diskVars, given, wanted>>

Next ==
  \/ \E c \in Process :
       \/ Give(c) \/ CheckDependents(c) \/ ReadToggle(c) \/ Discover(c) \/ ReadMerge(c)
       \/ Truncate(c) \/ Write(c) \/ Uninstall(c) \/ Copy(c) \/ CopyFails(c) \/ Load(c) \/ Kill(c)
  \/ \E t \in Thread : Resolve(t) \/ Reuse(t) \/ Create(t) \/ Imported(t) \/ ImportFails(t)

Spec == Init /\ [][Next]_vars

-----------------------------------------------------------------------------
\* The toggles of some plugins.
Togglings == UNION {[known -> BOOLEAN] : known \in SUBSET Plugin}

Command ==
  [kind : {"none"} \union ToggleKinds \union FindKinds,
   at : {"idle", "check", "read", "discover", "truncate", "write", "remove", "copy", "load", "up"},
   rest : SUBSET Plugin, on : BOOLEAN, found : SUBSET Plugin, seen : Togglings]

\* Every variable has its type.
TypeOK ==
  /\ deps \in Graphs /\ home \subseteq Plugin
  /\ file \in Togglings /\ wanted \in Togglings
  /\ proc \in [Process -> Command]
  /\ given \in 0 .. MaxCommands
  /\ loaded \in Seq(Plugin) /\ index \subseteq Service
  /\ deferred \union registered \union lost \union begun \union failed \subseteq index
  /\ thread \in [Thread -> Service \union {None}]
  /\ entry \in [Module -> Service \union {None}] /\ raced \subseteq Module
  /\ disturbed \in BOOLEAN

Writing == \E c \in Process : At(c, "write")

\* As long as commands are given one after the other and none is killed
\* inside a write, the state file keeps the toggle last set for every plugin,
\* through rescans, failed and repeated updates and server starts, until a
\* rescan finds the plugin gone (merge_discovered, "existing plugins preserve
\* their enabled/disabled toggle").
TogglesKept ==
  ~disturbed /\ ~Writing =>
    \A p \in DOMAIN wanted : p \in DOMAIN file => file[p] = wanted[p]

\* Of two loaded plugins of which one declares the other the dependency is
\* loaded first, and every dependency a loaded plugin declares was on disk.
LoadOrder ==
  \A i \in DOMAIN loaded : \A d \in ToSet(deps[loaded[i]]) :
    /\ d \in Plugin
    /\ d \in ToSet(loaded) => \E j \in 1 .. i - 1 : loaded[j] = d

\* Each service the server deferred is in one place: still deferred, being
\* resolved by one thread, registered, or lost.  register never finds its name
\* taken.  And unless two threads resolved services of one module at once, which
\* nothing prevents (service_registry.py:108-119): that module is run once, but
\* for runs that fail, and a service is lost only to a failed import of its own
\* or because the module has no function of its name.
EachServiceOnce ==
  /\ \A s \in index :
       Quantify(Thread, LAMBDA t : thread[t] = s)
       + Quantify({1, 2, 3}, LAMBDA i : s \in <<deferred, registered, lost>>[i]) = 1
  /\ \A s, r \in begun \ failed : ModuleOf[s] = ModuleOf[r] => s = r \/ ModuleOf[s] \in raced
  /\ \A s \in lost \ (failed \union Lacking) : ModuleOf[s] \in raced

\* The initial state the functions of PluginCommands are evaluated in.
Once == Init /\ deps = CHOOSE graph \in Graphs : TRUE

\* A manifest with an error of another kind than a ValueError leaves `v` without
\* any plugin; otherwise every plugin on disk is found or reported by itself
\* (discovery.py:130-184, cli.py:46-53).  And of the plugins found, every command
\* of `v` runs the handler of the one that is entitled to it, whatever the others
\* declare, fail at or are disabled (cli.py:83-118).  Evaluated once.
CommandsApart ==
  Once =>
    /\ \A configured, users \in Scans : FoundOrReported(configured, users)
    /\ \A plugins \in Listings : EachHasItsOwn(Templates, Core, plugins, RegisterAll(Templates, Core, plugins))

\* A command has each of its arguments once and in the right definition, however
\* its templates include one another (templates.py:215-246, cli_builder.py:262-281).
ArgumentsWin ==
  Once => \A registry \in Registries, cmd \in CommandDecl : ArgumentsAreWhole(registry, cmd)
=============================================================================
