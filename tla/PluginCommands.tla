--------------------------- MODULE PluginCommands ---------------------------
(***************************************************************************)
(* From the manifests of plugins to the commands of `v`: what              *)
(* plugins/manifest.py accepts, which of several plugins of one name       *)
(* plugins/discovery.py keeps, the arguments a command has                 *)
(* (plugins/templates.py, plugins/cli_builder.py), and which plugin gets   *)
(* which command (cli.py).  Functions without state, that every `v`        *)
(* process computes anew.                                                  *)
(*                                                                         *)
(* A plugin is [dir, name, fault, enabled, passthrough, commands], fault   *)
(* being what is wrong with its plugin.toml; a command is                  *)
(* [name, includes, arguments, subcommands, handler]; an argument is       *)
(* [name, optional, short, type, action, group, by], by being the          *)
(* declaration it comes from.  The rules of argparse are those of Python   *)
(* 3.11 and later.                                                         *)
(***************************************************************************)
EXTENDS PluginOrder

CONSTANTS
  PluginManifest,  \* the plugins directories may hold
  CommandDecl,     \* the commands they may declare, and the subcommands of these
  ArgumentDecl,    \* the arguments these may declare
  Template,        \* the names of templates, also of those there are not
  Registries,      \* what the template files may define
  Templates,       \* what they do define when the parser is built
  Core,            \* the commands of the core
  Scans,           \* the directories of a scan, in the order of their names
  Listings         \* the plugins a discovery may return

\* A registry maps a template to [includes, own].
IsRegistry(registry) ==
  /\ DOMAIN registry \subseteq Template
  /\ \A t \in DOMAIN registry : registry[t].includes \in Seq(Template) /\ registry[t].own \in Seq(ArgumentDecl)

ASSUME CommandAssumption ==
  /\ Scans \subseteq Seq(PluginManifest) /\ Listings \subseteq Seq(PluginManifest)
  /\ \A p \in PluginManifest : p.commands \in Seq(CommandDecl)
  /\ \A c \in CommandDecl :
       c.includes \in Seq(Template) /\ c.arguments \in Seq(ArgumentDecl) /\ c.subcommands \in Seq(CommandDecl)
  /\ IsFiniteSet(Template)
  /\ Templates \in Registries /\ \A registry \in Registries : IsRegistry(registry)

Nobody == "nobody"
Help == "help"

-----------------------------------------------------------------------------
(***************************************************************************)
(* parse_manifest and discover_plugins.                                    *)
(***************************************************************************)

\* What a faulty entry of [[commands]], [[checks]], [[services]] or
\* [[subscriptions]] raises: one that lacks a field, or has one of the wrong type,
\* a ValueError; one that is no table, what nobody there expects.
EntryRaises(fault) == IF fault = "no table" THEN "AttributeError" ELSE "ValueError"

\* parse_manifest: bad TOML and a missing name are ValueErrors, a field of the
\* wrong type outside the entries is a TypeError.
Outcome(p) ==
  CASE p.fault = "none" -> "manifest"
    [] p.fault \in {"toml", "nameless"} -> "ValueError"
    [] p.fault = "field" -> "TypeError"
    [] p.fault \in {"lacks", "mistyped", "no table"} -> EntryRaises(p.fault)

Accepted(plugins) == {p \in ToSet(plugins) : Outcome(p) = "manifest"}

\* _scan_plugins_dir, over the directories in the order of their names: a
\* ValueError is reported, anything else ends the discovery.
Scan(plugins) ==
  [plugins |-> Kept(plugins, Accepted(plugins)),
   errors |-> {p.dir : p \in {q \in ToSet(plugins) : Outcome(q) = "ValueError"}},
   raises |-> \E p \in ToSet(plugins) : Outcome(p) \notin {"manifest", "ValueError"}]

Name(plugins) == {p.name : p \in ToSet(plugins)}

\* Mutant of Merge: a plugin of the user is taken whatever its name.
MergeAll(found, users) == found \o users

\* The plugins of the user whose name is not taken yet.
Merge(found, users) ==
  LET taken[n \in 0 .. Len(users)] ==
        IF n = 0 THEN found
        ELSE IF users[n].name \in Name(taken[n - 1]) THEN taken[n - 1] ELSE Append(taken[n - 1], users[n])
  IN taken[Len(users)]

\* The plugins whose name another one in the list has.
Duplicated(plugins) ==
  {plugins[i] : i \in {k \in DOMAIN plugins : \E j \in DOMAIN plugins : j # k /\ plugins[j].name = plugins[k].name}}

Dirs(plugins) == {p.dir : p \in plugins}

\* discover_plugins: plugins of one name that are left are all dropped.
DiscoverPlugins(configured, users) ==
  LET own == Scan(configured)
      user == Scan(users)
      merged == Merge(own.plugins, user.plugins)
  IN [plugins |-> Kept(merged, ToSet(merged) \ Duplicated(merged)),
      errors |-> own.errors \union user.errors \union (Dirs(ToSet(user.plugins)) \ Dirs(ToSet(merged)))
                   \union Dirs(Duplicated(merged)),
      raises |-> own.raises \/ user.raises]

\* What `v` builds its parser from: a discovery that raises leaves it without
\* any plugin, and with one message for all of them.
Listed(configured, users) ==
  LET found == DiscoverPlugins(configured, users)
  IN [plugins |-> IF found.raises THEN <<>> ELSE found.plugins,
      errors |-> IF found.raises THEN {} ELSE found.errors,
      failed |-> found.raises]

-----------------------------------------------------------------------------
(***************************************************************************)
(* The arguments of a command: those of the templates it includes, then    *)
(* its own.                                                                *)
(***************************************************************************)

\* Mutant of Put: the first definition of an argument stays.
PutFirst(arguments, a) ==
  IF \E i \in DOMAIN arguments : arguments[i].name = a.name THEN arguments ELSE Append(arguments, a)

\* A later definition takes the place of an earlier one.
Put(arguments, a) ==
  IF \E i \in DOMAIN arguments : arguments[i].name = a.name
  THEN [i \in DOMAIN arguments |-> IF arguments[i].name = a.name THEN a ELSE arguments[i]]
  ELSE Append(arguments, a)

PutAll(arguments, more) ==
  LET after[n \in 0 .. Len(more)] == IF n = 0 THEN arguments ELSE Put(after[n - 1], more[n])
  IN after[Len(more)]

\* The templates of the user replace the built-in ones of their names.
Registry(builtin, users) ==
  [t \in DOMAIN builtin \union DOMAIN users |-> IF t \in DOMAIN users THEN users[t] ELSE builtin[t]]

\* Expansions in turn, and then some arguments.
InTurn(parts, own) ==
  [raises |-> \E i \in DOMAIN parts : parts[i].raises,
   met |-> FlattenSeq([i \in DOMAIN parts |-> parts[i].met]) \o own]

Stuck == [raises |-> TRUE, met |-> <<>>]

\* _expand of a template below those on the stack: the arguments it meets.  It
\* raises for a cycle and for a template there is not.
Expand(registry) ==
  LET expand[stack \in SUBSET Template] ==
        [t \in Template |->
           IF t \in stack \/ t \notin DOMAIN registry THEN Stuck
           ELSE LET includes == registry[t].includes
                IN InTurn([i \in DOMAIN includes |-> expand[stack \union {t}][includes[i]]], registry[t].own)]
  IN expand

ResolveIncludes(registry, includes) ==
  LET expanded == InTurn([i \in DOMAIN includes |-> Expand(registry)[{}][includes[i]]], <<>>)
  IN [raises |-> expanded.raises, arguments |-> PutAll(<<>>, expanded.met)]

\* build_commands: without the templates when they cannot be resolved.
Arguments(registry, cmd) ==
  LET templates == ResolveIncludes(registry, cmd.includes)
  IN PutAll(IF templates.raises THEN <<>> ELSE templates.arguments, cmd.arguments)

KnownType == {"str", "", "int", "float", "path", "bool"}
EffectiveAction(a) == IF a.action = "" /\ a.type = "bool" THEN "store_true" ELSE a.action

\* The i-th argument is refused: its type is unknown and matters, or argparse
\* refuses a positional in an exclusive group, or an option string in use.
Refused(arguments, i) ==
  LET a == arguments[i]
  IN \/ EffectiveAction(a) \notin {"store_true", "store_false", "count"} /\ a.type \notin KnownType
     \/ a.group # "" /\ ~a.optional
     \/ a.short # "" /\ (a.short = "-h" \/ \E j \in 1 .. i - 1 : arguments[j].short = a.short)

\* Those that are added before the first that is refused.
Added(arguments) ==
  LET bad == {i \in DOMAIN arguments : Refused(arguments, i)}
  IN IF bad = {} THEN arguments ELSE SubSeq(arguments, 1, Min(bad) - 1)

-----------------------------------------------------------------------------
(***************************************************************************)
(* The commands.  A parser is [owner, main, subs]: the number of its       *)
(* plugin in the list, its arguments and handler, and those of the         *)
(* parsers of its subcommands.  Of deeper ones only what they raise        *)
(* matters.  What is raised leaves the parsers that were added.            *)
(***************************************************************************)

\* The _cmd of a command: a group without a handler prints its help.
Handler(cmd) ==
  IF cmd.handler # Nobody THEN cmd.handler ELSE IF cmd.subcommands # <<>> THEN Help ELSE Nobody

Refuses(registry, cmd) == Added(Arguments(registry, cmd)) # Arguments(registry, cmd)

Again(commands, i) == \E j \in 1 .. i - 1 : commands[j].name = commands[i].name

\* Whether a command raises once its parser was added: one of its arguments is
\* refused, or a second parser of a name or something of one below it.
Raises(registry) ==
  LET raises[cmd \in CommandDecl] ==
        \/ Refuses(registry, cmd)
        \/ \E i \in DOMAIN cmd.subcommands : Again(cmd.subcommands, i) \/ raises[cmd.subcommands[i]]
  IN raises

\* Where the commands raise, next to parsers of some names.
Raising(registry, commands, names) ==
  {i \in DOMAIN commands :
     commands[i].name \in names \/ Again(commands, i) \/ Raises(registry)[commands[i]]}

\* The commands whose parsers are added: those up to the first that raises, and
\* that one too unless it is for its name.
ByName(registry, commands, names) ==
  LET raising == Raising(registry, commands, names)
      added == {i \in DOMAIN commands :
                  /\ \A j \in raising : i <= j
                  /\ commands[i].name \notin names /\ ~Again(commands, i)}
  IN [n \in {commands[i].name : i \in added} |-> commands[CHOOSE i \in added : commands[i].name = n]]

Parser(registry, cmd) ==
  [arguments |-> Added(Arguments(registry, cmd)),
   run |-> IF Raises(registry)[cmd] THEN Nobody ELSE Handler(cmd)]

Subparsers(registry, cmd) ==
  LET subs == ByName(registry, IF Refuses(registry, cmd) THEN <<>> ELSE cmd.subcommands, {})
  IN [n \in DOMAIN subs |-> Parser(registry, subs[n])]

PluginParser(registry, owner, cmd) ==
  [owner |-> owner, main |-> Parser(registry, cmd), subs |-> Subparsers(registry, cmd)]

BuildCommands(registry, owner, commands, parsers) ==
  LET new == ByName(registry, commands, DOMAIN parsers)
  IN [parsers |-> [n \in DOMAIN parsers \union DOMAIN new |->
                     IF n \in DOMAIN parsers THEN parsers[n] ELSE PluginParser(registry, owner, new[n])],
      raises |-> Raising(registry, commands, DOMAIN parsers) # {}]

CommandNames(p) == {cmd.name : cmd \in ToSet(p.commands)}

\* What the n-th plugin leaves when its commands are built.
Take(so, n, p, built) ==
  LET whole == IF built.raises THEN {} ELSE CommandNames(p)
  IN [parsers |-> built.parsers, taken |-> so.taken \union whole,
      errors |-> IF built.raises THEN so.errors \union {n} ELSE so.errors,
      passthrough |-> IF p.passthrough THEN so.passthrough \union whole ELSE so.passthrough]

\* One turn of the loop of _register_plugin_commands, for the n-th plugin.
RegisterPlugin(registry, so, n, p) ==
  IF ~p.enabled THEN so
  ELSE IF CommandNames(p) \intersect so.taken # {} THEN [so EXCEPT !.errors = @ \union {n}]
  ELSE Take(so, n, p, BuildCommands(registry, n, p.commands, so.parsers))

\* A core command is nobody's; how it parses its arguments is its own affair.
CoreParser(c) == [owner |-> 0, main |-> [arguments |-> <<>>, run |-> c], subs |-> [n \in {} |-> Nobody]]

\* _register_plugin_commands: the plugins in turn.
RegisterAll(registry, core, plugins) ==
  LET after[n \in 0 .. Len(plugins)] ==
        IF n = 0
        THEN [parsers |-> [c \in core |-> CoreParser(c)], taken |-> core, errors |-> {}, passthrough |-> {}]
        ELSE RegisterPlugin(registry, after[n - 1], n, plugins[n])
  IN after[Len(plugins)]

\* main, for a command and at most one subcommand: the handler of the subcommand,
\* if it has one, goes before its parent's; arguments nobody knows are for
\* passthrough commands only.
Runs(so, c, chosen, extra) ==
  LET parser == so.parsers[c]
      below == {parser.subs[s].run : s \in chosen \intersect DOMAIN parser.subs} \ {Nobody}
      run == IF below = {} THEN parser.main.run ELSE CHOOSE r \in below : TRUE
  IN IF extra /\ c \notin so.passthrough THEN "error"
     ELSE IF run = Nobody THEN "usage" ELSE run

-----------------------------------------------------------------------------
(***************************************************************************)
(* What is expected of them.                                               *)
(***************************************************************************)

\* One manifest that raises anything but a ValueError fails the discovery, and
\* then no plugin is found; nothing else does.  When it does not fail, a plugin is
\* found exactly when its manifest is accepted and its name is no other configured
\* plugin's ("keep neither", discovery.py:181) nor, for one of the user, that of
\* one before it; and every plugin that is not found is reported.  A directory has
\* one plugin, and the user's are not among the configured ones.
FoundOrReported(configured, users) ==
  LET listed == Listed(configured, users)
      Clash(list, i, range) == \E j \in range \ {i} : list[j] \in Accepted(list) /\ list[j].name = list[i].name
      Taken(p) == \E q \in Accepted(configured) : q.name = p.name
      IsFound(p) == p \in ToSet(listed.plugins)
      IsReported(p) == p.dir \in listed.errors
      bad == \E p \in ToSet(configured) \union ToSet(users) : Outcome(p) \notin {"manifest", "ValueError"}
      apart == /\ \A p, q \in ToSet(configured) \union ToSet(users) : p.dir = q.dir => p = q
               /\ \A i, j \in DOMAIN users : users[i] = users[j] => i = j
               /\ ToSet(configured) \intersect ToSet(users) = {}
  IN /\ listed.failed <=> bad
     /\ bad => listed.plugins = <<>>
     /\ apart /\ ~bad =>
          /\ \A i \in DOMAIN configured :
               /\ IsFound(configured[i]) <=>
                    configured[i] \in Accepted(configured) /\ ~Clash(configured, i, DOMAIN configured)
               /\ IsReported(configured[i]) <=> ~IsFound(configured[i])
          /\ \A i \in DOMAIN users :
               /\ IsFound(users[i]) <=>
                    users[i] \in Accepted(users) /\ ~Taken(users[i]) /\ ~Clash(users, i, 1 .. i - 1)
               /\ IsReported(users[i]) <=> ~IsFound(users[i])

\* When all plugins are registered (so), a core command is what it was; a plugin
\* without an error has all its commands, with their arguments and handlers, and
\* so have their subcommands; one that wants a command of the core or of such a
\* plugin before it has none; nobody has another's commands.
EachHasItsOwn(registry, core, plugins, so) ==
  LET Whole(i) == plugins[i].enabled /\ i \notin so.errors
      Before(i) == core \union UNION {CommandNames(plugins[j]) : j \in {k \in 1 .. i - 1 : Whole(k)}}
      Own(cmd) == IF Handler(cmd) = Nobody THEN "usage" ELSE Handler(cmd)
  IN /\ \A c \in core : so.parsers[c] = CoreParser(c)
     /\ \A i \in DOMAIN plugins :
          LET p == plugins[i]
          IN /\ Whole(i) => \A cmd \in ToSet(p.commands) :
                  LET parser == so.parsers[cmd.name]
                  IN /\ parser.owner = i /\ parser.main.arguments = Arguments(registry, cmd)
                     /\ \A extra \in BOOLEAN :
                          Runs(so, cmd.name, {}, extra) = IF extra /\ ~p.passthrough THEN "error" ELSE Own(cmd)
                     /\ \A s \in ToSet(cmd.subcommands) :
                          /\ s.name \in DOMAIN parser.subs
                          /\ parser.subs[s.name].arguments = Arguments(registry, s)
                          /\ Handler(s) # Nobody => Runs(so, cmd.name, {s.name}, FALSE) = Handler(s)
             /\ ~p.enabled \/ CommandNames(p) \intersect Before(i) # {} =>
                  \A c \in DOMAIN so.parsers : so.parsers[c].owner # i
     /\ \A c \in DOMAIN so.parsers \ core :
          \E i \in DOMAIN plugins : plugins[i].enabled /\ so.parsers[c].owner = i /\ c \in CommandNames(plugins[i])

Names(arguments) == {a.name : a \in ToSet(arguments)}

\* The last definition of a name.
Latest(arguments, n) == arguments[Max({i \in DOMAIN arguments : arguments[i].name = n})]

\* What some templates include, directly, and directly or not.
Below(registry, ts) == UNION {ToSet(registry[t].includes) : t \in ts \intersect DOMAIN registry}
Reach(registry, ts) ==
  {t \in Template : \A some \in SUBSET Template : ts \union Below(registry, some) \subseteq some => t \in some}

\* There is no cycle in what they include, and none is missing.
Resolvable(registry, includes) ==
  \A t \in Reach(registry, ToSet(includes)) : t \in DOMAIN registry /\ t \notin Reach(registry, Below(registry, {t}))

Offers(registry, t) == UNION {Names(registry[u].own) : u \in Reach(registry, {t})}

\* A command has the arguments of all the templates it includes, directly or not,
\* unless these cannot be resolved, and its own, each once.  Its own definition
\* of a name goes first, and else that of the last template it includes that has
\* the name, as if that template were a command.
ArgumentsAreWhole(registry, cmd) ==
  LET got == Arguments(registry, cmd)
      offered == IF Resolvable(registry, cmd.includes)
                 THEN UNION {Offers(registry, t) : t \in ToSet(cmd.includes)} ELSE {}
      LastWith(n) == cmd.includes[Max({i \in DOMAIN cmd.includes : n \in Offers(registry, cmd.includes[i])})]
      Alone(t) == Arguments(registry, [includes |-> registry[t].includes, arguments |-> registry[t].own])
  IN /\ \A i, j \in DOMAIN got : got[i].name = got[j].name => i = j
     /\ Names(got) = Names(cmd.arguments) \union offered
     /\ \A a \in ToSet(got) :
          a = IF a.name \in Names(cmd.arguments) THEN Latest(cmd.arguments, a.name)
              ELSE Latest(Alone(LastWith(a.name)), a.name)
=============================================================================
