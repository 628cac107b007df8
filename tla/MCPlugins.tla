----------------------------- MODULE MCPlugins -----------------------------
(* Three plugins and the commands on them, and manifests, commands and     *)
(* templates for the functions of PluginCommands.                          *)
EXTENDS Plugins, TLC

MCDefault == [p \in Plugin |-> p # 2]

\* Two services of plugin 1 in one module, one of plugin 3 that is not there.
MCOwner == [s \in Service |-> IF s = "old" THEN 3 ELSE 1]
MCModuleOf == [s \in Service |-> IF s = "old" THEN "more" ELSE "handlers"]

Ask(kind, names) == [kind |-> kind, names |-> names]

\* Commands on the bundled plugin 1 and on the plugins 2 and 3.
MCAsked ==
  {Ask("enable", {2}), Ask("disable", {1}), Ask("disable --force", {3}), Ask("rescan", {}),
   Ask("install", {2}), Ask("install", {3}), Ask("update", {2}), Ask("update --all", {}), Ask("serve", {})}

\* Chains both ways, a cycle, missing dependencies (4 is no plugin), a plugin two
\* others depend on and one that depends on both others.
MCGraphs ==
  {<< <<3>>, <<1>>, <<>> >>, << <<>>, <<1>>, <<2>> >>, << <<3>>, <<1>>, <<2>> >>,
   << <<3>>, <<4>>, <<2>> >>, << <<3, 2>>, <<>>, <<2>> >>}

\* Whatever is found and declared, the search for an order ends.
ASSUME SearchEnds ==
  \A found \in SUBSET {1, 2, 3}, a \in {<<>>, <<3>>, <<3, 2>>}, b \in {<<>>, <<1>>, <<4>>}, c \in {<<>>, <<2>>} :
    Ended(found, <<a, b, c>>)

Symmetric == Permutations(Process) \union Permutations(Thread)
-----------------------------------------------------------------------------
(* Manifests, commands and templates for the functions of PluginCommands.   *)
Arg(n, by) == [name |-> n, optional |-> TRUE, short |-> "", type |-> "str", action |-> "", group |-> "", by |-> by]
Cmd(n, arguments, subs) ==
  [name |-> n, includes |-> <<>>, arguments |-> arguments, subcommands |-> subs, handler |-> "run " \o n]
Of(d, n, fault, commands, on) ==
  [dir |-> d, name |-> n, fault |-> fault, enabled |-> on, passthrough |-> on /\ n = "c", commands |-> commands]

\* Up to two directories, configured or of the user, or one configured twice, of
\* two names, some with a fault.
MCEntries(d) == {Of(d, n, f, <<>>, TRUE) : n \in {"a", "b"}, f \in {"none", "lacks", "no table"}}
MCScans ==
  LET In(tag) == {[i \in DOMAIN s |-> [s[i] EXCEPT !.dir = <<tag, i>>]] : s \in SeqOf(MCEntries(tag), 2)}
  IN In("c") \union In("u") \union {<<p, p>> : p \in MCEntries(<<"c", 1>>)}

\* Commands x and y, either with an argument argparse refuses, one with subcommands, and a core command.
MCX == Cmd("x", <<Arg("--n", "x")>>, <<>>)
MCY == Cmd("y", <<>>, <<[Cmd("s", <<>>, <<>>) EXCEPT !.handler = Nobody], Cmd("t", <<Arg("--n", "t")>>, <<>>)>>)
MCBad(c) == [c EXCEPT !.arguments = Append(@, [Arg("--bad", "x") EXCEPT !.type = "date"])]
MCCommands ==
  LET group == [MCY EXCEPT !.handler = Nobody]
      short == [MCX EXCEPT !.arguments = <<[Arg("--n", "x") EXCEPT !.short = "-h"]>>]
      deep == [MCY EXCEPT !.subcommands = <<Cmd("s", <<>>, <<>>), [Cmd("s", <<>>, <<>>) EXCEPT !.handler = "other"]>>]
      over == [group EXCEPT !.subcommands = <<Cmd("t", <<>>, <<>>), MCBad(MCX)>>]
      server == Cmd("server", <<>>, <<>>)
  IN {<<MCX>>, <<MCY>>, <<MCX, group>>, <<MCBad(MCX), MCY>>, <<MCX, MCBad(MCY)>>, <<MCY, short>>, <<deep, MCX>>,
      <<over>>, <<MCX, [MCX EXCEPT !.handler = "other"]>>, <<server>>, <<MCY, server>>}

MCListings ==
  {[i \in 1 .. 3 |-> Of(i, <<"a", "b", "c">>[i], "none", l[i], on[i])] :
     l \in [1 .. 3 -> MCCommands], on \in [1 .. 3 -> BOOLEAN]}

MCPluginManifest == UNION {ToSet(s) : s \in MCScans \union MCListings}

\* Commands that include templates, with an argument of their own or without.
MCIncluding ==
  {[Cmd("x", own, <<>>) EXCEPT !.includes = includes] :
     own \in {<<>>, <<Arg("--a", "x")>>}, includes \in {<<"t1">>, <<"t1", "t2">>}}
MCCommandDecl ==
  LET listed == UNION {ToSet(l) : l \in MCCommands}
  IN MCIncluding \union listed \union UNION {ToSet(c.subcommands) : c \in listed}

\* Three templates with every way to include one another and a missing one, and
\* built-in templates, one of which the user replaces.
MCTemplate == {"t1", "t2", "t3", "t4", "none"}
MCIncludes == SeqOf({"t1", "t2", "t3", "none"}, 2)
MCOwn == [t \in {"t1", "t2", "t3"} |->
            IF t = "t1" THEN <<Arg("--a", t)>> ELSE IF t = "t2" THEN <<Arg("--b", t), Arg("--a", t)>>
            ELSE <<Arg("--b", t)>>]
MCBuiltin == [t \in {"t1", "t4"} |-> [own |-> <<Arg("--z", "builtin")>>, includes |-> <<"t1">>]]
MCRegistries ==
  {Registry(MCBuiltin, [t \in DOMAIN MCOwn |-> [own |-> MCOwn[t], includes |-> includes[t]]]) :
     includes \in [DOMAIN MCOwn -> MCIncludes]}
MCTemplates == CHOOSE registry \in MCRegistries : TRUE

MCArgumentDecl ==
  (UNION {ToSet(c.arguments) : c \in MCCommandDecl}) \union UNION {ToSet(own) : own \in {MCOwn[t] : t \in DOMAIN MCOwn}}
    \union {Arg("--z", "builtin")}
=============================================================================
