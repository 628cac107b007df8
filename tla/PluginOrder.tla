---------------------------- MODULE PluginOrder ----------------------------
(***************************************************************************)
(* The order plugins are loaded in: _topological_sort of                   *)
(* plugins/loader.py, an iterative depth-first search.  A plugin is its    *)
(* rank among the sorted names, so that sorted(by_name) is the order of    *)
(* the numbers; the grey plugins are those on the stack.                   *)
(***************************************************************************)
EXTENDS Naturals, FiniteSets, Sequences, SequencesExt, FiniteSetsExt

\* Plugins of found that declare a dependency that is not in found.
Unmet(found, deps) == {p \in found : ToSet(deps[p]) \ found # {}}

Start(found, deps) ==
  [stack |-> <<>>, order |-> <<>>, black |-> {}, skipped |-> Unmet(found, deps), cycle |-> FALSE,
   left |-> found]

OnStack(search) == {entry.node : entry \in ToSet(search.stack)}

Push(search, p, deps) ==
  [search EXCEPT !.stack = Append(@, [node |-> p, left |-> deps[p]])]

\* The last dependency left is taken off the top entry of the stack.
Pop(search) == [search EXCEPT !.stack[Len(search.stack)].left = Front(@)]

\* The top plugin depends on a skipped one.  The whole stack turns black and
\* none of it is ordered; only the top plugin joins the skipped.
Unwind(search) ==
  [search EXCEPT !.skipped = @ \union {Last(search.stack).node},
                 !.black = @ \union OnStack(search), !.stack = <<>>]

\* Mutant of Finalise: a plugin goes before those it depends on.
FinaliseInFront(search) ==
  LET current == Last(search.stack).node
  IN [search EXCEPT !.stack = Front(@), !.black = @ \union {current}, !.order = <<current>> \o @]

Finalise(search) ==
  LET current == Last(search.stack).node
  IN [search EXCEPT !.stack = Front(@), !.black = @ \union {current}, !.order = Append(@, current)]

\* One turn of the loop of _visit.
Turn(search, deps) ==
  LET top == Last(search.stack)
      dep == Last(top.left)
  IN IF top.left = <<>> THEN Finalise(search)
     ELSE CASE dep \in search.skipped -> Unwind(search)
            [] dep \notin search.skipped /\ dep \in OnStack(search) ->
                 [search EXCEPT !.cycle = TRUE, !.stack = <<>>]
            [] dep \in search.black \ search.skipped -> Pop(search)
            [] OTHER -> Push(Pop(search), dep, deps)

\* One turn of the loop over sorted(by_name); the search of a plugin starts
\* only if none went over it before.
NextName(search, deps) ==
  LET name == Min(search.left)
      rest == [search EXCEPT !.left = @ \ {name}]
  IN IF name \in search.skipped \union search.black THEN rest ELSE Push(rest, name, deps)

\* One turn of either loop; the RuntimeError of a cycle leaves both.
Step(search, deps) ==
  IF search.stack # <<>> THEN Turn(search, deps)
  ELSE IF search.left = {} \/ search.cycle THEN search
  ELSE NextName(search, deps)

Declarations(found, deps) == UNION {{p} \X DOMAIN deps[p] : p \in found}

\* No more turns than this: two for each plugin, which is named once and leaves
\* the stack once, and one for each dependency that is taken off.
Turns(found, deps) == 2 * Cardinality(found) + Cardinality(Declarations(found, deps))

\* Where the search is after so many turns.
End(found, deps) ==
  LET after[n \in 0 .. Turns(found, deps)] ==
        IF n = 0 THEN Start(found, deps) ELSE Step(after[n - 1], deps)
  IN after[Turns(found, deps)]

\* It is over by then.
Ended(found, deps) ==
  End(found, deps).stack = <<>> /\ (End(found, deps).left = {} \/ End(found, deps).cycle)

\* Those of a sequence that are in a set, in their order.
Kept(s, set) ==
  LET kept[n \in 0 .. Len(s)] ==
        IF n = 0 THEN <<>>
        ELSE IF s[n] \in set THEN Append(kept[n - 1], s[n]) ELSE kept[n - 1]
  IN kept[Len(s)]

\* What _topological_sort returns: no order at all when it found a cycle.
Sorted(found, deps) ==
  LET end == End(found, deps)
  IN [cycle |-> end.cycle, order |-> Kept(end.order, found \ end.skipped)]
=============================================================================
