-------------------------- MODULE PluginsProofs --------------------------
(***************************************************************************)
(* What holds of Plugins for any number of plugins, whatever they depend   *)
(* on, and any number of processes and threads: the order the plugins are  *)
(* loaded in, the toggles as long as commands do not overlap, and that a   *)
(* service is imported once; and of PluginCommands for any manifests, any  *)
(* commands and any templates.                                             *)
(*                                                                         *)
(* The search for an order is a function of its turns.  What every turn    *)
(* keeps (Sound) holds of the last one, whether it is over or not.  So are *)
(* the merge of two scans, the registration of plugins and the arguments   *)
(* put into a command.  The expansion of templates goes by how many are    *)
(* not yet on the stack.                                                   *)
(***************************************************************************)
EXTENDS Plugins, SequenceTheorems, FiniteSetTheorems, WellFoundedInduction, TLAPS

-----------------------------------------------------------------------------
(* Numbers and sequences.                                                  *)

(* A set of numbers that is closed under the next number has them all.     *)
LEMMA Induct ==
    ASSUME NEW n \in Nat, NEW T, 0 \in T, \A m \in 0 .. n - 1 : m \in T => m + 1 \in T
    PROVE  0 .. n \subseteq T
<1> DEFINE Missing == (0 .. n) \ T
<1> SUFFICES ASSUME Missing # {} PROVE FALSE
  OBVIOUS
<1>1. Missing \subseteq Nat
  OBVIOUS
<1>2. PICK m \in Missing : \A k \in Missing : ~ (<<k, m>> \in OpToRel(<, Nat))
  BY <1>1, WFMin, NatLessThanWellFounded, Zenon
<1>3. \A k \in Missing : ~ (k < m)
  BY <1>1, <1>2 DEF OpToRel
<1>4. m \in 0 .. n /\ m \notin T
  OBVIOUS
<1>5. m - 1 \in 0 .. n - 1
  BY <1>4
<1>6. m - 1 \in 0 .. n /\ m - 1 < m /\ (m - 1) + 1 = m
  BY <1>5
<1>7. m - 1 \in T
  BY <1>3, <1>6
<1> QED BY <1>4, <1>5, <1>6, <1>7

(* A set of numbers has a least one.                                       *)
LEMMA MinIn ==
    ASSUME NEW S, S \subseteq Nat, S # {}
    PROVE  Min(S) \in S
<1>1. PICK m \in S : \A k \in S : ~ (<<k, m>> \in OpToRel(<, Nat))
  BY WFMin, NatLessThanWellFounded, Zenon
<1>2. \A k \in S : m <= k
  <2> SUFFICES ASSUME NEW k \in S PROVE m <= k
    OBVIOUS
  <2>1. ~(k < m) /\ k \in Nat /\ m \in Nat
    BY <1>1 DEF OpToRel
  <2> QED BY <2>1
<1> QED BY <1>2 DEF Min

(* f goes from x on, n times, by g.                                        *)
Iterates(f, n, S, x, g) == f \in [0 .. n -> S] /\ f[0] = x /\ \A m \in 1 .. n : f[m] = g[m][f[m - 1]]

(* There is such a function.                                               *)
LEMMA Iterated ==
    ASSUME NEW n \in Nat, NEW S, NEW x \in S, NEW g \in [1 .. n -> [S -> S]]
    PROVE  \E f : Iterates(f, n, S, x, g)
<1> DEFINE Is(m, f) == f = [k \in 0 .. m |-> IF k = 0 THEN x ELSE g[k][f[k - 1]]]
           T == {m \in 0 .. n : \E f \in [0 .. m -> S] : Is(m, f)}
<1>1. 0 \in T
  <2> DEFINE f == [k \in 0 .. 0 |-> x]
  <2>1. f \in [0 .. 0 -> S] /\ Is(0, f) /\ 0 \in 0 .. n
    OBVIOUS
  <2> QED BY <2>1
<1>2. ASSUME NEW m \in 0 .. n - 1, m \in T PROVE m + 1 \in T
  <2>1. PICK f \in [0 .. m -> S] : Is(m, f)
    BY <1>2
  <2> DEFINE e == g[m + 1][f[m]]
             h == [k \in 0 .. m + 1 |-> IF k = m + 1 THEN e ELSE f[k]]
  <2>2. m + 1 \in 1 .. n /\ f[m] \in S
    OBVIOUS
  <2>3. e \in S
    BY <2>2
  <2>4. h \in [0 .. m + 1 -> S]
    BY <2>3
  <2>5. \A k \in 0 .. m : f[k] = IF k = 0 THEN x ELSE g[k][f[k - 1]]
    BY <2>1
  <2>6. \A k \in 0 .. m + 1 : h[k] = IF k = 0 THEN x ELSE g[k][h[k - 1]]
    <3> SUFFICES ASSUME NEW k \in 0 .. m + 1 PROVE h[k] = IF k = 0 THEN x ELSE g[k][h[k - 1]]
      OBVIOUS
    <3>1. CASE k = m + 1
      <4>1. h[k] = e /\ k # 0 /\ k - 1 = m /\ h[k - 1] = f[m]
        BY <3>1
      <4> QED BY <3>1, <4>1
    <3>2. CASE k # m + 1
      <4>1. k \in 0 .. m /\ h[k] = f[k] /\ (k # 0 => k - 1 \in 0 .. m /\ h[k - 1] = f[k - 1])
        BY <3>2
      <4> HIDE DEF h
      <4> QED BY <2>5, <4>1
    <3> QED BY <3>1, <3>2
  <2>7. Is(m + 1, h)
    <3>1. h = [k \in 0 .. m + 1 |-> h[k]]
      OBVIOUS
    <3> HIDE DEF h
    <3> QED BY <2>6, <3>1
  <2>8. m + 1 \in 0 .. n
    OBVIOUS
  <2> HIDE DEF h, Is
  <2> QED BY <2>4, <2>7, <2>8
<1>3. n \in T
  <2> HIDE DEF T
  <2>1. 0 .. n \subseteq T
    BY <1>1, <1>2, Induct
  <2> QED BY <2>1
<1>4. PICK f \in [0 .. n -> S] : Is(n, f)
  BY <1>3
<1>5. Iterates(f, n, S, x, g)
  BY <1>4 DEF Iterates
<1> QED BY <1>5

(* A sequence that is not empty is its front and its last element.         *)
LEMMA FrontFacts ==
    ASSUME NEW S, NEW s \in Seq(S), s # <<>>
    PROVE  /\ Front(s) \in Seq(S) /\ Last(s) \in S
           /\ Len(s) \in Nat \ {0} /\ Len(Front(s)) = Len(s) - 1
           /\ \A i \in 1 .. Len(s) - 1 : Front(s)[i] = s[i]
           /\ ToSet(s) = ToSet(Front(s)) \union {Last(s)}
<1>1. Len(s) \in Nat \ {0} /\ DOMAIN s = 1 .. Len(s)
  OBVIOUS
<1>2. Front(s) \in Seq(S) /\ Len(Front(s)) = Len(s) - 1 /\ \A i \in 1 .. Len(s) - 1 : Front(s)[i] = s[i]
  BY <1>1 DEF Front
<1>3. Last(s) \in S
  BY <1>1 DEF Last
<1>4. ToSet(s) = ToSet(Front(s)) \union {Last(s)}
  <2>1. DOMAIN Front(s) = 1 .. Len(s) - 1
    BY <1>1, <1>2
  <2>2. \A i \in 1 .. Len(s) : i = Len(s) \/ i \in 1 .. Len(s) - 1
    <3>1. \A n \in Nat : \A i \in 1 .. n : i = n \/ i \in 1 .. n - 1
      OBVIOUS
    <3> QED BY <1>1, <3>1
  <2>3. \A x : x \in ToSet(s) => x \in ToSet(Front(s)) \union {Last(s)}
    BY <1>1, <1>2, <2>1, <2>2 DEF ToSet, Last
  <2>4. \A x : x \in ToSet(Front(s)) \union {Last(s)} => x \in ToSet(s)
    <3>1. Len(s) \in DOMAIN s /\ \A i \in 1 .. Len(s) - 1 : i \in DOMAIN s
      BY <1>1
    <3> QED BY <1>2, <2>1, <3>1 DEF ToSet, Last
  <2> QED BY <2>3, <2>4
<1> QED BY <1>1, <1>2, <1>3, <1>4

LEMMA ToSetIn ==
    ASSUME NEW S, NEW s \in Seq(S)
    PROVE  ToSet(s) \subseteq S /\ \A x : x \in ToSet(s) <=> \E i \in 1 .. Len(s) : s[i] = x
BY DEF ToSet

(* What is named before what it is named by, of the plugins in a sequence. *)
Ordered(s, graph) ==
  \A i \in DOMAIN s : \A d \in ToSet(graph[s[i]]) :
    /\ d \in Plugin
    /\ d \in ToSet(s) => \E j \in 1 .. i - 1 : s[j] = d

LEMMA AppendFacts ==
    ASSUME NEW S, NEW s \in Seq(S), NEW e \in S
    PROVE  /\ Append(s, e) \in Seq(S) /\ Len(s) \in Nat /\ Len(Append(s, e)) = Len(s) + 1
           /\ Append(s, e)[Len(s) + 1] = e /\ \A i \in 1 .. Len(s) : Append(s, e)[i] = s[i]
           /\ ToSet(Append(s, e)) = ToSet(s) \union {e}
<1> DEFINE a == Append(s, e)
           n == Len(s)
<1>1. /\ a \in Seq(S) /\ n \in Nat /\ Len(a) = n + 1
      /\ a[n + 1] = e /\ \A i \in 1 .. n : a[i] = s[i]
  OBVIOUS
<1>2. DOMAIN s = 1 .. n /\ DOMAIN a = 1 .. n + 1
  BY <1>1
<1> HIDE DEF a, n
<1>3. \A x : x \in ToSet(a) => x \in ToSet(s) \union {e}
  <2>1. \A i \in 1 .. n + 1 : i = n + 1 \/ i \in 1 .. n
    BY <1>1
  <2> QED BY <1>1, <1>2, <2>1 DEF ToSet
<1>4. \A x : x \in ToSet(s) \union {e} => x \in ToSet(a)
  <2>1. n + 1 \in DOMAIN a /\ \A i \in 1 .. n : i \in DOMAIN a
    BY <1>1, <1>2
  <2> QED BY <1>1, <1>2, <2>1 DEF ToSet
<1>5. ToSet(a) = ToSet(s) \union {e}
  BY <1>3, <1>4
<1> QED BY <1>1, <1>5 DEF a, n

(* One more of an ordered sequence keeps the order of those taken so far.  *)
LEMMA OrderedNext ==
    ASSUME NEW S, NEW s \in Seq(S), NEW set, NEW graph, Ordered(s, graph),
           NEW n \in 0 .. Len(s) - 1, NEW t \in Seq(S), Ordered(t, graph), s[n + 1] \in set,
           \A x : x \in ToSet(t) <=> x \in set /\ \E i \in 1 .. n : s[i] = x
    PROVE  Ordered(Append(t, s[n + 1]), graph)
<1> DEFINE e == s[n + 1]
           a == Append(t, e)
<1>1. n + 1 \in 1 .. Len(s) /\ DOMAIN s = 1 .. Len(s) /\ Len(s) \in Nat /\ n \in Nat /\ e \in S
  OBVIOUS
<1>2. /\ a \in Seq(S) /\ Len(t) \in Nat /\ Len(a) = Len(t) + 1
      /\ a[Len(t) + 1] = e /\ \A i \in 1 .. Len(t) : a[i] = t[i]
      /\ ToSet(a) = ToSet(t) \union {e}
  BY <1>1, AppendFacts
<1>3. DOMAIN a = 1 .. Len(t) + 1 /\ DOMAIN t = 1 .. Len(t)
  BY <1>2
<1> HIDE DEF a
<1> SUFFICES ASSUME NEW i \in 1 .. Len(t) + 1, NEW d \in ToSet(graph[a[i]])
             PROVE  d \in Plugin /\ (d \in ToSet(a) => \E j \in 1 .. i - 1 : a[j] = d)
  BY <1>3 DEF Ordered, a
<1>4. CASE i = Len(t) + 1
  <2>1. a[i] = e
    BY <1>2, <1>4
  <2>2. d \in Plugin /\ (d \in ToSet(s) => \E j \in 1 .. n : s[j] = d)
    <3>1. d \in ToSet(graph[s[n + 1]]) /\ n + 1 \in DOMAIN s /\ (n + 1) - 1 = n
      BY <1>1, <2>1
    <3> QED BY <3>1 DEF Ordered
  <2>3. ASSUME d \in ToSet(a) PROVE \E j \in 1 .. i - 1 : a[j] = d
    <3>1. d \in ToSet(s) /\ d \in set
      <4>1. CASE d = e
        BY <1>1, <4>1, ToSetIn
      <4>2. CASE d \in ToSet(t)
        <5>1. PICK k \in 1 .. n : s[k] = d
          BY <4>2
        <5>2. k \in 1 .. Len(s)
          BY <1>1, <5>1
        <5> QED BY <4>2, <5>1, <5>2, ToSetIn
      <4> QED BY <1>2, <2>3, <4>1, <4>2
    <3>2. d \in ToSet(t)
      BY <2>2, <3>1
    <3>3. PICK j \in 1 .. Len(t) : t[j] = d
      BY <3>2, ToSetIn
    <3> QED BY <1>2, <1>4, <3>3
  <2> QED BY <2>2, <2>3
<1>5. CASE i # Len(t) + 1
  <2>1. i \in 1 .. Len(t) /\ a[i] = t[i] /\ i \in DOMAIN t
    BY <1>2, <1>3, <1>5
  <2>2. d \in Plugin /\ (d \in ToSet(t) => \E j \in 1 .. i - 1 : t[j] = d)
    BY <2>1 DEF Ordered
  <2>3. ASSUME d \in ToSet(a) PROVE d \in ToSet(t)
    <3>1. CASE d = e
      <4>1. t[i] \in ToSet(t)
        BY <2>1, ToSetIn
      <4>2. PICK m \in 1 .. n : s[m] = t[i]
        BY <4>1
      <4>3. m \in DOMAIN s /\ d \in ToSet(graph[s[m]]) /\ d \in ToSet(s)
        BY <1>1, <2>1, <4>2, <3>1, ToSetIn
      <4>4. PICK j \in 1 .. m - 1 : s[j] = d
        BY <4>3 DEF Ordered
      <4>5. j \in 1 .. n
        BY <1>1, <4>2, <4>4
      <4> QED BY <3>1, <4>4, <4>5
    <3> QED BY <1>2, <2>3, <3>1
  <2>4. ASSUME NEW j \in 1 .. i - 1, t[j] = d PROVE a[j] = d
    <3>1. j \in 1 .. Len(t)
      BY <2>1, <2>4, <1>2
    <3> QED BY <1>2, <2>4, <3>1
  <2> QED BY <2>2, <2>3, <2>4
<1> QED BY <1>4, <1>5

(* Kept returns those in the set, each of them, and in their order.        *)
LEMMA KeptFacts ==
    ASSUME NEW S, NEW s \in Seq(S), NEW set, NEW graph
    PROVE  /\ Kept(s, set) \in Seq(S)
           /\ ToSet(Kept(s, set)) = ToSet(s) \intersect set
           /\ Ordered(s, graph) => Ordered(Kept(s, set), graph)
<1> DEFINE n == Len(s)
           Is(f) == f = [m \in 0 .. Len(s) |-> IF m = 0 THEN <<>>
                           ELSE IF s[m] \in set THEN Append(f[m - 1], s[m]) ELSE f[m - 1]]
           kept == CHOOSE f : Is(f)
<1>1. n \in Nat /\ DOMAIN s = 1 .. n /\ \A m \in 1 .. n : s[m] \in S
  OBVIOUS
<1>2. \E f : Is(f)
  <2> DEFINE g == [m \in 1 .. n |-> [z \in Seq(S) |-> IF s[m] \in set THEN Append(z, s[m]) ELSE z]]
  <2>1. g \in [1 .. n -> [Seq(S) -> Seq(S)]] /\ <<>> \in Seq(S)
    BY <1>1
  <2>2. \A m \in 1 .. n, z \in Seq(S) : g[m][z] = IF s[m] \in set THEN Append(z, s[m]) ELSE z
    OBVIOUS
  <2> HIDE DEF g
  <2>3. PICK f : Iterates(f, n, Seq(S), <<>>, g)
    BY <1>1, <2>1, Iterated
  <2>4. ASSUME NEW m \in 0 .. n
        PROVE  f[m] = IF m = 0 THEN <<>> ELSE IF s[m] \in set THEN Append(f[m - 1], s[m]) ELSE f[m - 1]
    <3>1. CASE m = 0
      BY <2>3, <3>1 DEF Iterates
    <3>2. CASE m # 0
      <4>1. m \in 1 .. n /\ m - 1 \in 0 .. n
        BY <1>1, <3>2
      <4>2. f[m - 1] \in Seq(S) /\ f[m] = g[m][f[m - 1]]
        BY <2>3, <4>1 DEF Iterates
      <4> QED BY <2>2, <3>2, <4>1, <4>2
    <3> QED BY <3>1, <3>2
  <2>5. f = [m \in 0 .. n |-> f[m]]
    BY <2>3 DEF Iterates
  <2>6. Is(f)
    BY <2>4, <2>5
  <2> QED BY <2>6
<1>3. Is(kept) /\ Kept(s, set) = kept[n]
  <2>1. Is(kept)
    BY <1>2, Zenon
  <2>2. Kept(s, set) = kept[n]
    BY DEF Kept
  <2> QED BY <2>1, <2>2
<1>4. \A m \in 0 .. n : kept[m] = IF m = 0 THEN <<>>
                                  ELSE IF s[m] \in set THEN Append(kept[m - 1], s[m]) ELSE kept[m - 1]
  BY <1>3
<1> HIDE DEF kept, n, Is
<1> DEFINE T == {m \in 0 .. n : /\ kept[m] \in Seq(S)
                                /\ \A x : x \in ToSet(kept[m]) <=> x \in set /\ \E i \in 1 .. m : s[i] = x
                                /\ Ordered(s, graph) => Ordered(kept[m], graph)}
<1>5. 0 \in T
  <2>1. 0 \in 0 .. n /\ kept[0] = <<>>
    BY <1>1, <1>4
  <2>2. ToSet(<<>>) = {} /\ Ordered(<<>>, graph)
    BY DEF ToSet, Ordered
  <2>3. \A x : x \in ToSet(kept[0]) <=> x \in set /\ \E i \in 1 .. 0 : s[i] = x
    BY <2>1, <2>2
  <2>4. kept[0] \in Seq(S) /\ Ordered(kept[0], graph)
    BY <2>1, <2>2
  <2> QED BY <2>1, <2>3, <2>4
<1>6. ASSUME NEW m \in 0 .. n - 1, m \in T PROVE m + 1 \in T
  <2> DEFINE e == s[m + 1]
  <2>1. m \in 0 .. n /\ m + 1 \in 0 .. n /\ m + 1 \in 1 .. n /\ m + 1 # 0 /\ (m + 1) - 1 = m /\ e \in S
    BY <1>1
  <2>2. /\ kept[m] \in Seq(S)
        /\ \A x : x \in ToSet(kept[m]) <=> x \in set /\ \E i \in 1 .. m : s[i] = x
        /\ Ordered(s, graph) => Ordered(kept[m], graph)
    BY <1>6
  <2>3. kept[m + 1] = IF e \in set THEN Append(kept[m], e) ELSE kept[m]
    BY <1>4, <2>1
  <2>4. \A x : (\E i \in 1 .. m + 1 : s[i] = x) <=> (\E i \in 1 .. m : s[i] = x) \/ x = e
    <3>1. \A i : i \in 1 .. m + 1 <=> i \in 1 .. m \/ i = m + 1
      BY <2>1
    <3> QED BY <3>1
  <2> HIDE DEF e
  <2>5. CASE e \in set
    <3>1. kept[m + 1] \in Seq(S) /\ ToSet(kept[m + 1]) = ToSet(kept[m]) \union {e}
      BY <2>1, <2>2, <2>3, <2>5, AppendFacts
    <3>2. Ordered(s, graph) => Ordered(kept[m + 1], graph)
      <4> SUFFICES ASSUME Ordered(s, graph) PROVE Ordered(kept[m + 1], graph)
        OBVIOUS
      <4>1. m \in 0 .. Len(s) - 1 /\ s[m + 1] \in set
        BY <2>5 DEF e, n
      <4>2. Ordered(Append(kept[m], s[m + 1]), graph)
        BY <2>2, <4>1, OrderedNext
      <4> QED BY <2>3, <2>5, <4>2 DEF e
    <3>3. \A x : x \in ToSet(kept[m + 1]) <=> x \in set /\ \E i \in 1 .. m + 1 : s[i] = x
      BY <2>2, <2>4, <2>5, <3>1
    <3> QED BY <2>1, <3>1, <3>2, <3>3
  <2>6. CASE e \notin set
    <3>1. \A x : x \in ToSet(kept[m + 1]) <=> x \in set /\ \E i \in 1 .. m + 1 : s[i] = x
      BY <2>2, <2>3, <2>4, <2>6
    <3> QED BY <2>1, <2>2, <2>3, <2>6, <3>1
  <2> QED BY <2>5, <2>6
<1>7. n \in T
  <2> HIDE DEF T
  <2>1. 0 .. n \subseteq T
    BY <1>1, <1>5, <1>6, Induct
  <2> QED BY <1>1, <2>1
<1>8. \A x : x \in ToSet(s) <=> \E i \in 1 .. n : s[i] = x
  BY ToSetIn DEF n
<1>9. ToSet(kept[n]) = ToSet(s) \intersect set
  BY <1>7, <1>8
<1> QED BY <1>3, <1>7, <1>9

-----------------------------------------------------------------------------
(* The search for an order.                                                *)

Entries(found) == [node : found, left : Seq(found)]

Searches(found) ==
  [stack : Seq(Entries(found)), order : Seq(found), black : SUBSET found, skipped : SUBSET found,
   cycle : BOOLEAN, left : SUBSET found]

(* What is ordered has its dependencies behind it: they are black, so that *)
(* none of them is ordered any more.                                       *)
OrderDone(found, graph, z) ==
  \A i \in 1 .. Len(z.order) :
    /\ z.order[i] \in z.black /\ z.order[i] \notin Unmet(found, graph)
    /\ \A d \in ToSet(graph[z.order[i]]) :
         /\ d \in z.black
         /\ \A k \in 1 .. Len(z.order) : z.order[k] = d => \E j \in 1 .. i - 1 : z.order[j] = d

(* What is on the stack is there once and not black, and each of its       *)
(* dependencies is still left, black, next on the stack, or, for the top,  *)
(* one that is owed.                                                       *)
StackOpen(found, graph, z, owed) ==
  \A m \in 1 .. Len(z.stack) :
    /\ z.stack[m].node \notin z.black /\ z.stack[m].node \notin Unmet(found, graph)
    /\ \A k \in 1 .. Len(z.stack) : z.stack[k].node = z.stack[m].node => k = m
    /\ \A d \in ToSet(graph[z.stack[m].node]) :
         \/ d \in ToSet(z.stack[m].left)
         \/ d \in z.black
         \/ m + 1 <= Len(z.stack) /\ z.stack[m + 1].node = d
         \/ m = Len(z.stack) /\ d \in owed

SoundBut(found, graph, z, owed) ==
  /\ z \in Searches(found) /\ Unmet(found, graph) \subseteq z.skipped
  /\ OrderDone(found, graph, z) /\ StackOpen(found, graph, z, owed)

Sound(found, graph, z) == SoundBut(found, graph, z, {})

(* A plugin that is not unmet has all it depends on among those found.     *)
LEMMA MetIn ==
    ASSUME NEW found \in SUBSET Plugin, NEW graph \in [Plugin -> Seq(Nat)],
           NEW p \in found, p \notin Unmet(found, graph)
    PROVE  ToSet(graph[p]) \subseteq found /\ graph[p] \in Seq(found)
<1>1. ToSet(graph[p]) \subseteq found
  BY DEF Unmet
<1>2. graph[p] \in Seq(Nat) /\ \A i \in 1 .. Len(graph[p]) : graph[p][i] \in found
  BY <1>1 DEF ToSet
<1> DEFINE s == graph[p]
<1>3. s \in Seq(found)
  <2>1. s \in Seq(Nat) /\ \A i \in 1 .. Len(s) : s[i] \in found
    BY <1>2
  <2> HIDE DEF s
  <2>2. Len(s) \in Nat /\ s = [i \in 1 .. Len(s) |-> s[i]]
    BY <2>1
  <2>3. s \in [1 .. Len(s) -> found]
    BY <2>1, <2>2
  <2> QED BY <2>2, <2>3, SeqDef
<1> QED BY <1>1, <1>3

LEMMA StartSound ==
    ASSUME NEW found \in SUBSET Plugin, NEW graph \in [Plugin -> Seq(Nat)]
    PROVE  Sound(found, graph, Start(found, graph))
<1> DEFINE z == Start(found, graph)
<1>1. /\ z.stack = <<>> /\ z.order = <<>> /\ z.skipped = Unmet(found, graph)
      /\ z \in Searches(found)
  BY DEF Start, Searches, Unmet
<1>2. Len(z.stack) = 0 /\ Len(z.order) = 0
  BY <1>1
<1> HIDE DEF z
<1> QED BY <1>1, <1>2 DEF Sound, SoundBut, OrderDone, StackOpen, z

LEMMA TopFacts ==
    ASSUME NEW found, NEW graph, NEW owed, NEW z, SoundBut(found, graph, z, owed), z.stack # <<>>
    PROVE  /\ Len(z.stack) \in Nat \ {0} /\ Last(z.stack) = z.stack[Len(z.stack)]
           /\ Last(z.stack) \in Entries(found) /\ Last(z.stack).node \in found
           /\ Last(z.stack).left \in Seq(found)
           /\ OnStack(z) = {z.stack[m].node : m \in 1 .. Len(z.stack)}
<1>1. z.stack \in Seq(Entries(found))
  BY DEF SoundBut, Searches
<1>2. Len(z.stack) \in Nat \ {0} /\ DOMAIN z.stack = 1 .. Len(z.stack)
  BY <1>1
<1>3. Last(z.stack) = z.stack[Len(z.stack)] /\ Last(z.stack) \in Entries(found)
  BY <1>1, <1>2 DEF Last
<1>4. OnStack(z) = {z.stack[m].node : m \in 1 .. Len(z.stack)}
  BY <1>2 DEF OnStack, ToSet
<1> QED BY <1>2, <1>3, <1>4 DEF Entries

(* The stack is left, and what was on it may turn black.                   *)
LEMMA LeaveSound ==
    ASSUME NEW found \in SUBSET Plugin, NEW graph \in [Plugin -> Seq(Nat)], NEW z, Sound(found, graph, z), 
           NEW y \in Searches(found), y.stack = <<>>, y.order = z.order,
           z.black \subseteq y.black, z.skipped \subseteq y.skipped
    PROVE  Sound(found, graph, y)
<1>1. Len(y.stack) = 0
  OBVIOUS
<1>2. OrderDone(found, graph, y)
  BY DEF Sound, SoundBut, OrderDone
<1>3. StackOpen(found, graph, y, {})
  BY <1>1 DEF StackOpen
<1> QED BY <1>2, <1>3 DEF Sound, SoundBut

(* A dependency is taken off the top, which owes it then.                  *)
LEMMA PopSound ==
    ASSUME NEW found \in SUBSET Plugin, NEW graph \in [Plugin -> Seq(Nat)], NEW z, Sound(found, graph, z),
           z.stack # <<>>, Last(z.stack).left # <<>>
    PROVE  /\ SoundBut(found, graph, Pop(z), {Last(Last(z.stack).left)})
           /\ Pop(z).black = z.black /\ Pop(z).skipped = z.skipped /\ OnStack(Pop(z)) = OnStack(z)
           /\ Last(Last(z.stack).left) \in found
<1> DEFINE y == Pop(z)
           n == Len(z.stack)
           dep == Last(z.stack[n].left)
<1>1. /\ n \in Nat \ {0} /\ Last(z.stack) = z.stack[n] /\ z.stack[n] \in Entries(found)
      /\ z.stack[n].node \in found /\ z.stack[n].left \in Seq(found)
      /\ OnStack(z) = {z.stack[m].node : m \in 1 .. n}
  BY TopFacts DEF Sound
<1>2. z \in Searches(found) /\ z.stack \in Seq(Entries(found)) /\ DOMAIN z.stack = 1 .. n
  BY DEF Sound, SoundBut, Searches
<1>3. /\ Front(z.stack[n].left) \in Seq(found) /\ dep \in found
      /\ ToSet(z.stack[n].left) = ToSet(Front(z.stack[n].left)) \union {dep}
  BY <1>1, FrontFacts
<1> DEFINE top == [z.stack[n] EXCEPT !.left = Front(z.stack[n].left)]
           stack == [z.stack EXCEPT ![n] = top]
<1>4. y = [z EXCEPT !.stack = stack]
  BY DEF Pop
<1>5. top \in Entries(found) /\ top.node = z.stack[n].node /\ top.left = Front(z.stack[n].left)
  BY <1>1, <1>3 DEF Entries
<1> HIDE DEF top
<1>6. stack \in Seq(Entries(found)) /\ Len(stack) = n /\ stack[n] = top
      /\ \A m \in 1 .. n : m # n => stack[m] = z.stack[m]
  BY <1>1, <1>2, <1>5
<1> HIDE DEF stack
<1>7. /\ y \in Searches(found) /\ y.stack = stack /\ y.order = z.order /\ y.black = z.black
      /\ y.skipped = z.skipped
  BY <1>2, <1>4, <1>6 DEF Searches
<1> HIDE DEF y, dep
<1>8. \A m \in 1 .. n : stack[m].node = z.stack[m].node
  BY <1>5, <1>6
<1>9. OrderDone(found, graph, y)
  BY <1>7 DEF Sound, SoundBut, OrderDone
<1>10. StackOpen(found, graph, y, {dep})
  <2> SUFFICES ASSUME NEW m \in 1 .. n
               PROVE  /\ stack[m].node \notin z.black /\ stack[m].node \notin Unmet(found, graph)
                      /\ \A k \in 1 .. n : stack[k].node = stack[m].node => k = m
                      /\ \A d \in ToSet(graph[stack[m].node]) :
                           \/ d \in ToSet(stack[m].left)
                           \/ d \in z.black
                           \/ m + 1 <= n /\ stack[m + 1].node = d
                           \/ m = n /\ d \in {dep}
    BY <1>6, <1>7 DEF StackOpen
  <2>1. /\ z.stack[m].node \notin z.black /\ z.stack[m].node \notin Unmet(found, graph)
        /\ \A k \in 1 .. n : z.stack[k].node = z.stack[m].node => k = m
        /\ \A d \in ToSet(graph[z.stack[m].node]) :
             \/ d \in ToSet(z.stack[m].left)
             \/ d \in z.black
             \/ m + 1 <= n /\ z.stack[m + 1].node = d
    BY DEF Sound, SoundBut, StackOpen
  <2>2. ASSUME NEW d \in ToSet(graph[stack[m].node])
        PROVE  \/ d \in ToSet(stack[m].left)
               \/ d \in z.black
               \/ m + 1 <= n /\ stack[m + 1].node = d
               \/ m = n /\ d \in {dep}
    <3>1. CASE d \in ToSet(z.stack[m].left)
      <4>1. CASE m = n
        <5>1. d \in ToSet(Front(z.stack[n].left)) \/ d = dep
          BY <1>3, <3>1, <4>1 DEF dep
        <5> QED BY <1>5, <1>6, <4>1, <5>1
      <4>2. CASE m # n
        BY <1>6, <3>1, <4>2
      <4> QED BY <4>1, <4>2
    <3>2. CASE d \in z.black
      BY <3>2
    <3>3. CASE m + 1 <= n /\ z.stack[m + 1].node = d
      <4>1. m + 1 \in 1 .. n
        BY <3>3, <1>1
      <4> QED BY <1>8, <3>3, <4>1
    <3> QED BY <1>8, <2>1, <3>1, <3>2, <3>3
  <2>3. \A k \in 1 .. n : stack[k].node = stack[m].node => k = m
    BY <1>8, <2>1
  <2> QED BY <1>8, <2>1, <2>2, <2>3
<1>11. SoundBut(found, graph, y, {dep})
  BY <1>7, <1>9, <1>10 DEF Sound, SoundBut
<1>12. OnStack(y) = OnStack(z)
  <2>1. DOMAIN y.stack = 1 .. n
    BY <1>6, <1>7
  <2>2. OnStack(y) = {stack[m].node : m \in 1 .. n}
    BY <1>7, <2>1 DEF OnStack, ToSet
  <2> QED BY <1>1, <1>8, <2>2
<1> QED BY <1>1, <1>3, <1>7, <1>11, <1>12 DEF y, dep

LEMMA LastOr == \A n \in Nat : \A k \in 1 .. n + 1 : k = n + 1 \/ k \in 1 .. n
OBVIOUS

LEMMA Former == \A n \in Nat \ {0} : \A k \in 1 .. n - 1 : k \in 1 .. n /\ k # n
OBVIOUS

(* A plugin that nobody went over yet is put on top.                       *)
LEMMA PushSound ==
    ASSUME NEW found \in SUBSET Plugin, NEW graph \in [Plugin -> Seq(Nat)], NEW p \in found, NEW z,
           SoundBut(found, graph, z, {p}), p \notin z.skipped, p \notin z.black, p \notin OnStack(z)
    PROVE  Sound(found, graph, Push(z, p, graph))
<1> DEFINE y == Push(z, p, graph)
           n == Len(z.stack)
           e == [node |-> p, left |-> graph[p]]
<1>1. /\ z \in Searches(found) /\ z.stack \in Seq(Entries(found)) /\ n \in Nat
      /\ DOMAIN z.stack = 1 .. n
  BY DEF SoundBut, Searches
<1>2. p \notin Unmet(found, graph)
  BY DEF SoundBut
<1>3. graph[p] \in Seq(found) /\ e \in Entries(found)
  BY <1>2, MetIn DEF Entries
<1>4. /\ Append(z.stack, e) \in Seq(Entries(found)) /\ Len(Append(z.stack, e)) = n + 1
      /\ Append(z.stack, e)[n + 1] = e /\ \A m \in 1 .. n : Append(z.stack, e)[m] = z.stack[m]
  BY <1>1, <1>3, AppendFacts
<1> DEFINE stack == Append(z.stack, e)
<1>5. y = [z EXCEPT !.stack = stack]
  BY DEF Push
<1> HIDE DEF stack
<1>6. /\ y \in Searches(found) /\ y.stack = stack /\ y.order = z.order /\ y.black = z.black
      /\ y.skipped = z.skipped
  BY <1>1, <1>4, <1>5 DEF Searches, stack
<1>7. stack[n + 1] = e /\ Len(stack) = n + 1 /\ \A m \in 1 .. n : stack[m] = z.stack[m]
  BY <1>4 DEF stack
<1> HIDE DEF y
<1>8. \A m \in 1 .. n : z.stack[m].node # p
  BY <1>1 DEF OnStack, ToSet
<1>9. OrderDone(found, graph, y)
  <2>1. OrderDone(found, graph, z)
    BY DEF SoundBut
  <2>2. y.order = z.order /\ y.black = z.black
    BY <1>6
  <2> DEFINE Done(order, black) ==
               \A i \in 1 .. Len(order) :
                 /\ order[i] \in black /\ order[i] \notin Unmet(found, graph)
                 /\ \A d \in ToSet(graph[order[i]]) :
                      /\ d \in black
                      /\ \A k \in 1 .. Len(order) : order[k] = d => \E j \in 1 .. i - 1 : order[j] = d
  <2>3. Done(z.order, z.black)
    BY <2>1 DEF OrderDone
  <2>4. Done(y.order, y.black)
    <3> HIDE DEF Done
    <3> QED BY <2>2, <2>3
  <2> QED BY <2>4 DEF OrderDone
<1>10. StackOpen(found, graph, y, {})
  <2> SUFFICES ASSUME NEW m \in 1 .. n + 1
               PROVE  /\ stack[m].node \notin z.black /\ stack[m].node \notin Unmet(found, graph)
                      /\ \A k \in 1 .. n + 1 : stack[k].node = stack[m].node => k = m
                      /\ \A d \in ToSet(graph[stack[m].node]) :
                           \/ d \in ToSet(stack[m].left)
                           \/ d \in z.black
                           \/ m + 1 <= n + 1 /\ stack[m + 1].node = d
                           \/ m = n + 1 /\ d \in {}
    BY <1>6, <1>7 DEF StackOpen
  <2>1. \A k \in 1 .. n + 1 : k = n + 1 \/ k \in 1 .. n
    BY <1>1, LastOr
  <2>2. CASE m = n + 1
    <3>1. stack[m].node = p /\ stack[m].left = graph[p]
      BY <1>7, <2>2
    <3>2. \A k \in 1 .. n + 1 : stack[k].node = stack[m].node => k = m
      BY <1>7, <1>8, <2>1, <2>2, <3>1
    <3> QED BY <1>2, <3>1, <3>2
  <2>3. CASE m \in 1 .. n
    <3>1. stack[m] = z.stack[m]
      BY <1>7, <2>3
    <3>2. /\ z.stack[m].node \notin z.black /\ z.stack[m].node \notin Unmet(found, graph)
          /\ \A k \in 1 .. n : z.stack[k].node = z.stack[m].node => k = m
          /\ \A d \in ToSet(graph[z.stack[m].node]) :
               \/ d \in ToSet(z.stack[m].left)
               \/ d \in z.black
               \/ m + 1 <= n /\ z.stack[m + 1].node = d
               \/ m = n /\ d \in {p}
      BY <2>3 DEF SoundBut, StackOpen
    <3>3. \A k \in 1 .. n + 1 : stack[k].node = stack[m].node => k = m
      <4> SUFFICES ASSUME NEW k \in 1 .. n + 1, stack[k].node = stack[m].node PROVE k = m
        OBVIOUS
      <4>1. CASE k = n + 1
        BY <1>7, <1>8, <2>3, <3>1, <4>1
      <4>2. CASE k \in 1 .. n
        BY <1>7, <3>1, <3>2, <4>2
      <4> QED BY <2>1, <4>1, <4>2
    <3>4. ASSUME NEW d \in ToSet(graph[stack[m].node])
          PROVE  d \in ToSet(stack[m].left) \/ d \in z.black \/ (m + 1 <= n + 1 /\ stack[m + 1].node = d)
      <4>1. CASE m + 1 <= n /\ z.stack[m + 1].node = d
        <5>1. m + 1 \in 1 .. n /\ m + 1 <= n + 1
          BY <1>1, <2>3, <4>1
        <5> QED BY <1>7, <4>1, <5>1
      <4>2. CASE m = n /\ d = p
        BY <1>1, <1>7, <4>2
      <4> QED BY <3>1, <3>2, <4>1, <4>2
    <3> QED BY <3>1, <3>2, <3>3, <3>4
  <2> QED BY <2>1, <2>2, <2>3
<1> QED BY <1>6, <1>9, <1>10 DEF Sound, SoundBut, y

(* The top has nothing left: all it depends on is black.                   *)
LEMMA FinaliseSound ==
    ASSUME NEW found \in SUBSET Plugin, NEW graph \in [Plugin -> Seq(Nat)], NEW z, Sound(found, graph, z),
           z.stack # <<>>, Last(z.stack).left = <<>>
    PROVE  Sound(found, graph, Finalise(z))
<1> DEFINE y == Finalise(z)
           n == Len(z.stack)
           p == z.stack[n].node
           l == Len(z.order)
           stack == Front(z.stack)
           order == Append(z.order, p)
<1>1. /\ n \in Nat \ {0} /\ Last(z.stack) = z.stack[n] /\ p \in found
      /\ z \in Searches(found) /\ z.stack \in Seq(Entries(found)) /\ z.order \in Seq(found)
      /\ l \in Nat /\ z.black \subseteq found
  <2>1. n \in Nat \ {0} /\ Last(z.stack) = z.stack[n] /\ Last(z.stack).node \in found
    BY TopFacts DEF Sound
  <2>2. /\ z \in Searches(found) /\ z.stack \in Seq(Entries(found)) /\ z.order \in Seq(found)
        /\ z.black \subseteq found
    BY DEF Sound, SoundBut, Searches
  <2> QED BY <2>1, <2>2
<1>2. /\ stack \in Seq(Entries(found)) /\ Len(stack) = n - 1
      /\ \A m \in 1 .. n - 1 : stack[m] = z.stack[m]
  BY <1>1, FrontFacts
<1>3. /\ order \in Seq(found) /\ Len(order) = l + 1 /\ order[l + 1] = p
      /\ \A i \in 1 .. l : order[i] = z.order[i]
  BY <1>1, AppendFacts
<1>4. y = [z EXCEPT !.stack = stack, !.black = z.black \union {p}, !.order = order]
  BY <1>1 DEF Finalise
<1> HIDE DEF stack, order, p
<1>5. /\ y \in Searches(found) /\ y.stack = stack /\ y.order = order /\ y.black = z.black \union {p}
      /\ y.skipped = z.skipped
  <2> DEFINE black == z.black \union {p}
  <2>1. black \in SUBSET found
    BY <1>1
  <2> HIDE DEF black
  <2>2. y = [z EXCEPT !.stack = stack, !.black = black, !.order = order]
    BY <1>4 DEF black
  <2>3. y \in Searches(found) /\ y.stack = stack /\ y.order = order /\ y.black = black /\ y.skipped = z.skipped
    BY <1>1, <1>2, <1>3, <2>1, <2>2 DEF Searches
  <2> QED BY <2>3 DEF black
<1> HIDE DEF y
<1>6. /\ p \notin z.black /\ p \notin Unmet(found, graph)
      /\ \A k \in 1 .. n : z.stack[k].node = p => k = n
      /\ \A d \in ToSet(graph[p]) : d \in z.black
  <2>1. n \in 1 .. n /\ ~(n + 1 <= n) /\ ToSet(z.stack[n].left) = {}
    <3>1. ToSet(<<>>) = {}
      BY DEF ToSet
    <3> QED BY <1>1, <3>1
  <2> QED BY <2>1 DEF Sound, SoundBut, StackOpen, p
<1>7. \A i \in 1 .. l :
        /\ z.order[i] \in z.black /\ z.order[i] \notin Unmet(found, graph)
        /\ \A d \in ToSet(graph[z.order[i]]) :
             /\ d \in z.black
             /\ \A k \in 1 .. l : z.order[k] = d => \E j \in 1 .. i - 1 : z.order[j] = d
  BY DEF Sound, SoundBut, OrderDone
<1>8. OrderDone(found, graph, y)
  <2> DEFINE Done(i) ==
        /\ order[i] \in y.black /\ order[i] \notin Unmet(found, graph)
        /\ \A d \in ToSet(graph[order[i]]) :
             /\ d \in y.black
             /\ \A k \in 1 .. l + 1 : order[k] = d => \E j \in 1 .. i - 1 : order[j] = d
  <2> SUFFICES ASSUME NEW i \in 1 .. l + 1 PROVE Done(i)
    <3> SUFFICES ASSUME NEW i \in 1 .. Len(y.order)
                 PROVE  /\ y.order[i] \in y.black /\ y.order[i] \notin Unmet(found, graph)
                        /\ \A d \in ToSet(graph[y.order[i]]) :
                             /\ d \in y.black
                             /\ \A k \in 1 .. Len(y.order) :
                                  y.order[k] = d => \E j \in 1 .. i - 1 : y.order[j] = d
      BY Zenon DEF OrderDone
    <3>1. y.order = order /\ Len(y.order) = l + 1
      BY <1>3, <1>5
    <3> HIDE DEF l, n
    <3>2. Done(i)
      BY <3>1
    <3> QED BY <3>1, <3>2, Zenon
  <2>1. \A k \in 1 .. l + 1 : k = l + 1 \/ k \in 1 .. l
    BY <1>1, LastOr
  <2>2. CASE i = l + 1
    <3>1. order[i] = p
      BY <1>3, <2>2
    <3>2. ASSUME NEW d \in ToSet(graph[order[i]]), NEW k \in 1 .. l + 1, order[k] = d
          PROVE  \E j \in 1 .. i - 1 : order[j] = d
      <4>1. d # p
        BY <1>6, <3>1, <3>2
      <4>2. k # l + 1
        BY <1>3, <3>2, <4>1
      <4>3. k \in 1 .. i - 1
        BY <1>1, <2>1, <2>2, <4>2
      <4> QED BY <3>2, <4>3
    <3> QED BY <1>5, <1>6, <3>1, <3>2
  <2>3. CASE i \in 1 .. l
    <3>1. order[i] = z.order[i] /\ i \in Nat
      BY <1>3, <2>3
    <3>2. ASSUME NEW d \in ToSet(graph[order[i]]), NEW k \in 1 .. l + 1, order[k] = d
          PROVE  \E j \in 1 .. i - 1 : order[j] = d
      <4>1. d \in z.black /\ d # p
        BY <1>6, <1>7, <2>3, <3>1, <3>2
      <4>2. k \in 1 .. l /\ z.order[k] = d
        BY <1>3, <2>1, <3>2, <4>1
      <4>3. PICK j \in 1 .. i - 1 : z.order[j] = d
        BY <1>7, <2>3, <3>1, <4>2
      <4>4. j \in 1 .. l
        BY <1>1, <2>3, <4>3
      <4> QED BY <1>3, <4>3, <4>4
    <3> QED BY <1>5, <1>7, <2>3, <3>1, <3>2
  <2> QED BY <2>1, <2>2, <2>3
<1>9. StackOpen(found, graph, y, {})
  <2> SUFFICES ASSUME NEW m \in 1 .. n - 1
               PROVE  /\ stack[m].node \notin y.black /\ stack[m].node \notin Unmet(found, graph)
                      /\ \A k \in 1 .. n - 1 : stack[k].node = stack[m].node => k = m
                      /\ \A d \in ToSet(graph[stack[m].node]) :
                           \/ d \in ToSet(stack[m].left)
                           \/ d \in y.black
                           \/ m + 1 <= n - 1 /\ stack[m + 1].node = d
                           \/ m = n - 1 /\ d \in {}
    BY <1>2, <1>5 DEF StackOpen
  <2>1. stack[m] = z.stack[m] /\ m \in 1 .. n /\ m # n /\ \A k \in 1 .. n - 1 : k \in 1 .. n
    BY <1>1, <1>2, Former
  <2>2. /\ z.stack[m].node \notin z.black /\ z.stack[m].node \notin Unmet(found, graph)
        /\ \A k \in 1 .. n : z.stack[k].node = z.stack[m].node => k = m
        /\ \A d \in ToSet(graph[z.stack[m].node]) :
             \/ d \in ToSet(z.stack[m].left)
             \/ d \in z.black
             \/ m + 1 <= n /\ z.stack[m + 1].node = d
    BY <2>1 DEF Sound, SoundBut, StackOpen
  <2>3. z.stack[m].node # p
    BY <1>6, <2>1
  <2>4. \A k \in 1 .. n - 1 : stack[k].node = stack[m].node => k = m
    BY <1>2, <2>1, <2>2
  <2>5. ASSUME NEW d \in ToSet(graph[stack[m].node])
        PROVE  d \in ToSet(stack[m].left) \/ d \in y.black \/ (m + 1 <= n - 1 /\ stack[m + 1].node = d)
    <3>1. CASE m + 1 <= n /\ z.stack[m + 1].node = d
      <4>1. CASE m + 1 = n
        BY <1>5, <3>1, <4>1 DEF p
      <4>2. CASE m + 1 # n
        <5>1. m + 1 \in 1 .. n - 1 /\ m + 1 <= n - 1
          BY <1>1, <3>1, <4>2
        <5> QED BY <1>2, <3>1, <5>1
      <4> QED BY <4>1, <4>2
    <3> QED BY <1>5, <2>1, <2>2, <3>1
  <2> QED BY <1>5, <2>1, <2>2, <2>3, <2>4, <2>5
<1>10. Unmet(found, graph) \subseteq y.skipped
  BY <1>5 DEF Sound, SoundBut
<1>11. Sound(found, graph, y)
  BY <1>5, <1>8, <1>9, <1>10 DEF Sound, SoundBut
<1> QED BY <1>11 DEF y

LEMMA TurnSound ==
    ASSUME NEW found \in SUBSET Plugin, NEW graph \in [Plugin -> Seq(Nat)], NEW z, Sound(found, graph, z),
           z.stack # <<>>
    PROVE  Sound(found, graph, Turn(z, graph))
<1> DEFINE top == Last(z.stack)
           dep == Last(top.left)
<1>1. CASE top.left = <<>>
  <2>1. Turn(z, graph) = Finalise(z)
    BY <1>1 DEF Turn
  <2> QED BY <1>1, <2>1, FinaliseSound
<1>2. CASE top.left # <<>>
  <2>1. z \in Searches(found) /\ Last(z.stack).node \in found /\ OnStack(z) \subseteq found
    <3>1. z \in Searches(found) /\ z.stack \in Seq(Entries(found))
      BY DEF Sound, SoundBut, Searches
    <3>2. \A m \in 1 .. Len(z.stack) : z.stack[m].node \in found
      <4>1. \A m \in 1 .. Len(z.stack) : z.stack[m] \in Entries(found)
        BY <3>1
      <4> QED BY <4>1 DEF Entries
    <3>3. Last(z.stack).node \in found /\ OnStack(z) = {z.stack[m].node : m \in 1 .. Len(z.stack)}
      BY TopFacts DEF Sound
    <3> QED BY <3>1, <3>2, <3>3
  <2>2. CASE dep \in z.skipped
    <3>1. Turn(z, graph) = Unwind(z)
      BY <1>2, <2>2 DEF Turn
    <3> DEFINE y == Unwind(z)
               skipped == z.skipped \union {Last(z.stack).node}
               black == z.black \union OnStack(z)
               none == <<>>
    <3>5. /\ z.skipped \subseteq skipped /\ z.black \subseteq black
          /\ skipped \in SUBSET found /\ black \in SUBSET found /\ none \in Seq(Entries(found))
      BY <2>1 DEF Searches
    <3>6. y = [z EXCEPT !.skipped = skipped, !.black = black, !.stack = none]
      BY DEF Unwind
    <3>7. none = <<>>
      OBVIOUS
    <3> HIDE DEF skipped, black, none, y
    <3>2. /\ y \in Searches(found) /\ y.stack = <<>> /\ y.order = z.order
          /\ z.black \subseteq y.black /\ z.skipped \subseteq y.skipped
      BY <2>1, <3>5, <3>6, <3>7 DEF Searches
    <3>3. Sound(found, graph, y)
      BY <3>2, LeaveSound
    <3> QED BY <3>1, <3>3 DEF y
  <2>3. CASE dep \notin z.skipped /\ dep \in OnStack(z)
    <3> DEFINE y == [z EXCEPT !.cycle = TRUE, !.stack = <<>>]
    <3>1. dep \notin z.black
      <4>1. OnStack(z) = {z.stack[m].node : m \in 1 .. Len(z.stack)}
        BY TopFacts DEF Sound
      <4>2. PICK m \in 1 .. Len(z.stack) : dep = z.stack[m].node
        BY <2>3, <4>1
      <4> QED BY <4>2 DEF Sound, SoundBut, StackOpen
    <3>2. Turn(z, graph) = y
      BY <1>2, <2>3, <3>1 DEF Turn
    <3>3. /\ y \in Searches(found) /\ y.stack = <<>> /\ y.order = z.order
          /\ z.black \subseteq y.black /\ z.skipped \subseteq y.skipped
      <4>1. z \in Searches(found) /\ <<>> \in Seq(Entries(found))
        BY <2>1
      <4> QED BY <4>1 DEF Searches
    <3> HIDE DEF y
    <3>4. Sound(found, graph, y)
      BY <3>3, LeaveSound
    <3> QED BY <3>2, <3>4
  <2> DEFINE y == Pop(z)
  <2>4. /\ SoundBut(found, graph, y, {dep}) /\ dep \in found
        /\ y.black = z.black /\ y.skipped = z.skipped /\ OnStack(y) = OnStack(z)
    BY <1>2, PopSound
  <2>5. CASE dep \notin z.skipped /\ dep \notin OnStack(z) /\ dep \in z.black
    <3>1. Turn(z, graph) = y
      BY <1>2, <2>5 DEF Turn
    <3> HIDE DEF y, dep
    <3>2. Sound(found, graph, y)
      <4>1. StackOpen(found, graph, y, {})
        BY <2>4, <2>5 DEF SoundBut, StackOpen
      <4> QED BY <2>4, <4>1 DEF Sound, SoundBut
    <3> QED BY <3>1, <3>2
  <2>6. CASE dep \notin z.skipped /\ dep \notin OnStack(z) /\ dep \notin z.black
    <3>1. Turn(z, graph) = Push(y, dep, graph)
      BY <1>2, <2>6 DEF Turn
    <3> HIDE DEF y, dep
    <3>2. Sound(found, graph, Push(y, dep, graph))
      BY <2>4, <2>6, PushSound
    <3> QED BY <3>1, <3>2
  <2> QED BY <2>2, <2>3, <2>5, <2>6
<1> QED BY <1>1, <1>2

LEMMA NextNameSound ==
    ASSUME NEW found \in SUBSET Plugin, NEW graph \in [Plugin -> Seq(Nat)], NEW z, Sound(found, graph, z),
           z.stack = <<>>, z.left # {}
    PROVE  Sound(found, graph, NextName(z, graph))
<1> DEFINE name == Min(z.left)
           rest == [z EXCEPT !.left = @ \ {name}]
<1>1. z \in Searches(found) /\ z.left \subseteq found /\ found \subseteq Nat
  BY PluginAssumption DEF Sound, SoundBut, Searches
<1>2. name \in found
  BY <1>1, MinIn
<1>3. /\ rest \in Searches(found) /\ rest.stack = <<>> /\ rest.order = z.order
      /\ rest.black = z.black /\ rest.skipped = z.skipped
  BY <1>1 DEF Searches
<1>4. NextName(z, graph) = IF name \in z.skipped \union z.black THEN rest ELSE Push(rest, name, graph)
  BY DEF NextName
<1> HIDE DEF name, rest
<1>5. Sound(found, graph, rest)
  BY <1>3, LeaveSound
<1>6. ASSUME name \notin z.skipped, name \notin z.black PROVE Sound(found, graph, Push(rest, name, graph))
  <2>1. Len(rest.stack) = 0 /\ OnStack(rest) = {}
    BY <1>3 DEF OnStack, ToSet
  <2>2. SoundBut(found, graph, rest, {name})
    BY <1>5, <2>1 DEF Sound, SoundBut, StackOpen
  <2> QED BY <1>2, <1>3, <1>6, <2>1, <2>2, PushSound
<1> QED BY <1>4, <1>5, <1>6

LEMMA StepSound ==
    ASSUME NEW found \in SUBSET Plugin, NEW graph \in [Plugin -> Seq(Nat)], NEW z, Sound(found, graph, z)
    PROVE  Sound(found, graph, Step(z, graph))
BY TurnSound, NextNameSound DEF Step

LEMMA TurnsNat ==
    ASSUME NEW found \in SUBSET Plugin, NEW graph \in [Plugin -> Seq(Nat)]
    PROVE  /\ IsFiniteSet(found) /\ IsFiniteSet(Declarations(found, graph))
           /\ Turns(found, graph) \in Nat
<1> DEFINE of == [p \in found |-> {p} \X DOMAIN graph[p]]
           all == {{p} \X DOMAIN graph[p] : p \in found}
<1>1. IsFiniteSet(found)
  BY PluginAssumption, FS_Subset
<1>2. \A p \in found : IsFiniteSet({p} \X DOMAIN graph[p])
  <2> SUFFICES ASSUME NEW p \in found PROVE IsFiniteSet({p} \X DOMAIN graph[p])
    OBVIOUS
  <2>1. graph[p] \in Seq(Nat)
    OBVIOUS
  <2>2. DOMAIN graph[p] = 1 .. Len(graph[p]) /\ Len(graph[p]) \in Nat
    BY <2>1
  <2>3. IsFiniteSet(1 .. Len(graph[p]))
    BY <2>2, FS_Interval
  <2>4. IsFiniteSet({p})
    BY FS_Singleton
  <2> QED BY <2>2, <2>3, <2>4, FS_Product
<1>3. of \in Surjection(found, all)
  BY DEF Surjection
<1>4. IsFiniteSet(all)
  BY <1>1, <1>3, FS_Surjection
<1>5. \A t \in all : IsFiniteSet(t)
  BY <1>2
<1>6. IsFiniteSet(UNION all)
  <2> HIDE DEF all
  <2> QED BY <1>4, <1>5, FS_UNION
<1>7. IsFiniteSet(Declarations(found, graph))
  BY <1>6 DEF Declarations
<1>8. Cardinality(found) \in Nat /\ Cardinality(Declarations(found, graph)) \in Nat
  BY <1>1, <1>7, FS_CardinalityType
<1> QED BY <1>1, <1>7, <1>8 DEF Turns

(* f goes through the turns of the search.                                 *)
IsRun(found, graph, f) ==
  f = [m \in 0 .. Turns(found, graph) |->
         IF m = 0 THEN Start(found, graph) ELSE Step(f[m - 1], graph)]

LEMMA EndRuns ==
    ASSUME NEW found \in SUBSET Plugin, NEW graph \in [Plugin -> Seq(Nat)]
    PROVE  \E f : IsRun(found, graph, f) /\ End(found, graph) = f[Turns(found, graph)]
<1> DEFINE n == Turns(found, graph)
           Z == {z \in Searches(found) : Sound(found, graph, z)}
           x == Start(found, graph)
           Is(f) == f = [m \in 0 .. Turns(found, graph) |->
                           IF m = 0 THEN Start(found, graph) ELSE Step(f[m - 1], graph)]
           after == CHOOSE f : Is(f)
           g == [m \in 1 .. n |-> [z \in Z |-> Step(z, graph)]]
<1>1. n \in Nat
  BY TurnsNat
<1>2. x \in Z /\ \A z \in Z : Step(z, graph) \in Z
  BY StartSound, StepSound DEF Sound, SoundBut
<1>3. g \in [1 .. n -> [Z -> Z]] /\ \A m \in 1 .. n, z \in Z : g[m][z] = Step(z, graph)
  BY <1>2
<1>4. \E f : Is(f)
  <2>1. PICK f : Iterates(f, n, Z, x, g)
    <3> HIDE DEF n, Z, x, g
    <3> QED BY <1>1, <1>2, <1>3, Iterated
  <2> HIDE DEF g, Z
  <2>2. ASSUME NEW m \in 0 .. n PROVE f[m] = IF m = 0 THEN x ELSE Step(f[m - 1], graph)
    <3>1. CASE m = 0
      BY <2>1, <3>1 DEF Iterates
    <3>2. CASE m # 0
      <4>1. m \in 1 .. n /\ m - 1 \in 0 .. n
        BY <1>1, <3>2
      <4>2. f[m - 1] \in Z /\ f[m] = g[m][f[m - 1]]
        BY <2>1, <4>1 DEF Iterates
      <4> QED BY <1>3, <3>2, <4>1, <4>2
    <3> QED BY <3>1, <3>2
  <2>3. f = [m \in 0 .. n |-> f[m]]
    BY <2>1 DEF Iterates
  <2>4. Is(f)
    BY <2>2, <2>3
  <2> QED BY <2>4
<1>5. Is(after)
  BY <1>4, Zenon
<1>6. End(found, graph) = after[n]
  BY DEF End
<1> HIDE DEF after
<1> QED BY <1>5, <1>6 DEF IsRun

(* The search is sound after every turn.                                   *)
LEMMA TurnsSound ==
    ASSUME NEW found \in SUBSET Plugin, NEW graph \in [Plugin -> Seq(Nat)], NEW f, IsRun(found, graph, f),
           NEW m \in 0 .. Turns(found, graph)
    PROVE  Sound(found, graph, f[m])
<1> DEFINE n == Turns(found, graph)
           T == {k \in 0 .. n : Sound(found, graph, f[k])}
<1>1. n \in Nat
  BY TurnsNat
<1>2. \A k \in 0 .. n : f[k] = IF k = 0 THEN Start(found, graph) ELSE Step(f[k - 1], graph)
  BY DEF IsRun
<1> HIDE DEF n
<1>3. 0 \in T
  BY <1>1, <1>2, StartSound
<1>4. ASSUME NEW k \in 0 .. n - 1, k \in T PROVE k + 1 \in T
  <2>1. k + 1 \in 0 .. n /\ k + 1 # 0 /\ (k + 1) - 1 = k
    BY <1>1
  <2>2. f[k + 1] = Step(f[k], graph)
    BY <1>2, <2>1
  <2> QED BY <1>4, <2>1, <2>2, StepSound
<1>5. 0 .. n \subseteq T
  <2> HIDE DEF T
  <2> QED BY <1>1, <1>3, <1>4, Induct
<1> QED BY <1>5 DEF n

(* The search is sound where it ends.                                      *)
LEMMA EndSound ==
    ASSUME NEW found \in SUBSET Plugin, NEW graph \in [Plugin -> Seq(Nat)]
    PROVE  Sound(found, graph, End(found, graph))
<1>1. PICK f : IsRun(found, graph, f) /\ End(found, graph) = f[Turns(found, graph)]
  BY EndRuns
<1>2. Turns(found, graph) \in Nat
  BY TurnsNat
<1>3. Turns(found, graph) \in 0 .. Turns(found, graph)
  BY <1>2
<1> QED BY <1>1, <1>3, TurnsSound

(* The search gets over.  Every turn before takes something off that is    *)
(* yet to come: a name, a plugin that is not black, or a dependency of one *)
(* that is not black and, if it is on the stack, that is left there.       *)
Over(z) == z.stack = <<>> /\ (z.left = {} \/ z.cycle)

ToCome(found, graph, z) ==
  {d \in Declarations(found, graph) :
     /\ d[1] \notin z.black
     /\ \A m \in 1 .. Len(z.stack) : z.stack[m].node = d[1] => d[2] \in 1 .. Len(z.stack[m].left)}

(* No more is left of a plugin on the stack than it declares.              *)
Short(graph, z) ==
  \A m \in 1 .. Len(z.stack) : Len(z.stack[m].left) <= Len(graph[z.stack[m].node])

Less(found, graph, y, z) ==
  /\ y.left \subseteq z.left /\ z.black \subseteq y.black
  /\ ToCome(found, graph, y) \subseteq ToCome(found, graph, z)
  /\ \/ y.left # z.left \/ y.black # z.black
     \/ ToCome(found, graph, y) # ToCome(found, graph, z)

LEMMA PopLess ==
    ASSUME NEW found \in SUBSET Plugin, NEW graph \in [Plugin -> Seq(Nat)], NEW z, Sound(found, graph, z),
           Short(graph, z), z.stack # <<>>, Last(z.stack).left # <<>>
    PROVE  Short(graph, Pop(z)) /\ Less(found, graph, Pop(z), z)
<1> DEFINE y == Pop(z)
           n == Len(z.stack)
           top == [z.stack[n] EXCEPT !.left = Front(z.stack[n].left)]
           stack == [z.stack EXCEPT ![n] = top]
           l == Len(z.stack[n].left)
           node == z.stack[n].node
<1>1. /\ n \in Nat \ {0} /\ Last(z.stack) = z.stack[n] /\ z.stack[n] \in Entries(found)
      /\ node \in found /\ z.stack[n].left \in Seq(found)
  BY TopFacts DEF Sound
<1>2. z \in Searches(found) /\ z.stack \in Seq(Entries(found)) /\ DOMAIN z.stack = 1 .. n
  BY DEF Sound, SoundBut, Searches
<1>3. l \in Nat \ {0} /\ Front(z.stack[n].left) \in Seq(found) /\ Len(Front(z.stack[n].left)) = l - 1
  BY <1>1, FrontFacts
<1>4. top \in Entries(found) /\ top.node = node /\ Len(top.left) = l - 1
  BY <1>1, <1>3 DEF Entries
<1>5. y = [z EXCEPT !.stack = stack]
  BY DEF Pop
<1> HIDE DEF top
<1>6. /\ stack \in Seq(Entries(found)) /\ Len(stack) = n /\ stack[n] = top
      /\ \A m \in 1 .. n : m # n => stack[m] = z.stack[m]
  BY <1>1, <1>2, <1>4
<1> HIDE DEF stack
<1>7. y.stack = stack /\ y.black = z.black /\ y.left = z.left
  BY <1>2, <1>5 DEF Searches
<1>8. l <= Len(graph[node]) /\ n \in 1 .. n
  <2>1. n \in 1 .. n
    BY <1>1
  <2> QED BY <2>1 DEF Short
<1> HIDE DEF y
<1>9. graph[node] \in Seq(Nat) /\ Len(graph[node]) \in Nat /\ DOMAIN graph[node] = 1 .. Len(graph[node])
  <2>1. graph[node] \in Seq(Nat)
    BY <1>1
  <2> QED BY <2>1
<1>10. \A m \in 1 .. n : stack[m].node = z.stack[m].node
  BY <1>4, <1>6
<1> HIDE DEF node, l
<1>11. Short(graph, y)
  <2> SUFFICES ASSUME NEW m \in 1 .. n PROVE Len(stack[m].left) <= Len(graph[stack[m].node])
    BY <1>6, <1>7 DEF Short
  <2>1. CASE m = n
    BY <1>3, <1>4, <1>6, <1>8, <1>9, <2>1
  <2>2. CASE m # n
    BY <1>6, <2>2 DEF Short
  <2> QED BY <2>1, <2>2
<1>12. ToCome(found, graph, y) \subseteq ToCome(found, graph, z)
  <2> SUFFICES ASSUME NEW d \in ToCome(found, graph, y), NEW m \in 1 .. n, z.stack[m].node = d[1]
               PROVE  d[2] \in 1 .. Len(z.stack[m].left)
    BY <1>7 DEF ToCome
  <2>1. d[2] \in 1 .. Len(stack[m].left)
    BY <1>6, <1>7, <1>10 DEF ToCome
  <2>2. CASE m = n
    <3>1. d[2] \in 1 .. l - 1
      BY <1>4, <1>6, <2>1, <2>2
    <3>2. d[2] \in 1 .. l
      BY <1>3, <3>1
    <3> QED BY <2>2, <3>2 DEF l
  <2>3. CASE m # n
    BY <1>6, <2>1, <2>3
  <2> QED BY <2>2, <2>3
<1>13. <<node, l>> \in ToCome(found, graph, z)
  <2>1. l \in DOMAIN graph[node] /\ l \in 1 .. l
    BY <1>3, <1>8, <1>9
  <2>2. <<node, l>> \in Declarations(found, graph)
    <3>1. <<node, l>> \in {node} \X DOMAIN graph[node]
      BY <2>1
    <3> QED BY <1>1, <3>1 DEF Declarations, node
  <2>3. /\ node \notin z.black
        /\ \A m \in 1 .. n : z.stack[m].node = node => m = n
    BY <1>8 DEF Sound, SoundBut, StackOpen, node
  <2> QED BY <2>1, <2>2, <2>3 DEF ToCome, l
<1>14. <<node, l>> \notin ToCome(found, graph, y)
  <2> SUFFICES ASSUME <<node, l>> \in ToCome(found, graph, y) PROVE FALSE
    OBVIOUS
  <2>1. stack[n].node = node /\ Len(stack[n].left) = l - 1
    BY <1>4, <1>6
  <2>2. l \in 1 .. l - 1
    BY <1>6, <1>7, <1>8, <2>1 DEF ToCome
  <2> QED BY <1>3, <2>2
<1> QED BY <1>7, <1>11, <1>12, <1>13, <1>14 DEF Less, y

LEMMA PushLess ==
    ASSUME NEW found \in SUBSET Plugin, NEW graph \in [Plugin -> Seq(Nat)], NEW z \in Searches(found),
           NEW p \in found, p \notin Unmet(found, graph), Short(graph, z)
    PROVE  /\ Short(graph, Push(z, p, graph))
           /\ Push(z, p, graph).left = z.left /\ Push(z, p, graph).black = z.black
           /\ ToCome(found, graph, Push(z, p, graph)) \subseteq ToCome(found, graph, z)
<1> DEFINE y == Push(z, p, graph)
           n == Len(z.stack)
           e == [node |-> p, left |-> graph[p]]
           stack == Append(z.stack, e)
<1>1. z.stack \in Seq(Entries(found)) /\ n \in Nat /\ e \in Entries(found) /\ graph[p] \in Seq(Nat)
  <2>1. z.stack \in Seq(Entries(found))
    BY DEF Searches
  <2>2. graph[p] \in Seq(found)
    BY MetIn
  <2>3. e \in Entries(found)
    BY <2>2 DEF Entries
  <2>4. graph[p] \in Seq(Nat)
    OBVIOUS
  <2> QED BY <2>1, <2>3, <2>4
<1>2. /\ Len(stack) = n + 1 /\ stack[n + 1] = e /\ \A m \in 1 .. n : stack[m] = z.stack[m]
  BY <1>1, AppendFacts
<1>3. y.stack = stack /\ y.black = z.black /\ y.left = z.left
  BY DEF Push, Searches
<1>4. e.node = p /\ e.left = graph[p] /\ Len(graph[p]) \in Nat
  BY <1>1
<1> HIDE DEF y, e, stack
<1>5. Short(graph, y)
  <2> SUFFICES ASSUME NEW m \in 1 .. n + 1 PROVE Len(stack[m].left) <= Len(graph[stack[m].node])
    BY <1>2, <1>3 DEF Short
  <2>1. CASE m = n + 1
    BY <1>2, <1>4, <2>1
  <2>2. CASE m \in 1 .. n
    BY <1>2, <2>2 DEF Short
  <2> QED BY <1>1, <2>1, <2>2, LastOr
<1>6. ToCome(found, graph, y) \subseteq ToCome(found, graph, z)
  <2> SUFFICES ASSUME NEW d \in ToCome(found, graph, y), NEW m \in 1 .. n, z.stack[m].node = d[1]
               PROVE  d[2] \in 1 .. Len(z.stack[m].left)
    BY <1>3 DEF ToCome
  <2>1. m \in 1 .. n + 1
    BY <1>1
  <2> QED BY <1>2, <1>3, <2>1 DEF ToCome
<1> QED BY <1>3, <1>5, <1>6 DEF y

(* Plugins that turn black take what they declare with them.               *)
LEMMA BlackLess ==
    ASSUME NEW found, NEW graph, NEW z, NEW y, z.black \subseteq y.black, y.left = z.left,
           z.stack # <<>>, Last(z.stack).node \in y.black, Last(z.stack).node \notin z.black,
           \A d : d \notin y.black =>
             \A m \in 1 .. Len(z.stack) : z.stack[m].node = d =>
               m \in 1 .. Len(y.stack) /\ y.stack[m] = z.stack[m]
    PROVE  Less(found, graph, y, z)
<1>1. ToCome(found, graph, y) \subseteq ToCome(found, graph, z)
  <2> SUFFICES ASSUME NEW d \in ToCome(found, graph, y), NEW m \in 1 .. Len(z.stack), z.stack[m].node = d[1]
               PROVE  d[2] \in 1 .. Len(z.stack[m].left)
    BY DEF ToCome
  <2>1. d[1] \notin y.black
    BY DEF ToCome
  <2>2. m \in 1 .. Len(y.stack) /\ y.stack[m] = z.stack[m]
    BY <2>1
  <2> QED BY <2>2 DEF ToCome
<1> QED BY <1>1 DEF Less

LEMMA TurnLess ==
    ASSUME NEW found \in SUBSET Plugin, NEW graph \in [Plugin -> Seq(Nat)], NEW z, Sound(found, graph, z),
           Short(graph, z), z.stack # <<>>
    PROVE  /\ Short(graph, Turn(z, graph))
           /\ Over(Turn(z, graph)) \/ Less(found, graph, Turn(z, graph), z)
<1> DEFINE top == Last(z.stack)
           dep == Last(top.left)
           n == Len(z.stack)
           t == Turn(z, graph)
<1>1. /\ n \in Nat \ {0} /\ top = z.stack[n] /\ top.node \in found
      /\ OnStack(z) = {z.stack[m].node : m \in 1 .. n}
      /\ z \in Searches(found) /\ z.stack \in Seq(Entries(found))
  <2>1. z \in Searches(found) /\ z.stack \in Seq(Entries(found))
    BY DEF Sound, SoundBut, Searches
  <2> QED BY <2>1, TopFacts DEF Sound
<1>2. /\ n \in 1 .. n /\ top.node \in OnStack(z)
      /\ \A m \in 1 .. n : z.stack[m].node \notin z.black
      /\ \A m \in 1 .. n : z.stack[m].node = top.node => m = n
  <2>1. n \in 1 .. n
    BY <1>1
  <2> QED BY <1>1, <2>1 DEF Sound, SoundBut, StackOpen
<1>3. CASE top.left = <<>>
  <2> DEFINE y == Finalise(z)
             stack == Front(z.stack)
             black == z.black \union {top.node}
             order == Append(z.order, top.node)
  <2>1. t = y
    BY <1>3 DEF Turn
  <2>2. Len(stack) = n - 1 /\ \A m \in 1 .. n - 1 : stack[m] = z.stack[m]
    BY <1>1, FrontFacts
  <2>3. y = [z EXCEPT !.stack = stack, !.black = black, !.order = order]
    BY DEF Finalise
  <2> HIDE DEF stack, order, t, y
  <2>4. y.stack = stack /\ y.black = black /\ y.left = z.left
    BY <1>1, <2>3 DEF Searches
  <2>5. \A d : d \notin y.black =>
          \A m \in 1 .. n : z.stack[m].node = d => m \in 1 .. Len(y.stack) /\ y.stack[m] = z.stack[m]
    <3> SUFFICES ASSUME NEW m \in 1 .. n, z.stack[m].node \notin y.black
                 PROVE  m \in 1 .. n - 1
      BY <2>2, <2>4
    <3>1. m # n
      BY <1>1, <2>4
    <3> QED BY <1>1, <3>1
  <2>6. Less(found, graph, y, z)
    BY <1>1, <1>2, <2>4, <2>5, BlackLess
  <2>7. Short(graph, y)
    <3>1. \A m \in 1 .. n - 1 : m \in 1 .. n
      BY <1>1
    <3> QED BY <2>2, <2>4, <3>1 DEF Short
  <2> QED BY <2>1, <2>6, <2>7 DEF t
<1>4. CASE top.left # <<>>
  <2>1. CASE dep \in z.skipped
    <3> DEFINE y == Unwind(z)
               skipped == z.skipped \union {top.node}
               black == z.black \union OnStack(z)
               none == <<>>
    <3>1. t = y
      BY <1>4, <2>1 DEF Turn
    <3>2. y = [z EXCEPT !.skipped = skipped, !.black = black, !.stack = none] /\ Len(none) = 0
      BY DEF Unwind
    <3> HIDE DEF skipped, black, none, t, y
    <3>3. y.stack = none /\ y.black = black /\ y.left = z.left
      BY <1>1, <3>2 DEF Searches
    <3>4. Less(found, graph, y, z)
      <4>1. \A m \in 1 .. n : z.stack[m].node \in y.black
        BY <1>1, <3>3 DEF black
      <4>2. z.black \subseteq y.black
        BY <3>3 DEF black
      <4>3. \A d : d \notin y.black =>
              \A m \in 1 .. n : z.stack[m].node = d => m \in 1 .. Len(y.stack) /\ y.stack[m] = z.stack[m]
        BY <4>1
      <4>4. top.node \in y.black /\ top.node \notin z.black
        BY <1>1, <1>2, <4>1
      <4> QED BY <3>3, <4>2, <4>3, <4>4, BlackLess
    <3>5. Short(graph, y)
      BY <3>2, <3>3 DEF Short
    <3> QED BY <3>1, <3>4, <3>5 DEF t
  <2>2. CASE dep \notin z.skipped /\ dep \in OnStack(z)
    <3> DEFINE none == <<>>
               y == [z EXCEPT !.cycle = TRUE, !.stack = none]
    <3>1. dep \notin z.black
      BY <1>1, <1>2, <2>2
    <3>2. t = y /\ none = <<>> /\ Len(none) = 0
      BY <1>4, <2>2, <3>1 DEF Turn
    <3> HIDE DEF t, none
    <3>3. y.stack = none /\ y.cycle
      BY <1>1 DEF Searches
    <3> HIDE DEF y
    <3>4. Over(y) /\ Short(graph, y)
      BY <3>2, <3>3 DEF Over, Short
    <3> QED BY <3>2, <3>4 DEF t
  <2> DEFINE y == Pop(z)
  <2>3. Short(graph, y) /\ Less(found, graph, y, z)
    BY <1>4, PopLess
  <2>4. /\ y \in Searches(found) /\ dep \in found
        /\ y.black = z.black /\ y.skipped = z.skipped /\ OnStack(y) = OnStack(z)
        /\ Unmet(found, graph) \subseteq z.skipped
    BY <1>4, PopSound DEF Sound, SoundBut
  <2>5. CASE dep \notin z.skipped /\ dep \notin OnStack(z) /\ dep \in z.black
    <3>1. t = y
      BY <1>4, <2>5 DEF Turn
    <3> QED BY <2>3, <3>1
  <2>6. CASE dep \notin z.skipped /\ dep \notin OnStack(z) /\ dep \notin z.black
    <3> DEFINE x == Push(y, dep, graph)
    <3>1. t = x
      BY <1>4, <2>6 DEF Turn
    <3> HIDE DEF t, y, dep
    <3>2. dep \notin Unmet(found, graph)
      BY <2>4, <2>6
    <3>3. /\ Short(graph, x) /\ x.left = y.left /\ x.black = y.black
          /\ ToCome(found, graph, x) \subseteq ToCome(found, graph, y)
      BY <2>3, <2>4, <3>2, PushLess
    <3> HIDE DEF x
    <3>4. Less(found, graph, x, z)
      BY <2>3, <3>3 DEF Less
    <3> QED BY <3>1, <3>3, <3>4 DEF t
  <2> QED BY <2>1, <2>2, <2>5, <2>6
<1> QED BY <1>3, <1>4

LEMMA NextNameLess ==
    ASSUME NEW found \in SUBSET Plugin, NEW graph \in [Plugin -> Seq(Nat)], NEW z, Sound(found, graph, z),
           z.stack = <<>>, z.left # {}
    PROVE  Short(graph, NextName(z, graph)) /\ Less(found, graph, NextName(z, graph), z)
<1> DEFINE name == Min(z.left)
           rest == [z EXCEPT !.left = @ \ {name}]
           y == NextName(z, graph)
<1>1. z \in Searches(found) /\ z.left \subseteq found /\ found \subseteq Nat /\ Unmet(found, graph) \subseteq z.skipped
  BY PluginAssumption DEF Sound, SoundBut, Searches
<1>2. name \in z.left
  BY <1>1, MinIn
<1>3. /\ rest \in Searches(found) /\ rest.stack = <<>> /\ rest.black = z.black /\ rest.left = z.left \ {name}
  BY <1>1 DEF Searches
<1>4. y = IF name \in z.skipped \union z.black THEN rest ELSE Push(rest, name, graph)
  BY DEF NextName
<1> HIDE DEF name, rest, y
<1>5. Short(graph, rest) /\ ToCome(found, graph, rest) \subseteq ToCome(found, graph, z)
  <2>1. Len(rest.stack) = 0 /\ Len(z.stack) = 0
    BY <1>3
  <2> QED BY <1>3, <2>1 DEF Short, ToCome
<1>6. CASE name \in z.skipped \union z.black
  BY <1>2, <1>3, <1>4, <1>5, <1>6 DEF Less, y
<1>7. CASE name \notin z.skipped \union z.black
  <2> DEFINE x == Push(rest, name, graph)
  <2>1. name \in found /\ name \notin Unmet(found, graph)
    BY <1>1, <1>2, <1>7
  <2>2. /\ Short(graph, x) /\ x.left = rest.left /\ x.black = rest.black
        /\ ToCome(found, graph, x) \subseteq ToCome(found, graph, rest)
    <3>1. rest \in Searches(found) /\ Short(graph, rest)
      BY <1>3, <1>5
    <3> QED BY <2>1, <3>1, PushLess
  <2>3. y = x
    BY <1>4, <1>7
  <2> HIDE DEF x
  <2>4. Less(found, graph, x, z)
    BY <1>2, <1>3, <1>5, <2>2 DEF Less
  <2> QED BY <2>2, <2>3, <2>4 DEF y
<1> QED BY <1>6, <1>7 DEF y

(* How much is yet to come. *)
Rest(found, graph, z) ==
  Cardinality(z.left) + Cardinality(found \ z.black) + Cardinality(ToCome(found, graph, z))

LEMMA RestNat ==
    ASSUME NEW found \in SUBSET Plugin, NEW graph \in [Plugin -> Seq(Nat)], NEW z \in Searches(found)
    PROVE  /\ IsFiniteSet(z.left) /\ IsFiniteSet(found \ z.black) /\ IsFiniteSet(ToCome(found, graph, z))
           /\ Cardinality(z.left) \in Nat /\ Cardinality(found \ z.black) \in Nat
           /\ Cardinality(ToCome(found, graph, z)) \in Nat /\ Rest(found, graph, z) \in Nat
<1>1. IsFiniteSet(found) /\ IsFiniteSet(Declarations(found, graph))
  BY TurnsNat
<1>2. /\ z.left \in SUBSET found /\ found \ z.black \in SUBSET found
      /\ ToCome(found, graph, z) \in SUBSET Declarations(found, graph)
  BY DEF Searches, ToCome
<1>3. IsFiniteSet(z.left) /\ IsFiniteSet(found \ z.black) /\ IsFiniteSet(ToCome(found, graph, z))
  BY <1>1, <1>2, FS_Subset
<1>4. /\ Cardinality(z.left) \in Nat /\ Cardinality(found \ z.black) \in Nat
      /\ Cardinality(ToCome(found, graph, z)) \in Nat
  BY <1>3, FS_CardinalityType
<1> QED BY <1>3, <1>4 DEF Rest

LEMMA RestLess ==
    ASSUME NEW found \in SUBSET Plugin, NEW graph \in [Plugin -> Seq(Nat)],
           NEW y \in Searches(found), NEW z \in Searches(found), Less(found, graph, y, z)
    PROVE  Rest(found, graph, y) < Rest(found, graph, z)
<1> DEFINE a == z.left
           b == found \ z.black
           c == ToCome(found, graph, z)
           d == y.left
           e == found \ y.black
           f == ToCome(found, graph, y)
<1>1. /\ IsFiniteSet(a) /\ IsFiniteSet(b) /\ IsFiniteSet(c)
      /\ Cardinality(a) \in Nat /\ Cardinality(b) \in Nat /\ Cardinality(c) \in Nat
      /\ Cardinality(d) \in Nat /\ Cardinality(e) \in Nat /\ Cardinality(f) \in Nat
  BY RestNat
<1>2. /\ d \in SUBSET a /\ e \in SUBSET b /\ f \in SUBSET c
      /\ d # a \/ e # b \/ f # c
  <2>1. y.black \subseteq found /\ z.black \subseteq found
    BY DEF Searches
  <2> QED BY <2>1 DEF Less
<1> HIDE DEF a, b, c, d, e, f
<1>3. /\ Cardinality(d) <= Cardinality(a) /\ (Cardinality(a) = Cardinality(d) => a = d)
      /\ Cardinality(e) <= Cardinality(b) /\ (Cardinality(b) = Cardinality(e) => b = e)
      /\ Cardinality(f) <= Cardinality(c) /\ (Cardinality(c) = Cardinality(f) => c = f)
  BY <1>1, <1>2, FS_Subset
<1> QED BY <1>1, <1>2, <1>3 DEF Rest, a, b, c, d, e, f

(***************************************************************************)
(* The search for an order is over when its result is taken: every turn    *)
(* uses up a name, a plugin or a dependency, and there are no more of them *)
(* than the turns that are counted, whatever the manifests declare.        *)
(***************************************************************************)
THEOREM SearchIsOver ==
    ASSUME NEW found \in SUBSET Plugin, NEW graph \in [Plugin -> Seq(Nat)]
    PROVE  Ended(found, graph)
<1> DEFINE n == Turns(found, graph)
<1>1. PICK f : IsRun(found, graph, f) /\ End(found, graph) = f[n]
  BY EndRuns
<1>2. n \in Nat
  BY TurnsNat
<1>3. /\ \A k \in 0 .. n : f[k] = IF k = 0 THEN Start(found, graph) ELSE Step(f[k - 1], graph)
      /\ \A k \in 0 .. n : Sound(found, graph, f[k]) /\ f[k] \in Searches(found)
  <2>1. \A k \in 0 .. n : Sound(found, graph, f[k])
    BY <1>1, TurnsSound
  <2> QED BY <1>1, <2>1 DEF IsRun, Sound, SoundBut
<1> DEFINE T == {k \in 0 .. n : /\ Short(graph, f[k])
                                /\ Over(f[k]) \/ Rest(found, graph, f[k]) <= n - k}
<1>4. 0 \in T
  <2> DEFINE z == Start(found, graph)
  <2>1. f[0] = z /\ 0 \in 0 .. n
    BY <1>2, <1>3
  <2>2. z.stack = <<>> /\ z.left = found /\ z.black = {}
    BY DEF Start
  <2> HIDE DEF z
  <2>3. Len(z.stack) = 0
    BY <2>2
  <2>4. ToCome(found, graph, z) = Declarations(found, graph) /\ found \ z.black = found
    BY <2>2, <2>3 DEF ToCome
  <2>5. Short(graph, z)
    BY <2>3 DEF Short
  <2>6. Rest(found, graph, z) = n
    <3>1. Cardinality(found) \in Nat /\ Cardinality(Declarations(found, graph)) \in Nat
      BY TurnsNat, FS_CardinalityType
    <3> QED BY <2>2, <2>4, <3>1 DEF Rest, Turns
  <2> HIDE DEF n
  <2> QED BY <1>2, <2>1, <2>5, <2>6
<1>5. ASSUME NEW k \in 0 .. n - 1, k \in T PROVE k + 1 \in T
  <2> HIDE DEF n
  <2> DEFINE z == f[k]
             y == f[k + 1]
  <2>1. k \in 0 .. n /\ k + 1 \in 0 .. n /\ k + 1 # 0 /\ (k + 1) - 1 = k
    BY <1>2
  <2>2. /\ y = Step(z, graph) /\ Sound(found, graph, z)
        /\ y \in Searches(found) /\ z \in Searches(found)
    BY <1>3, <2>1
  <2>3. Short(graph, z) /\ (Over(z) \/ Rest(found, graph, z) <= n - k)
    BY <1>5
  <2> HIDE DEF y, z
  <2>4. CASE Over(z)
    <3>1. y = z
      BY <2>2, <2>4 DEF Over, Step
    <3>2. Short(graph, y) /\ Over(y)
      BY <2>3, <2>4, <3>1
    <3> QED BY <2>1, <3>2 DEF y
  <2>5. CASE ~Over(z)
    <3>1. Short(graph, y) /\ (Over(y) \/ Less(found, graph, y, z))
      <4>1. CASE z.stack # <<>>
        BY <2>2, <2>3, <4>1, TurnLess DEF Step
      <4>2. CASE z.stack = <<>>
        BY <2>2, <2>5, <4>2, NextNameLess DEF Step, Over
      <4> QED BY <4>1, <4>2
    <3>2. ASSUME Less(found, graph, y, z) PROVE Rest(found, graph, y) <= n - (k + 1)
      <4>1. Rest(found, graph, y) < Rest(found, graph, z)
        BY <2>2, <3>2, RestLess
      <4>2. Rest(found, graph, y) \in Nat /\ Rest(found, graph, z) \in Nat
        BY <2>2, RestNat
      <4> QED BY <1>2, <2>3, <2>5, <4>1, <4>2
    <3> QED BY <2>1, <3>1, <3>2 DEF y
  <2> QED BY <2>4, <2>5
<1>6. n \in T
  <2> HIDE DEF T, n
  <2>1. 0 .. n \subseteq T
    BY <1>2, <1>4, <1>5, Induct
  <2> QED BY <1>2, <2>1
<1> DEFINE z == f[n]
<1>7. Over(z)
  <2>1. /\ Short(graph, z) /\ (Over(z) \/ Rest(found, graph, z) <= n - n)
        /\ z \in Searches(found) /\ Sound(found, graph, z)
    BY <1>2, <1>3, <1>6
  <2> HIDE DEF z, n
  <2>2. CASE Rest(found, graph, z) <= n - n
    <3>1. /\ IsFiniteSet(z.left) /\ IsFiniteSet(found \ z.black)
          /\ Cardinality(z.left) = 0 /\ Cardinality(found \ z.black) = 0
      <4>1. n - n = 0
        BY <1>2
      <4>2. /\ IsFiniteSet(z.left) /\ IsFiniteSet(found \ z.black)
            /\ Cardinality(z.left) \in Nat /\ Cardinality(found \ z.black) \in Nat
            /\ Cardinality(ToCome(found, graph, z)) \in Nat
        BY <2>1, RestNat
      <4> QED BY <2>2, <4>1, <4>2 DEF Rest
    <3>2. z.left = {} /\ found \ z.black = {}
      BY <3>1, FS_EmptySet
    <3>3. ASSUME z.stack # <<>> PROVE FALSE
      <4>1. /\ Len(z.stack) \in Nat \ {0} /\ Last(z.stack) = z.stack[Len(z.stack)]
            /\ Last(z.stack).node \in found
        BY <2>1, <3>3, TopFacts DEF Sound
      <4>2. Len(z.stack) \in 1 .. Len(z.stack)
        BY <4>1
      <4>3. z.stack[Len(z.stack)].node \notin z.black
        BY <2>1, <4>2 DEF Sound, SoundBut, StackOpen
      <4> QED BY <3>2, <4>1, <4>3
    <3> QED BY <3>2, <3>3 DEF Over
  <2> QED BY <2>1, <2>2
<1> QED BY <1>1, <1>7 DEF Ended, Over

(* What is sorted has what it depends on before it.                        *)
LEMMA SortedOrdered ==
    ASSUME NEW found \in SUBSET Plugin, NEW graph \in [Plugin -> Seq(Nat)]
    PROVE  Sorted(found, graph).order \in Seq(found) /\ Ordered(Sorted(found, graph).order, graph)
<1> DEFINE z == End(found, graph)
<1>1. Sound(found, graph, z)
  BY EndSound
<1>2. Sorted(found, graph).order = Kept(z.order, found \ z.skipped)
  BY DEF Sorted
<1> HIDE DEF z
<1>3. z.order \in Seq(found) /\ DOMAIN z.order = 1 .. Len(z.order)
  BY <1>1 DEF Sound, SoundBut, Searches
<1>4. Ordered(z.order, graph)
  <2> SUFFICES ASSUME NEW i \in 1 .. Len(z.order), NEW d \in ToSet(graph[z.order[i]])
               PROVE  d \in Plugin /\ (d \in ToSet(z.order) => \E j \in 1 .. i - 1 : z.order[j] = d)
    BY <1>3 DEF Ordered
  <2>1. z.order[i] \in found /\ z.order[i] \notin Unmet(found, graph)
    BY <1>1, <1>3 DEF Sound, SoundBut, OrderDone
  <2>2. d \in found
    BY <2>1, MetIn
  <2>3. \A k \in 1 .. Len(z.order) : z.order[k] = d => \E j \in 1 .. i - 1 : z.order[j] = d
    BY <1>1 DEF Sound, SoundBut, OrderDone
  <2> QED BY <1>3, <2>2, <2>3, ToSetIn
<1> QED BY <1>2, <1>3, <1>4, KeptFacts

-----------------------------------------------------------------------------
(* The invariant.                                                          *)

Updates == {"install", "update", "update --all"}

(* What the steps of a command tell of it.                                 *)
Label(r) ==
  /\ r.kind = "none" <=> r.at = "idle"
  /\ r.kind \in ToggleKinds => r.at \in {"check", "read", "truncate", "write"}
  /\ r.at = "check" => r.kind = "disable"
  /\ r.at \in {"remove", "copy"} => r.kind \in Updates
  /\ r.at \in {"load", "up"} => r.kind = "serve"
  /\ r.kind \in ToggleKinds \union Updates => r.rest # {}

Labelled == \A c \in Process : Label(proc[c])

OneServer == \A c, d \in Process : proc[c].kind = "serve" /\ proc[d].kind = "serve" => c = d

Up == \E c \in Process : At(c, "up")

Vacant(t) == thread[t] = None

(* The services that are imported.                                         *)
Open == index \ (deferred \union registered \union lost)

(* Every service is in one place, those that are imported with one thread; *)
(* without a server there are none.                                        *)
Resolved ==
  /\ deferred \intersect registered = {} /\ deferred \intersect lost = {} /\ registered \intersect lost = {}
  /\ \A t \in Thread : ~Vacant(t) => thread[t] \in Open
  /\ \A t, u \in Thread : ~Vacant(t) /\ thread[t] = thread[u] => t = u
  /\ \A s \in Open : \E t \in Thread : thread[t] = s
  /\ begun \intersect deferred = {} /\ failed \subseteq lost
  /\ ~Up => index = {}

(* Of a module that is not raced one thread resolves a service, and what   *)
(* sys.modules has of it is its only run that has not failed.              *)
Single(m) ==
  /\ \A t, u \in Thread : /\ ~Vacant(t) /\ ModuleOf[thread[t]] = m
                          /\ ~Vacant(u) /\ ModuleOf[thread[u]] = m
                          => t = u
  /\ entry[m] # None => ModuleOf[entry[m]] = m
  /\ entry[m] # None => entry[m] \in begun \ failed
  /\ \A s \in begun \ failed : ModuleOf[s] = m => entry[m] = s
  /\ \A t \in Thread : ~Vacant(t) /\ ModuleOf[thread[t]] = m /\ thread[t] \notin begun => entry[m] = None
  /\ \A s \in lost \ (failed \union Lacking) : ModuleOf[s] # m

Unraced == \A m \in Module \ raced : Single(m)

OneBusy == \A c, d \in Process : Busy(c) /\ Busy(d) => c = d

Agrees(toggles, some) == \A p \in some : p \in DOMAIN toggles /\ toggles[p] = wanted[p]

(* What a command is about to write are the toggles last set, but for the  *)
(* one it sets itself and those of the plugins that are gone.              *)
Holds(c) ==
  IF Toggles(c)
  THEN /\ Target(c) \in DOMAIN proc[c].seen /\ proc[c].seen[Target(c)] = proc[c].on
       /\ Agrees(proc[c].seen, DOMAIN wanted \ {Target(c)})
  ELSE DOMAIN proc[c].seen = proc[c].found /\ Agrees(proc[c].seen, DOMAIN wanted \intersect proc[c].found)

Undisturbed ==
  /\ OneBusy
  /\ ~Writing => Agrees(file, DOMAIN wanted)
  /\ \A c \in Process : At(c, "truncate") \/ At(c, "write") => Holds(c)

IInv ==
  /\ TypeOK /\ Labelled /\ OneServer /\ Resolved /\ Unraced /\ LoadOrder
  /\ ~disturbed => Undisturbed

-----------------------------------------------------------------------------
(* Types, and the steps of a command.                                      *)

LEMMA Toggled ==
    ASSUME NEW f
    PROVE  f \in Togglings <=> DOMAIN f \in SUBSET Plugin /\ f \in [DOMAIN f -> BOOLEAN]
<1>1. ASSUME f \in Togglings PROVE DOMAIN f \in SUBSET Plugin /\ f \in [DOMAIN f -> BOOLEAN]
  <2>1. PICK known \in SUBSET Plugin : f \in [known -> BOOLEAN]
    BY <1>1 DEF Togglings
  <2> QED BY <2>1
<1>2. ASSUME DOMAIN f \in SUBSET Plugin, f \in [DOMAIN f -> BOOLEAN] PROVE f \in Togglings
  BY <1>2 DEF Togglings
<1> QED BY <1>1, <1>2

LEMMA NoTogglesFacts == NoToggles \in Togglings /\ DOMAIN NoToggles = {}
BY Toggled DEF NoToggles

LEMMA IdleFacts == Idle \in Command /\ Label(Idle)
BY NoTogglesFacts DEF Idle, Command, Label, ToggleKinds, Updates

LEMMA TargetIn ==
    ASSUME TypeOK, Labelled, NEW c \in Process, proc[c].kind \in ToggleKinds \union Updates
    PROVE  Target(c) \in proc[c].rest /\ Target(c) \in Plugin
<1>1. proc[c].rest \subseteq Plugin /\ proc[c].rest # {}
  BY DEF TypeOK, Command, Labelled, Label
<1>2. proc[c].rest \subseteq Nat
  BY <1>1, PluginAssumption
<1> QED BY <1>1, <1>2, MinIn DEF Target

(* One process goes on as r.                                               *)
GoesOn(c, r) == r \in Command /\ Label(r) /\ proc' = [proc EXCEPT ![c] = r]

LEMMA EndsStep ==
    ASSUME NEW c \in Process, Ends(c)
    PROVE  GoesOn(c, Idle)
BY IdleFacts DEF Ends, GoesOn

LEMMA GoesStep ==
    ASSUME TypeOK, Labelled, NEW c \in Process,
           NEW place \in {"read", "truncate", "write", "copy", "discover", "load", "up"}, Goes(c, place),
           proc[c].at # "idle",
           proc[c].kind \in ToggleKinds => place \in {"read", "truncate", "write"},
           place = "copy" => proc[c].kind \in Updates,
           place \in {"load", "up"} => proc[c].kind = "serve"
    PROVE  \E r : GoesOn(c, r) /\ r.kind = proc[c].kind /\ r.at = place
<1> DEFINE r == [proc[c] EXCEPT !.at = place]
<1>1. proc[c] \in Command /\ Label(proc[c])
  BY DEF TypeOK, Labelled
<1>2. r \in Command /\ r.kind = proc[c].kind /\ r.at = place /\ r.rest = proc[c].rest
  BY <1>1 DEF Command
<1>3. proc' = [proc EXCEPT ![c] = r]
  BY DEF Goes
<1> HIDE DEF r
<1>4. Label(r)
  BY <1>1, <1>2 DEF Label
<1> QED BY <1>2, <1>3, <1>4 DEF GoesOn

LEMMA ContinueStep ==
    ASSUME TypeOK, Labelled, NEW c \in Process, Continue(c), At(c, "write") \/ At(c, "copy")
    PROVE  \E r : GoesOn(c, r) /\ r.kind \in {proc[c].kind, "none"} /\ r.at \in {"idle", "remove", "load"}
<1>1. proc[c] \in Command /\ Label(proc[c])
  BY DEF TypeOK, Labelled
<1>2. CASE proc[c].kind = "serve"
  <2>1. Goes(c, "load")
    BY <1>2 DEF Continue
  <2>2. proc[c].at # "idle" /\ proc[c].kind \notin ToggleKinds
    BY <1>2 DEF At, ToggleKinds
  <2> QED BY <1>2, <2>1, <2>2, GoesStep
<1>3. CASE proc[c].kind = "update --all" /\ Cardinality(proc[c].rest) > 1
  <2> DEFINE r == Following(c)
             rest == proc[c].rest \ {Target(c)}
  <2>1. proc' = [proc EXCEPT ![c] = r] /\ r = [proc[c] EXCEPT !.at = "remove", !.rest = rest]
    BY <1>3 DEF Continue, Following
  <2>2. rest # {}
    <3>1. SUFFICES ASSUME rest = {} PROVE FALSE
      OBVIOUS
    <3>2. Target(c) \in proc[c].rest
      BY <1>3, TargetIn DEF Updates
    <3>3. proc[c].rest = {Target(c)}
      BY <3>1, <3>2
    <3>4. Cardinality({Target(c)}) = 1
      BY FS_Singleton
    <3>5. Cardinality({Target(c)}) > 1
      BY <1>3, <3>3, Zenon
    <3> QED BY <3>4, <3>5
  <2>3. rest \in SUBSET Plugin
    BY <1>1 DEF Command
  <2> HIDE DEF rest
  <2>4. r \in Command /\ r.kind = "update --all" /\ r.at = "remove" /\ r.rest = rest
    BY <1>1, <1>3, <2>1, <2>3 DEF Command
  <2> HIDE DEF r
  <2>5. Label(r)
    BY <2>2, <2>4 DEF Label, ToggleKinds, Updates
  <2> QED BY <1>3, <2>1, <2>4, <2>5 DEF GoesOn
<1>4. CASE proc[c].kind # "serve" /\ ~(proc[c].kind = "update --all" /\ Cardinality(proc[c].rest) > 1)
  <2>1. Ends(c)
    BY <1>4 DEF Continue
  <2> QED BY <2>1, EndsStep DEF Idle
<1> QED BY <1>2, <1>3, <1>4

LEMMA SeenStep ==
    ASSUME TypeOK, Labelled, NEW c \in Process, At(c, "read"), NEW seen \in Togglings, 
           proc' = [proc EXCEPT ![c].at = "truncate", ![c].seen = seen]
    PROVE  \E r : GoesOn(c, r) /\ r = [proc[c] EXCEPT !.at = "truncate", !.seen = seen]
<1> DEFINE r == [proc[c] EXCEPT !.at = "truncate", !.seen = seen]
<1>1. proc[c] \in Command /\ Label(proc[c]) /\ proc \in [Process -> Command]
  BY DEF TypeOK, Labelled
<1>2. r \in Command /\ r.kind = proc[c].kind /\ r.at = "truncate" /\ r.rest = proc[c].rest
  BY <1>1 DEF Command
<1>3. proc' = [proc EXCEPT ![c] = r]
  BY <1>1
<1> HIDE DEF r
<1>4. Label(r)
  BY <1>1, <1>2 DEF Label, At
<1>5. GoesOn(c, r)
  BY <1>2, <1>3, <1>4 DEF GoesOn
<1> QED BY <1>5 DEF r

LEMMA ReadToggleStep ==
    ASSUME TypeOK, Labelled, NEW c \in Process, ReadToggle(c), Target(c) \in DOMAIN file
    PROVE  \E r : /\ GoesOn(c, r)
                  /\ r = [proc[c] EXCEPT !.at = "truncate", !.seen = [file EXCEPT ![Target(c)] = proc[c].on]]
<1> DEFINE seen == [file EXCEPT ![Target(c)] = proc[c].on]
<1>1. At(c, "read") /\ proc' = [proc EXCEPT ![c].at = "truncate", ![c].seen = seen]
  BY DEF ReadToggle
<1>2. file \in Togglings /\ proc[c].on \in BOOLEAN
  BY DEF TypeOK, Command
<1>3. DOMAIN file \in SUBSET Plugin /\ file \in [DOMAIN file -> BOOLEAN]
  BY <1>2, Toggled
<1>4. DOMAIN seen = DOMAIN file /\ seen \in [DOMAIN file -> BOOLEAN]
  BY <1>2, <1>3
<1> HIDE DEF seen
<1>5. seen \in Togglings
  BY <1>3, <1>4, Toggled
<1>6. \E r : GoesOn(c, r) /\ r = [proc[c] EXCEPT !.at = "truncate", !.seen = seen]
  BY <1>1, <1>5, SeenStep
<1> QED BY <1>6 DEF seen

LEMMA ReadMergeStep ==
    ASSUME TypeOK, Labelled, NEW c \in Process, ReadMerge(c)
    PROVE  \E r : /\ GoesOn(c, r)
                  /\ r = [proc[c] EXCEPT !.at = "truncate", !.seen = Merged(file, proc[c].found)]
<1> DEFINE seen == Merged(file, proc[c].found)
<1>1. At(c, "read") /\ proc' = [proc EXCEPT ![c].at = "truncate", ![c].seen = seen]
  BY DEF ReadMerge
<1>2. file \in Togglings /\ proc[c].found \in SUBSET Plugin
  BY DEF TypeOK, Command
<1>3. DOMAIN file \in SUBSET Plugin /\ file \in [DOMAIN file -> BOOLEAN]
  BY <1>2, Toggled
<1>4. DOMAIN seen = proc[c].found /\ seen \in [proc[c].found -> BOOLEAN]
  BY <1>2, <1>3, PluginAssumption DEF Merged
<1> HIDE DEF seen
<1>5. seen \in Togglings
  BY <1>2, <1>4, Toggled
<1>6. \E r : GoesOn(c, r) /\ r = [proc[c] EXCEPT !.at = "truncate", !.seen = seen]
  BY <1>1, <1>5, SeenStep
<1> QED BY <1>6 DEF seen

LEMMA DiscoverStep ==
    ASSUME TypeOK, Labelled, NEW c \in Process, Discover(c)
    PROVE  \E r : GoesOn(c, r) /\ r.kind = proc[c].kind /\ r.at = "read"
<1> DEFINE r == [proc[c] EXCEPT !.at = "read", !.found = Discovered]
<1>1. proc[c] \in Command /\ Label(proc[c]) /\ proc \in [Process -> Command]
  BY DEF TypeOK, Labelled
<1>2. Discovered \in SUBSET Plugin
  BY PluginAssumption DEF Discovered, TypeOK
<1>3. r \in Command /\ r.kind = proc[c].kind /\ r.at = "read" /\ r.rest = proc[c].rest
  BY <1>1, <1>2 DEF Command
<1>4. proc' = [proc EXCEPT ![c] = r]
  BY <1>1 DEF Discover
<1> HIDE DEF r
<1>5. Label(r)
  BY <1>1, <1>3 DEF Label, Discover, At
<1> QED BY <1>3, <1>4, <1>5 DEF GoesOn

(* What every step of a command but the first has in common.               *)
LEMMA CommandStep ==
    ASSUME TypeOK, Labelled, NEW c \in Process,
           \/ CheckDependents(c) \/ ReadToggle(c) \/ Discover(c) \/ ReadMerge(c) \/ Truncate(c) \/ Write(c)
           \/ Uninstall(c) \/ Copy(c) \/ CopyFails(c) \/ Load(c) \/ Kill(c)
    PROVE  \E r : /\ GoesOn(c, r) /\ r.kind \in {proc[c].kind, "none"}
                  /\ r.at \notin {"idle", "up"} => Busy(c)
                  /\ r.at = "up" => At(c, "load")
                  /\ At(c, "up") => Kill(c)
<1>1. proc[c] \in Command /\ Label(proc[c])
  BY DEF TypeOK, Labelled
<1>2. Idle.kind = "none" /\ Idle.at = "idle"
  BY DEF Idle
<1>3. CASE CheckDependents(c)
  <2>1. At(c, "check") /\ (Ends(c) \/ Goes(c, "read"))
    BY <1>3 DEF CheckDependents
  <2>2. Ends(c) => \E r : GoesOn(c, r) /\ r.kind \in {proc[c].kind, "none"} /\ r.at = "idle"
    BY <1>2, EndsStep
  <2>3. Goes(c, "read") => \E r : GoesOn(c, r) /\ r.kind = proc[c].kind /\ r.at = "read"
    BY <2>1, GoesStep DEF At
  <2> QED BY <2>1, <2>2, <2>3 DEF At, Busy
<1>4. CASE ReadToggle(c)
  <2>1. At(c, "read")
    BY <1>4 DEF ReadToggle
  <2>2. CASE Target(c) \notin DOMAIN file
    <3>1. Ends(c)
      BY <1>4, <2>2 DEF ReadToggle
    <3> QED BY <1>2, <2>1, <3>1, EndsStep DEF At, Busy
  <2>3. CASE Target(c) \in DOMAIN file
    <3>1. PICK r : GoesOn(c, r) /\ r = [proc[c] EXCEPT !.at = "truncate", !.seen = [file EXCEPT ![Target(c)] = proc[c].on]]
      BY <1>4, <2>3, ReadToggleStep
    <3>2. r.kind = proc[c].kind /\ r.at = "truncate"
      BY <1>1, <3>1 DEF Command
    <3> QED BY <2>1, <3>1, <3>2 DEF At, Busy
  <2> QED BY <2>2, <2>3
<1>5. CASE Discover(c)
  <2>1. At(c, "discover")
    BY <1>5 DEF Discover
  <2> QED BY <1>5, <2>1, DiscoverStep DEF At, Busy
<1>6. CASE ReadMerge(c)
  <2>1. At(c, "read")
    BY <1>6 DEF ReadMerge
  <2>2. PICK r : GoesOn(c, r) /\ r = [proc[c] EXCEPT !.at = "truncate", !.seen = Merged(file, proc[c].found)]
    BY <1>6, ReadMergeStep
  <2>3. r.kind = proc[c].kind /\ r.at = "truncate"
    BY <1>1, <2>2 DEF Command
  <2> QED BY <2>1, <2>2, <2>3 DEF At, Busy
<1>7. CASE Truncate(c)
  <2>1. At(c, "truncate") /\ Goes(c, "write")
    BY <1>7 DEF Truncate
  <2>2. \E r : GoesOn(c, r) /\ r.kind = proc[c].kind /\ r.at = "write"
    BY <2>1, GoesStep DEF At
  <2> QED BY <2>1, <2>2 DEF At, Busy
<1>8. CASE Write(c) \/ CopyFails(c)
  <2>1. Continue(c) /\ (At(c, "write") \/ At(c, "copy"))
    BY <1>8 DEF Write, CopyFails
  <2>2. \E r : GoesOn(c, r) /\ r.kind \in {proc[c].kind, "none"} /\ r.at \in {"idle", "remove", "load"}
    BY <2>1, ContinueStep
  <2> QED BY <2>1, <2>2 DEF At, Busy
<1>9. CASE Uninstall(c)
  <2>1. At(c, "remove") /\ Goes(c, "copy") /\ proc[c].kind \in Updates
    BY <1>1, <1>9 DEF Uninstall, At, Label
  <2>2. \E r : GoesOn(c, r) /\ r.kind = proc[c].kind /\ r.at = "copy"
    BY <2>1, GoesStep DEF At, Updates, ToggleKinds
  <2> QED BY <2>1, <2>2 DEF At, Busy
<1>10. CASE Copy(c)
  <2>1. At(c, "copy") /\ Goes(c, "discover") /\ proc[c].kind \in Updates
    BY <1>1, <1>10 DEF Copy, At, Label
  <2>2. \E r : GoesOn(c, r) /\ r.kind = proc[c].kind /\ r.at = "discover"
    BY <2>1, GoesStep DEF At, Updates, ToggleKinds
  <2> QED BY <2>1, <2>2 DEF At, Busy
<1>11. CASE Load(c)
  <2>1. At(c, "load") /\ Goes(c, "up") /\ proc[c].kind = "serve"
    BY <1>1, <1>11 DEF Load, At, Label
  <2>2. \E r : GoesOn(c, r) /\ r.kind = proc[c].kind /\ r.at = "up"
    BY <2>1, GoesStep DEF At, ToggleKinds
  <2> QED BY <2>1, <2>2 DEF At, Busy
<1>12. CASE Kill(c)
  <2>1. Ends(c)
    BY <1>12 DEF Kill
  <2> QED BY <1>2, <1>12, <2>1, EndsStep
<1> QED BY <1>3, <1>4, <1>5, <1>6, <1>7, <1>8, <1>9, <1>10, <1>11, <1>12

LEMMA GiveStep ==
    ASSUME TypeOK, Labelled, NEW c \in Process, Give(c)
    PROVE  \E r : /\ GoesOn(c, r)
                  /\ r.kind = "serve" => \A d \in Process : proc[d].kind # "serve"
                  /\ r.at \notin {"truncate", "write", "idle", "up"}
                  /\ At(c, "idle")
<1>1. PICK ask \in Asked :
        /\ ask.kind = "serve" => \A d \in Process : proc[d].kind # "serve"
        /\ ask.kind = "update --all" => home # {}
        /\ proc' = [proc EXCEPT ![c] =
             [Idle EXCEPT !.kind = ask.kind, !.at = Begin(ask.kind), !.rest = Named(ask),
                          !.on = (ask.kind = "enable")]]
  BY DEF Give
<1> DEFINE r == [Idle EXCEPT !.kind = ask.kind, !.at = Begin(ask.kind), !.rest = Named(ask),
                             !.on = (ask.kind = "enable")]
<1>2. /\ ask.kind \in ToggleKinds \union FindKinds /\ ask.names \in SUBSET Plugin
      /\ ask.kind \in ToggleKinds \union {"install", "update"} => ask.names # {}
  BY PluginAssumption
<1>3. Named(ask) \in SUBSET Plugin /\ (ask.kind \in ToggleKinds \union Updates => Named(ask) # {})
  BY <1>1, <1>2 DEF Named, TypeOK, Updates, ToggleKinds
<1>4. /\ Begin(ask.kind) \in {"check", "read", "copy", "remove", "discover"}
      /\ ask.kind \in ToggleKinds => Begin(ask.kind) \in {"check", "read"}
      /\ Begin(ask.kind) = "check" => ask.kind = "disable"
      /\ Begin(ask.kind) \in {"remove", "copy"} => ask.kind \in Updates
  BY <1>2 DEF Begin, ToggleKinds, FindKinds, Updates
<1> DEFINE kind == ask.kind
           at == Begin(ask.kind)
           rest == Named(ask)
           on == ask.kind = "enable"
<1>5. r = [Idle EXCEPT !.kind = kind, !.at = at, !.rest = rest, !.on = on] /\ on \in BOOLEAN
  OBVIOUS
<1> HIDE DEF r, at, rest, on
<1>6. r \in Command /\ r.kind = kind /\ r.at = at /\ r.rest = rest
  BY <1>2, <1>3, <1>4, <1>5, IdleFacts DEF Command, at, rest
<1>7. Label(r)
  BY <1>2, <1>3, <1>4, <1>6 DEF Label, at, rest, ToggleKinds, FindKinds
<1>8. proc' = [proc EXCEPT ![c] = r]
  BY <1>1 DEF r
<1>9. r.at \notin {"truncate", "write", "idle", "up"} /\ At(c, "idle")
  BY <1>4, <1>6 DEF at, Give
<1> QED BY <1>1, <1>6, <1>7, <1>8, <1>9 DEF GoesOn

LEMMA GoesOnTyped ==
    ASSUME TypeOK, Labelled, NEW c \in Process, NEW r, GoesOn(c, r)
    PROVE  proc' \in [Process -> Command] /\ Labelled'
BY DEF TypeOK, Labelled, GoesOn

LEMMA SeqOfOwn ==
    ASSUME NEW S, NEW s \in Seq(S)
    PROVE  s \in Seq(ToSet(s))
<1>1. Len(s) \in Nat /\ s = [i \in 1 .. Len(s) |-> s[i]] /\ \A i \in 1 .. Len(s) : s[i] \in ToSet(s)
  BY ToSetIn
<1>2. s \in [1 .. Len(s) -> ToSet(s)]
  BY <1>1
<1> QED BY <1>1, <1>2, SeqDef

(* What a load registers, and what it defers.                              *)
LEMMA LoadFacts ==
    ASSUME TypeOK, NEW c \in Process, Load(c)
    PROVE  /\ index' \subseteq Service /\ loaded' \in Seq(Plugin) /\ Ordered(loaded', deps)
           /\ deferred' = index' /\ registered' = {} /\ lost' = {} /\ thread' = thread /\ deps' = deps
           /\ UNCHANGED importVars
<1> DEFINE found == proc[c].found
           sorted == Sorted(found, deps)
           enabled == Kept(sorted.order, {p \in found : Enabled(c, p)})
<1>1. found \in SUBSET Plugin /\ deps \in [Plugin -> Seq(Nat)]
  BY PluginAssumption DEF TypeOK, Command
<1>2. /\ deferred' = index' /\ registered' = {} /\ lost' = {} /\ thread' = thread /\ deps' = deps
      /\ UNCHANGED importVars
  BY DEF Load, diskVars
<1>3. CASE sorted.cycle
  <2>1. loaded' = <<>> /\ index' = {}
    BY <1>3 DEF Load
  <2>2. Ordered(loaded', deps) /\ loaded' \in Seq(Plugin)
    BY <2>1 DEF Ordered
  <2> QED BY <1>2, <2>1, <2>2
<1>4. CASE ~sorted.cycle
  <2>1. index' \subseteq Service /\ \E broken \in Broken(enabled) : loaded' = Kept(enabled, ToSet(enabled) \ broken)
    BY <1>4 DEF Load
  <2>2. PICK broken : loaded' = Kept(enabled, ToSet(enabled) \ broken)
    BY <2>1
  <2>3. sorted.order \in Seq(found) /\ Ordered(sorted.order, deps)
    BY <1>1, SortedOrdered
  <2> HIDE DEF sorted
  <2>4. enabled \in Seq(found) /\ Ordered(enabled, deps)
    BY <2>3, KeptFacts
  <2> HIDE DEF enabled
  <2>5. enabled \in Seq(Plugin)
    BY <1>1, <2>4
  <2>6. loaded' \in Seq(Plugin) /\ Ordered(loaded', deps)
    BY <2>2, <2>4, <2>5, KeptFacts
  <2> QED BY <1>1, <1>2, <2>1, <2>5, <2>6
<1> QED BY <1>3, <1>4

(* A step of a thread that resolves a service.                             *)
ThreadStep(t) == Resolve(t) \/ Reuse(t) \/ Create(t) \/ Imported(t) \/ ImportFails(t)

LEMMA TypeStep == TypeOK /\ Labelled /\ OneServer /\ Resolved /\ [Next]_vars => TypeOK' /\ Labelled'
<1> SUFFICES ASSUME TypeOK, Labelled, OneServer, Resolved, [Next]_vars PROVE TypeOK' /\ Labelled'
  OBVIOUS
<1> DEFINE DiskTyped == deps' \in Graphs /\ home' \subseteq Plugin /\ file' \in Togglings /\ wanted' \in Togglings
           ServerTyped == /\ loaded' \in Seq(Plugin) /\ index' \subseteq Service
                          /\ deferred' \union registered' \union lost' \union begun' \union failed' \subseteq index'
                          /\ thread' \in [Thread -> Service \union {None}]
                          /\ entry' \in [Module -> Service \union {None}] /\ raced' \subseteq Module
           Same == UNCHANGED serverVars
<1>1. UNCHANGED <<deps, home, file, wanted>> => DiskTyped
  BY DEF TypeOK
<1>2. UNCHANGED serverVars => ServerTyped
  BY DEF TypeOK, serverVars, importVars
<1>3. ASSUME NEW c \in Process, Give(c) PROVE TypeOK' /\ Labelled'
  <2>1. proc' \in [Process -> Command] /\ Labelled'
    BY <1>3, GiveStep, GoesOnTyped
  <2>2. UNCHANGED <<deps, home, file, wanted>> /\ UNCHANGED serverVars
    BY <1>3 DEF Give, diskVars
  <2>3. given' \in 0 .. MaxCommands /\ disturbed' \in BOOLEAN
    <3>1. given < MaxCommands /\ given' = given + 1 /\ given \in 0 .. MaxCommands /\ MaxCommands \in Nat
      BY <1>3, PluginAssumption DEF Give, TypeOK
    <3>2. disturbed' \in BOOLEAN
      BY <1>3 DEF Give, TypeOK
    <3> QED BY <3>1, <3>2
  <2>4. DiskTyped /\ ServerTyped
    BY <1>1, <1>2, <2>2
  <2> QED BY <2>1, <2>3, <2>4 DEF TypeOK
<1>4. ASSUME NEW c \in Process,
             \/ CheckDependents(c) \/ ReadToggle(c) \/ Discover(c) \/ ReadMerge(c) \/ Truncate(c) \/ Write(c)
             \/ Uninstall(c) \/ Copy(c) \/ CopyFails(c) \/ Load(c) \/ Kill(c)
      PROVE  TypeOK' /\ Labelled'
  <2>1. proc' \in [Process -> Command] /\ Labelled'
    BY <1>4, CommandStep, GoesOnTyped
  <2>2. given' \in 0 .. MaxCommands /\ disturbed' \in BOOLEAN
    BY <1>4 DEF CheckDependents, ReadToggle, Discover, ReadMerge, Truncate, Write, Uninstall, Copy, CopyFails,
                Load, Kill, TypeOK
  <2>3. DiskTyped
    <3>1. CASE CheckDependents(c) \/ ReadToggle(c) \/ Discover(c) \/ ReadMerge(c) \/ CopyFails(c) \/ Load(c) \/ Kill(c)
      BY <1>1, <3>1 DEF CheckDependents, ReadToggle, Discover, ReadMerge, CopyFails, Load, Kill, diskVars
    <3>2. CASE Truncate(c)
      BY <3>2, NoTogglesFacts DEF Truncate, TypeOK
    <3>3. CASE Uninstall(c)
      BY <3>3 DEF Uninstall, TypeOK
    <3>4. CASE Copy(c)
      <4>1. proc[c].kind \in Updates
        BY <3>4 DEF Copy, At, Labelled, Label
      <4>2. Target(c) \in Plugin
        BY <4>1, TargetIn
      <4> QED BY <3>4, <4>2 DEF Copy, TypeOK
    <3>5. CASE Write(c)
      <4>1. proc[c].seen \in Togglings /\ proc[c].on \in BOOLEAN
        BY DEF TypeOK, Command
      <4>2. DOMAIN wanted \in SUBSET Plugin /\ wanted \in [DOMAIN wanted -> BOOLEAN]
        BY Toggled DEF TypeOK
      <4>3. wanted' \in Togglings
        <5>1. CASE Toggles(c)
          <6>1. Target(c) \in Plugin
            BY <5>1, TargetIn DEF Toggles
          <6>2. wanted' = [p \in DOMAIN wanted \union {Target(c)} |-> IF p = Target(c) THEN proc[c].on ELSE wanted[p]]
            BY <3>5, <5>1 DEF Write
          <6>3. DOMAIN wanted' = DOMAIN wanted \union {Target(c)} /\ wanted' \in [DOMAIN wanted \union {Target(c)} -> BOOLEAN]
            BY <4>1, <4>2, <6>2
          <6> QED BY <4>2, <6>1, <6>3, Toggled
        <5>2. CASE ~Toggles(c)
          <6>1. wanted' = [p \in DOMAIN wanted \intersect proc[c].found |-> wanted[p]]
            BY <3>5, <5>2 DEF Write
          <6>2. DOMAIN wanted' = DOMAIN wanted \intersect proc[c].found /\ wanted' \in [DOMAIN wanted \intersect proc[c].found -> BOOLEAN]
            BY <4>2, <6>1
          <6> QED BY <4>2, <6>2, Toggled
        <5> QED BY <5>1, <5>2
      <4> QED BY <3>5, <4>1, <4>3 DEF Write, TypeOK
    <3> QED BY <1>4, <3>1, <3>2, <3>3, <3>4, <3>5
  <2>4. ServerTyped
    <3>1. CASE Load(c)
      <4>1. /\ index' \subseteq Service /\ loaded' \in Seq(Plugin)
            /\ deferred' = index' /\ registered' = {} /\ lost' = {} /\ thread' = thread
            /\ entry' = entry /\ begun' = begun /\ failed' = failed /\ raced' = raced
        BY <3>1, LoadFacts DEF importVars
      <4>2. ~Up
        BY <3>1 DEF Load, Up, At, OneServer, Labelled, Label
      <4>3. begun = {} /\ failed = {}
        BY <4>2 DEF Resolved, TypeOK
      <4> QED BY <4>1, <4>3 DEF TypeOK
    <3>2. CASE Kill(c)
      <4>1. CASE proc[c].kind = "serve"
        <5>1. /\ loaded' = <<>> /\ index' = {} /\ deferred' = {} /\ registered' = {} /\ lost' = {}
              /\ thread' = [t \in Thread |-> None] /\ entry' = [m \in Module |-> None]
              /\ begun' = {} /\ failed' = {} /\ raced' = {}
          BY <3>2, <4>1 DEF Kill
        <5> QED BY <5>1
      <4>2. CASE proc[c].kind # "serve"
        BY <1>2, <3>2, <4>2 DEF Kill
      <4> QED BY <4>1, <4>2
    <3>3. CASE \/ CheckDependents(c) \/ ReadToggle(c) \/ Discover(c) \/ ReadMerge(c) \/ Truncate(c) \/ Write(c)
               \/ Uninstall(c) \/ Copy(c) \/ CopyFails(c)
      BY <1>2, <3>3 DEF CheckDependents, ReadToggle, Discover, ReadMerge, Truncate, Write, Uninstall, Copy, CopyFails
    <3> QED BY <1>4, <3>1, <3>2, <3>3
  <2> QED BY <2>1, <2>2, <2>3, <2>4 DEF TypeOK
<1>5. ASSUME NEW t \in Thread, ThreadStep(t) PROVE TypeOK' /\ Labelled'
  <2>1. ServerTyped
    <3>1. loaded' = loaded /\ index' = index
      BY <1>5 DEF ThreadStep, Resolve, Reuse, Create, Imported, ImportFails
    <3>2. CASE Resolve(t) \/ Reuse(t)
      <4>1. PICK s \in deferred :
              /\ thread' = [thread EXCEPT ![t] = s] \/ thread' = thread
              /\ deferred' = deferred \ {s}
              /\ registered' \subseteq registered \union {s} /\ lost' \subseteq lost \union {s}
              /\ raced' \subseteq raced \union {ModuleOf[s]}
        BY <3>2 DEF Resolve, Reuse, Overlapping
      <4>2. entry' = entry /\ begun' = begun /\ failed' = failed
        BY <3>2 DEF Resolve, Reuse
      <4>3. s \in Service /\ s \in index /\ ModuleOf[s] \in Module
        BY <4>1, PluginAssumption DEF TypeOK
      <4> QED BY <3>1, <4>1, <4>2, <4>3 DEF TypeOK
    <3>3. CASE Create(t) \/ Imported(t) \/ ImportFails(t)
      <4>1. thread[t] # None
        BY <3>3, PluginAssumption DEF Create, Imported, ImportFails, TypeOK
      <4>2. thread[t] \in index /\ thread[t] \in Service /\ ModuleOf[thread[t]] \in Module
        BY <4>1, PluginAssumption DEF Resolved, Vacant, Open, TypeOK
      <4>3. /\ deferred' \subseteq deferred /\ registered' \subseteq registered \union {thread[t]}
            /\ lost' \subseteq lost \union {thread[t]} /\ raced' = raced
            /\ begun' \subseteq begun \union {thread[t]} /\ failed' \subseteq failed \union {thread[t]}
        BY <3>3 DEF Create, Imported, ImportFails, importVars
      <4>4. thread' = thread \/ thread' = [thread EXCEPT ![t] = None]
        BY <3>3 DEF Create, Imported, ImportFails
      <4>5. \/ entry' = entry \/ entry' = [entry EXCEPT ![ModuleOf[thread[t]]] = thread[t]]
            \/ entry' = [entry EXCEPT ![ModuleOf[thread[t]]] = None]
        BY <3>3 DEF Create, Imported, ImportFails, importVars
      <4>6. thread' \in [Thread -> Service \union {None}] /\ entry' \in [Module -> Service \union {None}]
        BY <4>2, <4>4, <4>5 DEF TypeOK
      <4> QED BY <3>1, <4>2, <4>3, <4>6 DEF TypeOK
    <3> QED BY <1>5, <3>2, <3>3 DEF ThreadStep
  <2>2. DiskTyped /\ UNCHANGED <<proc, given, disturbed>>
    BY <1>1, <1>5 DEF ThreadStep, Resolve, Reuse, Create, Imported, ImportFails, diskVars
  <2> QED BY <2>1, <2>2 DEF TypeOK, Labelled
<1>6. CASE UNCHANGED vars
  <2>1. DiskTyped /\ ServerTyped /\ UNCHANGED <<proc, given, disturbed>>
    BY <1>1, <1>2, <1>6 DEF vars, diskVars
  <2> QED BY <2>1 DEF TypeOK, Labelled
<1> HIDE DEF DiskTyped, ServerTyped, Same
<1> QED BY <1>3, <1>4, <1>5, <1>6 DEF Next, ThreadStep

-----------------------------------------------------------------------------
(* The server.                                                             *)

LEMMA OneServerStep == TypeOK /\ Labelled /\ OneServer /\ [Next]_vars => OneServer'
<1> SUFFICES ASSUME TypeOK, Labelled, OneServer, [Next]_vars PROVE OneServer'
  OBVIOUS
<1>1. ASSUME NEW c \in Process, Give(c) PROVE OneServer'
  <2>1. PICK r : GoesOn(c, r) /\ (r.kind = "serve" => \A d \in Process : proc[d].kind # "serve")
    BY <1>1, GiveStep
  <2> QED BY <2>1 DEF OneServer, GoesOn, TypeOK
<1>2. ASSUME NEW c \in Process,
             \/ CheckDependents(c) \/ ReadToggle(c) \/ Discover(c) \/ ReadMerge(c) \/ Truncate(c) \/ Write(c)
             \/ Uninstall(c) \/ Copy(c) \/ CopyFails(c) \/ Load(c) \/ Kill(c)
      PROVE  OneServer'
  <2>1. PICK r : GoesOn(c, r) /\ r.kind \in {proc[c].kind, "none"}
    BY <1>2, CommandStep
  <2> QED BY <2>1 DEF OneServer, GoesOn, TypeOK
<1>3. ASSUME NEW t \in Thread, ThreadStep(t) PROVE OneServer'
  BY <1>3 DEF ThreadStep, Resolve, Reuse, Create, Imported, ImportFails, OneServer
<1>4. CASE UNCHANGED vars
  BY <1>4 DEF vars, OneServer
<1> QED BY <1>1, <1>2, <1>3, <1>4 DEF Next, ThreadStep

(* Nothing happens to the server while it stays up or down.                *)
LEMMA ResolvedStays ==
    ASSUME Resolved, UNCHANGED serverVars, Up => Up'
    PROVE  Resolved'
<1>1. Open' = Open /\ \A t \in Thread : Vacant(t)' <=> Vacant(t)
  BY DEF Open, Vacant, serverVars
<1> QED BY <1>1 DEF Resolved, serverVars, importVars

LEMMA ThreadResolves ==
    ASSUME TypeOK, Resolved, NEW t \in Thread, ThreadStep(t)
    PROVE  Resolved'
<1>1. index' = index /\ proc' = proc /\ (Up' <=> Up)
  BY DEF ThreadStep, Resolve, Reuse, Create, Imported, ImportFails, Up, At
<1>2. CASE Resolve(t)
  <2>1. PICK s \in deferred : thread' = [thread EXCEPT ![t] = s] /\ deferred' = deferred \ {s}
    BY <1>2 DEF Resolve
  <2>2. /\ Vacant(t) /\ registered' = registered /\ lost' = lost /\ begun' = begun /\ failed' = failed
        /\ s \in index /\ s \in Service /\ s # None
    BY <1>2, <2>1, PluginAssumption DEF Resolve, TypeOK, Vacant
  <2>3. s \notin registered /\ s \notin lost
    BY <2>1 DEF Resolved
  <2>4. Open' = Open \union {s} /\ s \notin Open
    BY <1>1, <2>1, <2>2, <2>3 DEF Open
  <2>5. \A u \in Thread : thread'[u] = IF u = t THEN s ELSE thread[u]
    BY <2>1 DEF TypeOK
  <2>6. \A u \in Thread : ~Vacant(u)' => thread'[u] \in Open'
    BY <2>4, <2>5 DEF Vacant, Resolved
  <2>7. \A u, v \in Thread : ~Vacant(u)' /\ thread'[u] = thread'[v] => u = v
    <3> SUFFICES ASSUME NEW u \in Thread, NEW v \in Thread, thread'[u] # None, thread'[u] = thread'[v] PROVE u = v
      BY DEF Vacant
    <3>1. \A w \in Thread : w # t => thread[w] # s
      BY <2>2, <2>4 DEF Resolved, Vacant
    <3> QED BY <2>5, <3>1 DEF Resolved, Vacant
  <2>8. \A r \in Open' : \E u \in Thread : thread'[u] = r
    <3> SUFFICES ASSUME NEW r \in Open, r # s PROVE \E u \in Thread : thread'[u] = r
      BY <2>4, <2>5
    <3>1. PICK u \in Thread : thread[u] = r
      BY DEF Resolved
    <3>2. u # t
      BY <2>2, <3>1, PluginAssumption DEF Vacant, Open, TypeOK
    <3> QED BY <2>5, <3>1, <3>2
  <2>9. /\ deferred' \intersect registered' = {} /\ deferred' \intersect lost' = {} /\ registered' \intersect lost' = {}
        /\ begun' \intersect deferred' = {} /\ failed' \subseteq lost'
        /\ ~Up' => index' = {}
    BY <1>1, <2>1, <2>2 DEF Resolved
  <2> QED BY <2>6, <2>7, <2>8, <2>9 DEF Resolved
<1>3. CASE Reuse(t) \/ Create(t)
  <2>1. thread' = thread /\ failed' = failed /\ \A u \in Thread : Vacant(u)' <=> Vacant(u)
    BY <1>3 DEF Reuse, Create, Vacant
  <2>2. Open' = Open
    <3>1. CASE Create(t)
      BY <1>1, <3>1 DEF Create, Open
    <3>2. CASE Reuse(t)
      <4>1. PICK s \in deferred :
              /\ deferred' = deferred \ {s}
              /\ \/ registered' = registered \union {s} /\ lost' = lost
                 \/ lost' = lost \union {s} /\ registered' = registered
        BY <3>2 DEF Reuse
      <4> QED BY <1>1, <4>1 DEF Open
    <3> QED BY <1>3, <3>1, <3>2
  <2>3. /\ deferred' \intersect registered' = {} /\ deferred' \intersect lost' = {} /\ registered' \intersect lost' = {}
        /\ begun' \intersect deferred' = {} /\ failed' \subseteq lost'
    <3>1. CASE Create(t)
      <4>1. thread[t] \notin deferred
        BY <3>1 DEF Create, Resolved, Vacant, Open
      <4> QED BY <3>1, <4>1 DEF Create, Resolved
    <3>2. CASE Reuse(t)
      <4>1. PICK s \in deferred :
              /\ deferred' = deferred \ {s}
              /\ \/ registered' = registered \union {s} /\ lost' = lost
                 \/ lost' = lost \union {s} /\ registered' = registered
        BY <3>2 DEF Reuse
      <4>2. begun' = begun
        BY <3>2 DEF Reuse
      <4> QED BY <2>1, <4>1, <4>2 DEF Resolved
    <3> QED BY <1>3, <3>1, <3>2
  <2> QED BY <1>1, <2>1, <2>2, <2>3 DEF Resolved
<1>4. CASE Imported(t) \/ ImportFails(t)
  <2> DEFINE s == thread[t]
  <2>1. s # None /\ thread' = [thread EXCEPT ![t] = None]
    BY <1>4, PluginAssumption DEF Imported, ImportFails, TypeOK
  <2>2. s \in Open /\ s \in index /\ s \notin deferred /\ s \notin registered /\ s \notin lost
    BY <2>1 DEF Resolved, Vacant, Open
  <2>3. /\ deferred' = deferred /\ begun' = begun
        /\ \/ registered' = registered \union {s} /\ lost' = lost
           \/ registered' = registered /\ lost' = lost \union {s}
        /\ failed' = failed \/ (failed' = failed \union {s} /\ lost' = lost \union {s})
    BY <1>4, <2>2 DEF Imported, ImportFails, importVars
  <2>4. \A u \in Thread : thread'[u] = IF u = t THEN None ELSE thread[u]
    BY <2>1 DEF TypeOK
  <2>5. Open' = Open \ {s}
    BY <1>1, <2>2, <2>3 DEF Open
  <2> HIDE DEF s
  <2>6. \A u \in Thread : u # t /\ ~Vacant(u) => thread[u] # s
    BY DEF Resolved, Vacant, s
  <2>7. \A u \in Thread : ~Vacant(u)' => thread'[u] \in Open'
    BY <2>4, <2>5, <2>6 DEF Vacant, Resolved
  <2>8. \A u, v \in Thread : ~Vacant(u)' /\ thread'[u] = thread'[v] => u = v
    BY <2>4 DEF Resolved, Vacant
  <2>9. \A r \in Open' : \E u \in Thread : thread'[u] = r
    <3> SUFFICES ASSUME NEW r \in Open, r # s PROVE \E u \in Thread : thread'[u] = r
      BY <2>5
    <3>1. PICK u \in Thread : thread[u] = r
      BY DEF Resolved
    <3> QED BY <2>4, <3>1 DEF s
  <2>10. /\ deferred' \intersect registered' = {} /\ deferred' \intersect lost' = {} /\ registered' \intersect lost' = {}
         /\ begun' \intersect deferred' = {} /\ failed' \subseteq lost'
         /\ ~Up' => index' = {}
    BY <1>1, <2>2, <2>3 DEF Resolved
  <2> QED BY <2>7, <2>8, <2>9, <2>10 DEF Resolved
<1> QED BY <1>2, <1>3, <1>4 DEF ThreadStep

LEMMA ResolvedStep == TypeOK /\ Labelled /\ OneServer /\ Resolved /\ [Next]_vars => Resolved'
<1> SUFFICES ASSUME TypeOK, Labelled, OneServer, Resolved, [Next]_vars PROVE Resolved'
  OBVIOUS
<1>1. ASSUME NEW c \in Process, Give(c) PROVE Resolved'
  <2>1. PICK r : GoesOn(c, r) /\ At(c, "idle")
    BY <1>1, GiveStep
  <2>2. Up => Up'
    BY <2>1 DEF Up, At, GoesOn, TypeOK
  <2> QED BY <1>1, <2>2, ResolvedStays DEF Give
<1>2. ASSUME NEW c \in Process,
             \/ CheckDependents(c) \/ ReadToggle(c) \/ Discover(c) \/ ReadMerge(c) \/ Truncate(c) \/ Write(c)
             \/ Uninstall(c) \/ Copy(c) \/ CopyFails(c)
      PROVE  Resolved'
  <2>1. PICK r : GoesOn(c, r) /\ (At(c, "up") => Kill(c))
    BY <1>2, CommandStep
  <2>2. ~At(c, "up")
    BY <1>2, <2>1 DEF CheckDependents, ReadToggle, Discover, ReadMerge, Truncate, Write, Uninstall, Copy, CopyFails, At
  <2>3. Up => Up'
    BY <2>1, <2>2 DEF Up, At, GoesOn, TypeOK
  <2> QED BY <1>2, <2>3, ResolvedStays
          DEF CheckDependents, ReadToggle, Discover, ReadMerge, Truncate, Write, Uninstall, Copy, CopyFails
<1>3. ASSUME NEW c \in Process, Load(c) PROVE Resolved'
  <2>1. At(c, "load") /\ proc[c].kind = "serve"
    BY <1>3 DEF Load, At, Labelled, Label
  <2>2. ~Up
    BY <2>1 DEF Up, At, OneServer, Labelled, Label
  <2>3. index = {} /\ \A t \in Thread : Vacant(t)
    BY <2>2 DEF Resolved, Open
  <2>4. deferred' = index' /\ registered' = {} /\ lost' = {} /\ thread' = thread /\ begun' = begun /\ failed' = failed
    BY <1>3, LoadFacts DEF importVars
  <2>7. begun = {} /\ failed = {}
    BY <2>3 DEF TypeOK
  <2>5. Open' = {} /\ \A t \in Thread : Vacant(t)'
    BY <2>3, <2>4 DEF Open, Vacant
  <2>6. Up'
    BY <1>3 DEF Load, Goes, Up, At, TypeOK
  <2> QED BY <2>4, <2>5, <2>6, <2>7 DEF Resolved
<1>4. ASSUME NEW c \in Process, Kill(c) PROVE Resolved'
  <2>1. CASE proc[c].kind = "serve"
    <3>1. /\ index' = {} /\ deferred' = {} /\ registered' = {} /\ lost' = {}
          /\ thread' = [t \in Thread |-> None] /\ begun' = {} /\ failed' = {}
      BY <1>4, <2>1 DEF Kill
    <3>2. Open' = {} /\ \A t \in Thread : Vacant(t)'
      BY <3>1 DEF Open, Vacant
    <3> QED BY <3>1, <3>2 DEF Resolved
  <2>2. CASE proc[c].kind # "serve"
    <3>1. ~At(c, "up")
      BY <2>2 DEF At, Labelled, Label
    <3>2. Up => Up'
      BY <1>4, <3>1 DEF Kill, Ends, Up, At, TypeOK
    <3> QED BY <1>4, <2>2, <3>2, ResolvedStays DEF Kill
  <2> QED BY <2>1, <2>2
<1>5. ASSUME NEW t \in Thread, ThreadStep(t) PROVE Resolved'
  BY <1>5, ThreadResolves
<1>6. CASE UNCHANGED vars
  BY <1>6, ResolvedStays DEF vars, Up, At
<1> QED BY <1>1, <1>2, <1>3, <1>4, <1>5, <1>6 DEF Next, ThreadStep

(* The modules.                                                            *)
LEMMA UnracedStays ==
    ASSUME Unraced, UNCHANGED <<thread, entry, begun, failed, raced>>, lost' \subseteq lost
    PROVE  Unraced'
BY DEF Unraced, Single, Vacant

(* A thread that takes a service of a module that does not become raced is *)
(* the only one at that module.                                            *)
LEMMA AloneAt ==
    ASSUME TypeOK, Unraced, NEW t \in Thread, NEW s \in Service, Overlapping(t, ModuleOf[s]),
           Vacant(t), ModuleOf[s] \notin raced'
    PROVE  /\ \A u \in Thread : ~Vacant(u) => ModuleOf[thread[u]] # ModuleOf[s]
           /\ ModuleOf[s] \in Module \ raced
<1>1. ModuleOf[s] \notin Importing(t) /\ ModuleOf[s] \notin raced /\ ModuleOf[s] \in Module
  BY PluginAssumption DEF Overlapping
<1>2. \A u \in Thread : ~Vacant(u) => ModuleOf[thread[u]] # ModuleOf[s]
  BY <1>1 DEF Importing, Vacant
<1> QED BY <1>1, <1>2

LEMMA ThreadsUnraced ==
    ASSUME TypeOK, Resolved, Unraced, NEW t \in Thread, ThreadStep(t)
    PROVE  Unraced'
<1> SUFFICES ASSUME NEW m \in Module, m \notin raced' PROVE Single(m)'
  BY DEF Unraced
<1>1. CASE Resolve(t)
  <2>1. PICK s \in deferred : /\ entry[ModuleOf[s]] = None /\ thread' = [thread EXCEPT ![t] = s]
                              /\ Overlapping(t, ModuleOf[s])
    BY <1>1 DEF Resolve
  <2>2. /\ Vacant(t) /\ lost' = lost /\ entry' = entry /\ begun' = begun /\ failed' = failed
        /\ s \in Service /\ s # None
    BY <1>1, <2>1, PluginAssumption DEF Resolve, TypeOK, Vacant
  <2>3. m \notin raced /\ Single(m)
    BY <2>1 DEF Overlapping, Unraced
  <2>4. \A u \in Thread : thread'[u] = IF u = t THEN s ELSE thread[u]
    BY <2>1 DEF TypeOK
  <2>5. m = ModuleOf[s] => \A u \in Thread : ~Vacant(u) => ModuleOf[thread[u]] # m
    BY <2>1, <2>2, AloneAt
  <2>6. \A u, v \in Thread : /\ ~Vacant(u)' /\ ModuleOf[thread'[u]] = m
                             /\ ~Vacant(v)' /\ ModuleOf[thread'[v]] = m
                             => u = v
    BY <2>3, <2>4, <2>5 DEF Single, Vacant
  <2>7. \A u \in Thread : ~Vacant(u)' /\ ModuleOf[thread'[u]] = m /\ thread'[u] \notin begun' => entry'[m] = None
    BY <2>1, <2>2, <2>3, <2>4 DEF Single, Vacant
  <2> QED BY <2>2, <2>3, <2>6, <2>7 DEF Single
<1>2. CASE Reuse(t)
  <2>1. PICK s \in deferred : /\ entry[ModuleOf[s]] # None
                              /\ \/ lost' = lost
                                 \/ (s \in Lacking \/ Half(ModuleOf[s])) /\ lost' = lost \union {s}
                              /\ Overlapping(t, ModuleOf[s])
    BY <1>2 DEF Reuse
  <2>2. Vacant(t) /\ s \in Service /\ UNCHANGED <<thread, entry, begun, failed>>
    BY <1>2, <2>1 DEF Reuse, TypeOK, Vacant
  <2>3. m \notin raced /\ Single(m)
    BY <2>1 DEF Overlapping, Unraced
  <2>4. m = ModuleOf[s] => ~Half(m)
    <3> SUFFICES ASSUME m = ModuleOf[s], NEW u \in Thread, thread[u] # None, thread[u] = entry[m] PROVE FALSE
      BY DEF Half
    <3>1. ModuleOf[thread[u]] # m
      BY <2>1, <2>2, AloneAt DEF Vacant
    <3> QED BY <2>3, <3>1 DEF Single
  <2>5. \A r \in lost' \ (failed' \union Lacking) : ModuleOf[r] # m
    BY <2>1, <2>2, <2>3, <2>4 DEF Single
  <2> QED BY <2>2, <2>3, <2>5 DEF Single, Vacant
<1> DEFINE s == thread[t]
<1>3. CASE Create(t)
  <2>1. /\ s # None /\ s \notin begun /\ entry' = [entry EXCEPT ![ModuleOf[s]] = s]
        /\ begun' = begun \union {s} /\ UNCHANGED <<lost, thread, failed, raced>>
    BY <1>3 DEF Create
  <2>2. Single(m) /\ s \in Service /\ s \notin failed /\ ~Vacant(t)
    BY <2>1 DEF Unraced, Resolved, Vacant, Open, TypeOK
  <2>3. entry'[m] = IF m = ModuleOf[s] THEN s ELSE entry[m]
    BY <2>1 DEF TypeOK
  <2>4. m = ModuleOf[s] => entry[m] = None
    BY <2>1, <2>2 DEF Single
  <2> HIDE DEF s
  <2>5. \A r \in begun' \ failed' : ModuleOf[r] = m => entry'[m] = r
    <3> SUFFICES ASSUME NEW r \in begun \ failed, ModuleOf[r] = m, m = ModuleOf[s] PROVE FALSE
      BY <2>1, <2>2, <2>3 DEF Single
    <3>1. entry[m] = r /\ r # None
      BY <2>2, PluginAssumption DEF Single, TypeOK
    <3> QED BY <2>4, <3>1
  <2>6. \A u \in Thread : ~Vacant(u) /\ ModuleOf[thread[u]] = m /\ thread[u] \notin begun' => entry'[m] = None
    <3> SUFFICES ASSUME NEW u \in Thread, ~Vacant(u), ModuleOf[thread[u]] = m, thread[u] \notin begun'
                 PROVE  entry'[m] = None
      OBVIOUS
    <3>1. m # ModuleOf[s]
      BY <2>1, <2>2 DEF Single, s
    <3> QED BY <2>1, <2>2, <2>3, <3>1 DEF Single
  <2>7. entry'[m] # None => ModuleOf[entry'[m]] = m /\ entry'[m] \in begun' \ failed'
    BY <2>1, <2>2, <2>3 DEF Single
  <2> QED BY <2>1, <2>2, <2>5, <2>6, <2>7 DEF Single, Vacant
<1>4. CASE Imported(t) \/ ImportFails(t)
  <2>1. s # None /\ thread' = [thread EXCEPT ![t] = None] /\ begun' = begun /\ raced' = raced
    BY <1>4, PluginAssumption DEF Imported, ImportFails, importVars, TypeOK
  <2>2. Single(m) /\ ~Vacant(t) /\ s \in Service
    BY <2>1 DEF Unraced, Vacant, TypeOK
  <2>3. \A u \in Thread : thread'[u] = IF u = t THEN None ELSE thread[u]
    BY <2>1 DEF TypeOK
  <2>4. \A u \in Thread : ~Vacant(u)' => ~Vacant(u) /\ thread'[u] = thread[u] /\ u # t
    BY <2>3 DEF Vacant
  <2>5. CASE Imported(t)
    <3>1. entry' = entry /\ failed' = failed /\ (lost' = lost \/ (s \in Lacking /\ lost' = lost \union {s}))
      BY <2>5 DEF Imported, importVars
    <3> QED BY <2>1, <2>2, <2>4, <3>1 DEF Single
  <2>6. CASE ImportFails(t)
    <3>1. /\ lost' = lost \union {s} /\ failed' = failed \union {s}
          /\ entry' = IF s \in begun THEN [entry EXCEPT ![ModuleOf[s]] = None] ELSE entry
      BY <2>6 DEF ImportFails
    <3>2. entry'[m] = IF s \in begun /\ m = ModuleOf[s] THEN None ELSE entry[m]
      BY <3>1 DEF TypeOK
    <3> HIDE DEF s
    <3>3. m = ModuleOf[s] => \A u \in Thread : ~Vacant(u)' => ModuleOf[thread'[u]] # m
      BY <2>2, <2>4 DEF Single, s
    <3>4. s \in failed \/ m # ModuleOf[s] \/ s \notin begun \/ entry[m] = s
      BY <2>2 DEF Single
    <3>5. s \notin failed
      BY <2>1, <2>2 DEF Resolved, Vacant, Open, s
    <3>6. \A r \in begun' \ failed' : ModuleOf[r] = m => entry'[m] = r
      BY <2>1, <2>2, <3>1, <3>2, <3>4, <3>5 DEF Single
    <3>7. entry'[m] # None => ModuleOf[entry'[m]] = m /\ entry'[m] \in begun' \ failed'
      <4>1. entry'[m] # None => entry[m] = entry'[m] /\ ~(s \in begun /\ m = ModuleOf[s])
        BY <3>2
      <4>2. entry[m] # None /\ entry[m] = s => s \in begun /\ ModuleOf[s] = m
        BY <2>2 DEF Single
      <4> QED BY <2>1, <2>2, <3>1, <4>1, <4>2 DEF Single
    <3>8. \A u \in Thread : ~Vacant(u)' /\ ModuleOf[thread'[u]] = m /\ thread'[u] \notin begun' => entry'[m] = None
      BY <2>1, <2>2, <2>4, <3>2, <3>3 DEF Single
    <3>9. \A r \in lost' \ (failed' \union Lacking) : ModuleOf[r] # m
      BY <2>2, <3>1 DEF Single
    <3>10. \A u, v \in Thread : /\ ~Vacant(u)' /\ ModuleOf[thread'[u]] = m
                                /\ ~Vacant(v)' /\ ModuleOf[thread'[v]] = m
                                => u = v
      BY <2>2, <2>4 DEF Single
    <3> QED BY <3>6, <3>7, <3>8, <3>9, <3>10 DEF Single
  <2> QED BY <1>4, <2>5, <2>6
<1> QED BY <1>1, <1>2, <1>3, <1>4 DEF ThreadStep

LEMMA UnracedStep == TypeOK /\ Resolved /\ Unraced /\ [Next]_vars => Unraced'
<1> SUFFICES ASSUME TypeOK, Resolved, Unraced, [Next]_vars PROVE Unraced'
  OBVIOUS
<1>1. CASE UNCHANGED serverVars
  BY <1>1, UnracedStays DEF serverVars, importVars
<1>2. ASSUME NEW c \in Process, Load(c) PROVE Unraced'
  BY <1>2, LoadFacts, UnracedStays DEF importVars
<1>3. ASSUME NEW c \in Process, Kill(c) PROVE Unraced'
  <2>1. CASE proc[c].kind = "serve"
    <3>1. /\ lost' = {} /\ thread' = [t \in Thread |-> None] /\ entry' = [m \in Module |-> None]
          /\ begun' = {} /\ failed' = {}
      BY <1>3, <2>1 DEF Kill
    <3> QED BY <3>1 DEF Unraced, Single, Vacant
  <2> QED BY <1>1, <1>3, <2>1 DEF Kill
<1>4. ASSUME NEW t \in Thread, ThreadStep(t) PROVE Unraced'
  BY <1>4, ThreadsUnraced
<1>5. ASSUME NEW c \in Process,
             \/ Give(c) \/ CheckDependents(c) \/ ReadToggle(c) \/ Discover(c) \/ ReadMerge(c) \/ Truncate(c)
             \/ Write(c) \/ Uninstall(c) \/ Copy(c) \/ CopyFails(c)
      PROVE  Unraced'
  BY <1>1, <1>5 DEF Give, CheckDependents, ReadToggle, Discover, ReadMerge, Truncate, Write, Uninstall, Copy,
     CopyFails
<1>6. CASE UNCHANGED vars
  BY <1>1, <1>6 DEF vars
<1> QED BY <1>2, <1>3, <1>4, <1>5, <1>6 DEF Next, ThreadStep

(* What is loaded stays until the next load, and what it depends on too.   *)
LEMMA LoadOrderStep == TypeOK /\ LoadOrder /\ [Next]_vars => LoadOrder'
<1> SUFFICES ASSUME TypeOK, LoadOrder, [Next]_vars PROVE LoadOrder'
  OBVIOUS
<1>1. CASE loaded' = loaded /\ deps' = deps
  BY <1>1 DEF LoadOrder
<1>2. CASE loaded' = <<>>
  BY <1>2 DEF LoadOrder
<1>3. ASSUME NEW c \in Process, Load(c) PROVE LoadOrder'
  BY <1>3, LoadFacts DEF LoadOrder, Ordered
<1>4. ASSUME NEW c \in Process, Kill(c) PROVE LoadOrder'
  <2>1. deps' = deps /\ (loaded' = loaded \/ loaded' = <<>>)
    BY <1>4 DEF Kill, diskVars, serverVars
  <2> QED BY <1>1, <1>2, <2>1
<1>5. ASSUME NEW c \in Process,
             \/ Give(c) \/ CheckDependents(c) \/ ReadToggle(c) \/ Discover(c) \/ ReadMerge(c) \/ Truncate(c)
             \/ Write(c) \/ Uninstall(c) \/ Copy(c) \/ CopyFails(c)
      PROVE  LoadOrder'
  BY <1>1, <1>5 DEF Give, CheckDependents, ReadToggle, Discover, ReadMerge, Truncate, Write, Uninstall, Copy,
     CopyFails, diskVars, serverVars
<1>6. ASSUME NEW t \in Thread, ThreadStep(t) PROVE LoadOrder'
  BY <1>1, <1>6 DEF ThreadStep, Resolve, Reuse, Create, Imported, ImportFails, diskVars
<1>7. CASE UNCHANGED vars
  BY <1>1, <1>7 DEF vars, diskVars, serverVars
<1> QED BY <1>3, <1>4, <1>5, <1>6, <1>7 DEF Next, ThreadStep

-----------------------------------------------------------------------------
(* The toggles.                                                            *)

(* A step that writes nothing, and is not about to.                        *)
LEMMA QuietStep ==
    ASSUME TypeOK, Undisturbed, NEW c \in Process, NEW r, GoesOn(c, r), UNCHANGED <<file, wanted>>,
           r.at \notin {"truncate", "write"}, ~At(c, "write"),
           r.at \in {"idle", "up"} \/ \A d \in Process : Busy(d) => d = c
    PROVE  Undisturbed'
<1>1. proc'[c] = r /\ \A d \in Process : d # c => proc'[d] = proc[d]
  BY DEF GoesOn, TypeOK
<1>2. OneBusy'
  BY <1>1 DEF Undisturbed, OneBusy, Busy
<1>3. Writing' <=> Writing
  BY <1>1 DEF Writing, At
<1>4. ASSUME NEW d \in Process, At(d, "truncate")' \/ At(d, "write")' PROVE Holds(d)'
  <2>1. d # c /\ proc'[d] = proc[d] /\ (At(d, "truncate") \/ At(d, "write"))
    BY <1>1, <1>4 DEF At
  <2>2. Holds(d)
    BY <2>1 DEF Undisturbed
  <2> QED BY <2>1, <2>2 DEF Holds, Toggles, Target, Agrees
<1>5. ~Writing' => Agrees(file, DOMAIN wanted)'
  BY <1>3 DEF Undisturbed, Agrees
<1> QED BY <1>2, <1>4, <1>5 DEF Undisturbed

(* A step of the busy command between its reading and its writing.         *)
LEMMA HoldingStep ==
    ASSUME TypeOK, Undisturbed, NEW c \in Process, NEW r, GoesOn(c, r), Busy(c), wanted' = wanted,
           r.at \in {"truncate", "write"}, Holds(c)', r.at = "write" \/ (file' = file /\ ~At(c, "write"))
    PROVE  Undisturbed'
<1>1. proc'[c] = r /\ \A d \in Process : d # c => proc'[d] = proc[d]
  BY DEF GoesOn, TypeOK
<1>2. \A d \in Process : Busy(d) => d = c
  BY DEF Undisturbed, OneBusy
<1>3. \A d \in Process : Busy(d)' => d = c
  BY <1>1, <1>2 DEF Busy
<1>4. OneBusy'
  BY <1>3 DEF OneBusy
<1>5. ASSUME NEW d \in Process, At(d, "truncate")' \/ At(d, "write")' PROVE Holds(d)'
  <2>1. d = c
    BY <1>3, <1>5 DEF Busy, At
  <2> QED BY <2>1
<1>6. ~Writing' => Agrees(file, DOMAIN wanted)'
  <2>1. CASE r.at = "write"
    BY <1>1, <2>1 DEF Writing, At
  <2>2. CASE file' = file /\ ~At(c, "write")
    <3>1. ~Writing
      BY <1>2, <2>2 DEF Writing, Busy, At
    <3> QED BY <2>2, <3>1 DEF Undisturbed, Agrees
  <2> QED BY <2>1, <2>2
<1> QED BY <1>4, <1>5, <1>6 DEF Undisturbed

LEMMA ReadToggleHolds ==
    ASSUME TypeOK, Labelled, Undisturbed, NEW c \in Process, ReadToggle(c), Target(c) \in DOMAIN file
    PROVE  Undisturbed'
<1> DEFINE seen == [file EXCEPT ![Target(c)] = proc[c].on]
           t == Target(c)
<1>1. PICK r : GoesOn(c, r) /\ r = [proc[c] EXCEPT !.at = "truncate", !.seen = seen]
  BY ReadToggleStep
<1>2. proc[c] \in Command /\ At(c, "read") /\ Toggles(c) /\ UNCHANGED <<file, wanted>>
  BY DEF TypeOK, ReadToggle, diskVars
<1>3. Busy(c) /\ ~Writing
  BY <1>2 DEF Busy, At, Undisturbed, OneBusy, Writing
<1>4. Agrees(file, DOMAIN wanted)
  BY <1>3 DEF Undisturbed
<1>5. DOMAIN seen = DOMAIN file /\ seen[t] = proc[c].on /\ \A p \in DOMAIN file : p # t => seen[p] = file[p]
  OBVIOUS
<1> HIDE DEF seen
<1>6. proc'[c] = r /\ r.kind = proc[c].kind /\ r.rest = proc[c].rest /\ r.on = proc[c].on /\ r.seen = seen /\ r.at = "truncate"
  BY <1>1, <1>2 DEF GoesOn, TypeOK, Command
<1>7. Toggles(c)' /\ Target(c)' = t
  BY <1>2, <1>6 DEF Toggles, Target
<1>8. Agrees(seen, DOMAIN wanted \ {t})
  BY <1>4, <1>5 DEF Agrees
<1>9. Holds(c)'
  BY <1>2, <1>5, <1>6, <1>7, <1>8 DEF Holds, Agrees
<1> QED BY <1>1, <1>2, <1>3, <1>6, <1>9, HoldingStep DEF At

LEMMA ReadMergeHolds ==
    ASSUME TypeOK, Labelled, Undisturbed, NEW c \in Process, ReadMerge(c)
    PROVE  Undisturbed'
<1> DEFINE seen == Merged(file, proc[c].found)
<1>1. PICK r : GoesOn(c, r) /\ r = [proc[c] EXCEPT !.at = "truncate", !.seen = seen]
  BY ReadMergeStep
<1>2. proc[c] \in Command /\ At(c, "read") /\ ~Toggles(c) /\ UNCHANGED <<file, wanted>>
  BY DEF TypeOK, ReadMerge, diskVars
<1>3. Busy(c) /\ ~Writing
  BY <1>2 DEF Busy, At, Undisturbed, OneBusy, Writing
<1>4. Agrees(file, DOMAIN wanted)
  BY <1>3 DEF Undisturbed
<1>5. DOMAIN seen = proc[c].found /\ \A p \in proc[c].found : p \in DOMAIN file => seen[p] = file[p]
  BY DEF Merged
<1> HIDE DEF seen
<1>6. proc'[c] = r /\ r.kind = proc[c].kind /\ r.found = proc[c].found /\ r.seen = seen /\ r.at = "truncate"
  BY <1>1, <1>2 DEF GoesOn, TypeOK, Command
<1>7. Agrees(seen, DOMAIN wanted \intersect proc[c].found)
  BY <1>4, <1>5 DEF Agrees
<1>8. Holds(c)'
  BY <1>2, <1>5, <1>6, <1>7 DEF Holds, Agrees, Toggles
<1> QED BY <1>1, <1>2, <1>3, <1>6, <1>8, HoldingStep DEF At

LEMMA TruncateHolds ==
    ASSUME TypeOK, Labelled, Undisturbed, NEW c \in Process, Truncate(c)
    PROVE  Undisturbed'
<1>1. At(c, "truncate") /\ proc' = [proc EXCEPT ![c].at = "write"] /\ wanted' = wanted /\ proc[c] \in Command
  BY DEF Truncate, Goes, TypeOK
<1>2. Holds(c)
  BY <1>1 DEF Undisturbed
<1>3. /\ proc'[c].kind = proc[c].kind /\ proc'[c].rest = proc[c].rest /\ proc'[c].on = proc[c].on
      /\ proc'[c].seen = proc[c].seen /\ proc'[c].found = proc[c].found /\ proc'[c].at = "write"
  BY <1>1 DEF TypeOK, Command
<1>4. Holds(c)'
  BY <1>1, <1>2, <1>3 DEF Holds, Agrees, Toggles, Target
<1>5. PICK r : GoesOn(c, r)
  BY CommandStep
<1>6. r = proc'[c] /\ Busy(c)
  BY <1>1, <1>5 DEF GoesOn, TypeOK, Busy, At
<1> QED BY <1>1, <1>3, <1>4, <1>5, <1>6, HoldingStep

LEMMA WriteHolds ==
    ASSUME TypeOK, Labelled, Undisturbed, NEW c \in Process, Write(c)
    PROVE  Undisturbed'
<1> DEFINE seen == proc[c].seen
           t == Target(c)
<1>1. At(c, "write") /\ Continue(c) /\ file' = seen /\ Holds(c) /\ Busy(c)
  BY DEF Write, Undisturbed, Busy, At
<1>2. PICK r : GoesOn(c, r) /\ r.at \in {"idle", "remove", "load"}
  BY <1>1, ContinueStep
<1>3. proc'[c] = r /\ \A d \in Process : d # c => proc'[d] = proc[d]
  BY <1>2 DEF GoesOn, TypeOK
<1>4. \A d \in Process : Busy(d)' => d = c
  BY <1>1, <1>3 DEF Undisturbed, OneBusy, Busy
<1>5. OneBusy' /\ \A d \in Process : ~(At(d, "truncate") \/ At(d, "write"))'
  BY <1>2, <1>3, <1>4 DEF OneBusy, Busy, At
<1>6. Agrees(file, DOMAIN wanted)'
  <2>1. CASE Toggles(c)
    <3>1. wanted' = [p \in DOMAIN wanted \union {t} |-> IF p = t THEN proc[c].on ELSE wanted[p]]
      BY <2>1 DEF Write
    <3>2. t \in DOMAIN seen /\ seen[t] = proc[c].on /\ Agrees(seen, DOMAIN wanted \ {t})
      BY <1>1, <2>1 DEF Holds
    <3> HIDE DEF seen, t
    <3>3. \A p \in DOMAIN wanted' : p \in DOMAIN seen /\ seen[p] = wanted'[p]
      BY <3>1, <3>2 DEF Agrees
    <3> QED BY <1>1, <3>3 DEF Agrees
  <2>2. CASE ~Toggles(c)
    <3>1. wanted' = [p \in DOMAIN wanted \intersect proc[c].found |-> wanted[p]]
      BY <2>2 DEF Write
    <3>2. Agrees(seen, DOMAIN wanted \intersect proc[c].found)
      BY <1>1, <2>2 DEF Holds
    <3> HIDE DEF seen
    <3>3. \A p \in DOMAIN wanted' : p \in DOMAIN seen /\ seen[p] = wanted'[p]
      BY <3>1, <3>2 DEF Agrees
    <3> QED BY <1>1, <3>3 DEF Agrees
  <2> QED BY <2>1, <2>2
<1> QED BY <1>5, <1>6 DEF Undisturbed

LEMMA UndisturbedStep ==
    ASSUME TypeOK, Labelled, ~disturbed => Undisturbed, [Next]_vars, ~disturbed'
    PROVE  Undisturbed'
<1>1. ASSUME NEW c \in Process, Give(c) PROVE Undisturbed'
  <2>1. ~disturbed /\ \A d \in Process : ~Busy(d)
    BY <1>1 DEF Give, TypeOK
  <2>2. PICK r : GoesOn(c, r) /\ r.at \notin {"truncate", "write", "idle", "up"} /\ At(c, "idle")
    BY <1>1, GiveStep
  <2>3. UNCHANGED <<file, wanted>>
    BY <1>1 DEF Give, diskVars
  <2> QED BY <2>1, <2>2, <2>3, QuietStep DEF At
<1>2. ASSUME NEW c \in Process,
             \/ CheckDependents(c) \/ (ReadToggle(c) /\ Target(c) \notin DOMAIN file) \/ Discover(c)
             \/ Uninstall(c) \/ Copy(c) \/ CopyFails(c) \/ Load(c)
      PROVE  Undisturbed'
  <2>1. ~disturbed /\ UNCHANGED <<file, wanted>>
    BY <1>2 DEF CheckDependents, ReadToggle, Discover, Uninstall, Copy, CopyFails, Load, TypeOK, diskVars
  <2>2. At(c, "check") \/ At(c, "read") \/ At(c, "discover") \/ At(c, "remove") \/ At(c, "copy") \/ At(c, "load")
    BY <1>2 DEF CheckDependents, ReadToggle, Discover, Uninstall, Copy, CopyFails, Load
  <2>3. Busy(c) /\ ~At(c, "write")
    BY <2>2 DEF Busy, At
  <2>4. \A d \in Process : Busy(d) => d = c
    BY <2>1, <2>3 DEF Undisturbed, OneBusy
  <2>5. PICK r : GoesOn(c, r)
    BY <1>2, CommandStep
  <2>6. proc'[c] = r
    BY <2>5 DEF GoesOn, TypeOK
  <2>7. proc'[c].at \notin {"truncate", "write"}
    <3>1. CASE CopyFails(c)
      <4>1. Continue(c) /\ At(c, "copy")
        BY <3>1 DEF CopyFails
      <4>2. PICK q : GoesOn(c, q) /\ q.at \in {"idle", "remove", "load"}
        BY <4>1, ContinueStep
      <4> QED BY <4>2 DEF GoesOn, TypeOK
    <3>2. CASE CheckDependents(c) \/ Discover(c) \/ Uninstall(c) \/ Copy(c) \/ Load(c)
               \/ (ReadToggle(c) /\ Target(c) \notin DOMAIN file)
      BY <3>2 DEF CheckDependents, ReadToggle, Discover, Uninstall, Copy, Load, Ends, Goes, Idle, TypeOK, Command
    <3> QED BY <1>2, <3>1, <3>2
  <2> QED BY <2>1, <2>3, <2>4, <2>5, <2>6, <2>7, QuietStep
<1>3. ASSUME NEW c \in Process,
             (ReadToggle(c) /\ Target(c) \in DOMAIN file) \/ ReadMerge(c) \/ Truncate(c) \/ Write(c)
      PROVE  Undisturbed'
  <2>1. ~disturbed
    BY <1>3 DEF ReadToggle, ReadMerge, Truncate, Write
  <2> QED BY <1>3, <2>1, ReadToggleHolds, ReadMergeHolds, TruncateHolds, WriteHolds
<1>4. ASSUME NEW c \in Process, Kill(c) PROVE Undisturbed'
  <2>1. ~disturbed /\ ~At(c, "write") /\ Ends(c) /\ UNCHANGED <<file, wanted>>
    BY <1>4 DEF Kill, diskVars
  <2>2. GoesOn(c, Idle) /\ Idle.at = "idle"
    BY <2>1, EndsStep DEF Idle
  <2> QED BY <2>1, <2>2, QuietStep
<1>5. CASE UNCHANGED <<proc, file, wanted, disturbed>>
  <2>1. ~disturbed
    BY <1>5
  <2> QED BY <1>5, <2>1 DEF Undisturbed, OneBusy, Busy, Writing, At, Agrees, Holds, Toggles, Target
<1>6. ASSUME NEW t \in Thread, ThreadStep(t) PROVE Undisturbed'
  BY <1>5, <1>6 DEF ThreadStep, Resolve, Reuse, Create, Imported, ImportFails, diskVars
<1>7. CASE UNCHANGED vars
  BY <1>5, <1>7 DEF vars, diskVars
<1> QED BY <1>1, <1>2, <1>3, <1>4, <1>6, <1>7 DEF Next, ThreadStep

-----------------------------------------------------------------------------
(* The theorems.                                                           *)

(***************************************************************************)
(* The inductive invariant: what a command is about to write are the       *)
(* toggles last set, as long as commands do not overlap; every service of  *)
(* the one server is in one place; what is loaded is ordered.              *)
(***************************************************************************)
THEOREM PluginsInvariant == Spec => []IInv
<1>1. Init => IInv
  <2> SUFFICES ASSUME Init PROVE IInv
    OBVIOUS
  <2>1. TypeOK
    <3>1. proc \in [Process -> Command]
      BY IdleFacts DEF Init
    <3>2. given \in 0 .. MaxCommands
      BY PluginAssumption DEF Init
    <3>3. file \in Togglings /\ wanted \in Togglings
      BY NoTogglesFacts DEF Init
    <3>4. loaded \in Seq(Plugin)
      BY DEF Init
    <3> QED BY <3>1, <3>2, <3>3, <3>4 DEF Init, TypeOK
  <2>2. Labelled /\ \A c \in Process : proc[c] = Idle /\ Idle.kind = "none" /\ Idle.at = "idle"
    BY IdleFacts DEF Init, Labelled, Idle
  <2>3. OneServer /\ LoadOrder
    BY <2>2 DEF Init, OneServer, LoadOrder
  <2>4. Resolved /\ Unraced
    BY DEF Init, Resolved, Open, Vacant, Unraced, Single
  <2>5. Undisturbed
    BY <2>2, NoTogglesFacts DEF Init, Undisturbed, OneBusy, Busy, At, Agrees
  <2> QED BY <2>1, <2>2, <2>3, <2>4, <2>5 DEF IInv
<1>2. IInv /\ [Next]_vars => IInv'
  BY TypeStep, OneServerStep, ResolvedStep, UnracedStep, LoadOrderStep, UndisturbedStep DEF IInv
<1> QED BY <1>1, <1>2, PTL DEF Spec

(* Every variable has its type, for any number of plugins and processes.   *)
THEOREM PluginsTyped == Spec => []TypeOK
<1>1. IInv => TypeOK
  BY DEF IInv
<1> QED BY <1>1, PluginsInvariant, PTL

(***************************************************************************)
(* The state file keeps the toggle last set for every plugin, through      *)
(* rescans, updates, failures and server starts, as long as no two         *)
(* commands overlap and none is killed inside a write: for any number of   *)
(* plugins and commands.                                                   *)
(***************************************************************************)
THEOREM TogglesStay == Spec => []TogglesKept
<1>1. IInv => TogglesKept
  BY DEF IInv, Undisturbed, Agrees, TogglesKept
<1> QED BY <1>1, PluginsInvariant, PTL

(***************************************************************************)
(* What a loaded plugin depends on is loaded before it, if at all, and was *)
(* found: whatever the manifests declare, with missing plugins, with       *)
(* skipped ones in any place, and with cycles.                             *)
(***************************************************************************)
THEOREM DependenciesAreLoadedFirst == Spec => []LoadOrder
<1>1. IInv => LoadOrder
  BY DEF IInv
<1> QED BY <1>1, PluginsInvariant, PTL

(***************************************************************************)
(* Each service is in one place; and unless two threads resolved services  *)
(* of one module at once, that module is run once, but for runs that fail, *)
(* and no service of it is lost but to a failed import of its own or       *)
(* because its function is not there: for any number of threads, services  *)
(* and modules.                                                            *)
(***************************************************************************)
THEOREM ServicesAreImportedOnce == Spec => []EachServiceOnce
<1>1. IInv => EachServiceOnce
  <2>6. ASSUME IInv
        PROVE  /\ \A r, q \in begun \ failed : ModuleOf[r] = ModuleOf[q] => r = q \/ ModuleOf[r] \in raced
               /\ \A r \in lost \ (failed \union Lacking) : ModuleOf[r] \in raced
    <3>1. \A r \in Service : ModuleOf[r] \in raced \/ Single(ModuleOf[r])
      BY <2>6, PluginAssumption DEF IInv, Unraced
    <3>2. begun \subseteq Service /\ lost \subseteq Service
      BY <2>6 DEF IInv, TypeOK
    <3> QED BY <3>1, <3>2 DEF Single
  <2> SUFFICES ASSUME IInv, NEW s \in index
               PROVE  Quantify(Thread, LAMBDA t : thread[t] = s)
                      + Quantify({1, 2, 3}, LAMBDA i : s \in <<deferred, registered, lost>>[i]) = 1
    BY <2>6 DEF EachServiceOnce
  <2> DEFINE importing == {t \in Thread : thread[t] = s}
             places == {i \in {1, 2, 3} : s \in <<deferred, registered, lost>>[i]}
  <2>1. /\ Quantify(Thread, LAMBDA t : thread[t] = s) = Cardinality(importing)
        /\ Quantify({1, 2, 3}, LAMBDA i : s \in <<deferred, registered, lost>>[i]) = Cardinality(places)
    BY DEF Quantify
  <2>2. s # None
    BY PluginAssumption DEF IInv, TypeOK
  <2>3. places = {i \in {1, 2, 3} : (i = 1 /\ s \in deferred) \/ (i = 2 /\ s \in registered) \/ (i = 3 /\ s \in lost)}
    OBVIOUS
  <2> HIDE DEF places
  <2>4. CASE s \in Open
    <3>1. PICK t \in Thread : thread[t] = s
      BY <2>4 DEF IInv, Resolved
    <3>2. importing = {t}
      BY <2>2, <3>1 DEF IInv, Resolved, Vacant
    <3>3. places = {}
      BY <2>3, <2>4 DEF Open
    <3>4. Cardinality(importing) = 1 /\ Cardinality(places) = 0
      BY <3>2, <3>3, FS_Singleton, FS_EmptySet
    <3> QED BY <2>1, <3>4
  <2>5. CASE s \notin Open
    <3>1. importing = {}
      BY <2>2, <2>5 DEF IInv, Resolved, Vacant
    <3>2. \/ s \in deferred /\ s \notin registered /\ s \notin lost
          \/ s \notin deferred /\ s \in registered /\ s \notin lost
          \/ s \notin deferred /\ s \notin registered /\ s \in lost
      BY <2>5 DEF IInv, Resolved, Open
    <3>3. places = {1} \/ places = {2} \/ places = {3}
      BY <2>3, <3>2
    <3>4. Cardinality(importing) = 0
      BY <3>1, FS_EmptySet
    <3>5. Cardinality(places) = 1
      BY <3>3, FS_Singleton
    <3> QED BY <2>1, <3>4, <3>5
  <2> QED BY <2>4, <2>5
<1> QED BY <1>1, PluginsInvariant, PTL

-----------------------------------------------------------------------------
(* Loops: f goes from x on, n times, by g, and stays in sets that each     *)
(* turn leads into the next of.                                            *)

Loop(f, n, x, g) == f = [m \in 0 .. n |-> IF m = 0 THEN x ELSE g[m][f[m - 1]]]

LEMMA LoopEnds ==
    ASSUME NEW n \in Nat, NEW I, NEW x \in I[0], NEW g,
           \A m \in 1 .. n : \A y \in I[m - 1] : g[m][y] \in I[m]
    PROVE  \E f : Loop(f, n, x, g) /\ \A m \in 0 .. n : f[m] \in I[m]
<1> DEFINE T == {m \in 0 .. n : \E f : Loop(f, m, x, g) /\ \A k \in 0 .. m : f[k] \in I[k]}
<1>1. 0 \in T
  <2> DEFINE f == [k \in 0 .. 0 |-> x]
  <2>1. Loop(f, 0, x, g) /\ \A k \in 0 .. 0 : f[k] \in I[k]
    BY DEF Loop
  <2> QED BY <2>1
<1>2. ASSUME NEW m \in 0 .. n - 1, m \in T PROVE m + 1 \in T
  <2>1. PICK f : Loop(f, m, x, g) /\ \A k \in 0 .. m : f[k] \in I[k]
    BY <1>2
  <2> DEFINE h == [k \in 0 .. m + 1 |-> IF k = m + 1 THEN g[m + 1][f[m]] ELSE f[k]]
  <2>2. m + 1 \in 1 .. n /\ (m + 1) - 1 = m /\ m \in 0 .. m
    OBVIOUS
  <2>3. h[m + 1] = g[m + 1][f[m]] /\ h[m + 1] \in I[m + 1]
    <3>1. f[m] \in I[(m + 1) - 1]
      BY <2>1, <2>2
    <3>2. g[m + 1][f[m]] \in I[m + 1]
      BY <2>2, <3>1
    <3>3. h[m + 1] = g[m + 1][f[m]]
      BY <2>2
    <3> QED BY <3>2, <3>3
  <2>4. \A k \in 0 .. m : h[k] = f[k]
    OBVIOUS
  <2>5. \A k \in 0 .. m : f[k] = IF k = 0 THEN x ELSE g[k][f[k - 1]]
    BY <2>1 DEF Loop
  <2>6. h = [k \in 0 .. m + 1 |-> h[k]]
    OBVIOUS
  <2> HIDE DEF h
  <2>7. \A k \in 0 .. m + 1 : h[k] = IF k = 0 THEN x ELSE g[k][h[k - 1]]
    <3> SUFFICES ASSUME NEW k \in 0 .. m + 1 PROVE h[k] = IF k = 0 THEN x ELSE g[k][h[k - 1]]
      OBVIOUS
    <3>1. CASE k = m + 1
      <4>1. k # 0 /\ k - 1 = m /\ h[k - 1] = f[m]
        BY <2>2, <2>4, <3>1
      <4> QED BY <2>3, <3>1, <4>1
    <3>2. CASE k # m + 1
      <4>1. k \in 0 .. m /\ (k # 0 => k - 1 \in 0 .. m)
        BY <3>2
      <4> QED BY <2>4, <2>5, <4>1
    <3> QED BY <3>1, <3>2
  <2>8. Loop(h, m + 1, x, g)
    BY <2>6, <2>7 DEF Loop
  <2>9. \A k \in 0 .. m + 1 : h[k] \in I[k]
    <3>1. \A k \in 0 .. m + 1 : k = m + 1 \/ k \in 0 .. m
      OBVIOUS
    <3> QED BY <2>1, <2>3, <2>4, <3>1
  <2>10. m + 1 \in 0 .. n
    OBVIOUS
  <2> QED BY <2>8, <2>9, <2>10
<1>3. n \in T
  <2> HIDE DEF T
  <2>1. 0 .. n \subseteq T
    BY <1>1, <1>2, Induct
  <2> QED BY <2>1
<1> QED BY <1>3

(* What each turn keeps holds after all of them.                           *)
LEMMA LoopKeeps ==
    ASSUME NEW n \in Nat, NEW I, NEW f, f[0] \in I[0], \A m \in 1 .. n : f[m - 1] \in I[m - 1] => f[m] \in I[m]
    PROVE  \A m \in 0 .. n : f[m] \in I[m]
<1> DEFINE T == {m \in 0 .. n : f[m] \in I[m]}
<1>1. 0 \in T
  OBVIOUS
<1>2. \A m \in 0 .. n - 1 : m \in T => m + 1 \in T
  <2> SUFFICES ASSUME NEW m \in 0 .. n - 1, m \in T PROVE m + 1 \in T
    OBVIOUS
  <2>1. m + 1 \in 1 .. n /\ m + 1 \in 0 .. n /\ (m + 1) - 1 = m
    OBVIOUS
  <2> QED BY <2>1
<1>3. 0 .. n \subseteq T
  <2> HIDE DEF T
  <2> QED BY <1>1, <1>2, Induct
<1> QED BY <1>3

-----------------------------------------------------------------------------
(* Which plugins are found.                                                *)

(* Where the elements of z, those of s up to m that are in set, are in s.  *)
Places(s, set, m, z, h) ==
  /\ h \in [1 .. Len(z) -> 1 .. m]
  /\ \A i, j \in 1 .. Len(z) : i < j => h[i] < h[j]
  /\ \A i \in 1 .. Len(z) : z[i] = s[h[i]] /\ s[h[i]] \in set
  /\ \A k \in 1 .. m : s[k] \in set => \E i \in 1 .. Len(z) : h[i] = k

LEMMA PlacesNext ==
    ASSUME NEW S, NEW s \in Seq(S), NEW set, NEW m \in 1 .. Len(s), NEW z \in Seq(S), NEW h,
           Places(s, set, m - 1, z, h)
    PROVE  LET next == IF s[m] \in set THEN Append(z, s[m]) ELSE z
           IN next \in Seq(S) /\ \E k : Places(s, set, m, next, k)
<1>1. m \in Nat \ {0} /\ s[m] \in S /\ Len(z) \in Nat
  OBVIOUS
<1>2. \A k \in 1 .. m : k = m \/ k \in 1 .. m - 1
  BY <1>1
<1>3. \A k \in 1 .. m - 1 : k \in 1 .. m /\ k < m
  BY <1>1
<1>4. CASE s[m] \notin set
  <2>1. Places(s, set, m, z, h)
    <3>1. h \in [1 .. Len(z) -> 1 .. m]
      BY <1>3 DEF Places
    <3>2. \A k \in 1 .. m : s[k] \in set => k \in 1 .. m - 1
      BY <1>2, <1>4
    <3> QED BY <3>1, <3>2 DEF Places
  <2> QED BY <1>4, <2>1
<1>5. CASE s[m] \in set
  <2> DEFINE a == Append(z, s[m])
             n == Len(z)
             k == [i \in 1 .. n + 1 |-> IF i = n + 1 THEN m ELSE h[i]]
  <2>1. /\ a \in Seq(S) /\ n \in Nat /\ Len(a) = n + 1 /\ a[n + 1] = s[m]
        /\ \A i \in 1 .. n : a[i] = z[i]
    BY <1>1
  <2>2. \A i \in 1 .. n + 1 : i = n + 1 \/ i \in 1 .. n
    BY <1>1
  <2>3. \A i \in 1 .. n : i \in 1 .. n + 1 /\ i # n + 1 /\ ~(n + 1 < i)
    BY <1>1
  <2>4. k[n + 1] = m /\ (\A i \in 1 .. n : k[i] = h[i] /\ h[i] \in 1 .. m - 1) /\ n + 1 \in 1 .. n + 1
    BY <1>1, <2>3 DEF Places
  <2>5. k \in [1 .. n + 1 -> 1 .. m]
    <3>1. m \in 1 .. m /\ k = [i \in 1 .. n + 1 |-> k[i]]
      BY <1>1
    <3> HIDE DEF k
    <3>2. \A i \in 1 .. n + 1 : k[i] \in 1 .. m
      BY <1>3, <2>2, <2>4, <3>1
    <3> QED BY <3>1, <3>2
  <2> HIDE DEF a, k, n
  <2>6. \A i, j \in 1 .. n + 1 : i < j => k[i] < k[j]
    <3> SUFFICES ASSUME NEW i \in 1 .. n + 1, NEW j \in 1 .. n + 1, i < j PROVE k[i] < k[j]
      OBVIOUS
    <3>1. i # n + 1
      BY <2>1
    <3>2. i \in 1 .. n
      BY <2>2, <3>1
    <3>3. CASE j = n + 1
      BY <1>3, <2>4, <3>2, <3>3
    <3>4. CASE j \in 1 .. n
      BY <2>4, <3>2, <3>4 DEF Places, n
    <3> QED BY <2>2, <3>3, <3>4
  <2>7. \A i \in 1 .. n + 1 : a[i] = s[k[i]] /\ s[k[i]] \in set
    <3> SUFFICES ASSUME NEW i \in 1 .. n + 1 PROVE a[i] = s[k[i]] /\ s[k[i]] \in set
      OBVIOUS
    <3>1. CASE i = n + 1
      BY <1>5, <2>1, <2>4, <3>1
    <3>2. CASE i \in 1 .. n
      BY <2>1, <2>4, <3>2 DEF Places, n
    <3> QED BY <2>2, <3>1, <3>2
  <2>8. \A l \in 1 .. m : s[l] \in set => \E i \in 1 .. n + 1 : k[i] = l
    <3> SUFFICES ASSUME NEW l \in 1 .. m, s[l] \in set PROVE \E i \in 1 .. n + 1 : k[i] = l
      OBVIOUS
    <3>1. CASE l = m
      BY <2>4, <3>1
    <3>2. CASE l \in 1 .. m - 1
      <4>1. PICK i \in 1 .. n : h[i] = l
        BY <3>2 DEF Places, n
      <4> QED BY <2>3, <2>4, <4>1
    <3> QED BY <1>2, <3>1, <3>2
  <2>9. Places(s, set, m, a, k)
    BY <2>1, <2>5, <2>6, <2>7, <2>8 DEF Places
  <2> QED BY <1>5, <2>1, <2>9 DEF a
<1> QED BY <1>4, <1>5

LEMMA KeptPlaces ==
    ASSUME NEW S, NEW s \in Seq(S), NEW set
    PROVE  Kept(s, set) \in Seq(S) /\ \E h : Places(s, set, Len(s), Kept(s, set), h)
<1> DEFINE n == Len(s)
           I == [m \in 0 .. n |-> {z \in Seq(S) : \E h : Places(s, set, m, z, h)}]
           g == [m \in 1 .. n |-> [z \in Seq(S) |-> IF s[m] \in set THEN Append(z, s[m]) ELSE z]]
           Is(f) == f = [m \in 0 .. Len(s) |-> IF m = 0 THEN <<>>
                           ELSE IF s[m] \in set THEN Append(f[m - 1], s[m]) ELSE f[m - 1]]
           after == CHOOSE f : Is(f)
<1>1. n \in Nat /\ 0 \in 0 .. n /\ n \in 0 .. n /\ \A m \in 1 .. n : m \in 0 .. n /\ m - 1 \in 0 .. n
  OBVIOUS
<1>2. <<>> \in I[0]
  <2> DEFINE h == [i \in 1 .. 0 |-> 0]
  <2>1. Places(s, set, 0, <<>>, h)
    <3>1. Len(<<>>) = 0 /\ \A i : i \notin 1 .. 0
      OBVIOUS
    <3>2. h \in [1 .. 0 -> 1 .. 0]
      OBVIOUS
    <3> QED BY <3>1, <3>2 DEF Places
  <2> HIDE DEF h
  <2>2. <<>> \in Seq(S)
    OBVIOUS
  <2> QED BY <1>1, <2>1, <2>2
<1>3. \A m \in 1 .. n : \A y \in I[m - 1] : g[m][y] \in I[m]
  <2> SUFFICES ASSUME NEW m \in 1 .. n, NEW y \in I[m - 1] PROVE g[m][y] \in I[m]
    OBVIOUS
  <2>1. y \in Seq(S) /\ \E h : Places(s, set, m - 1, y, h)
    BY <1>1
  <2>2. g[m][y] = IF s[m] \in set THEN Append(y, s[m]) ELSE y
    BY <2>1
  <2>3. g[m][y] \in Seq(S) /\ \E k : Places(s, set, m, g[m][y], k)
    BY <2>1, <2>2, PlacesNext
  <2> HIDE DEF g
  <2> QED BY <1>1, <2>3
<1>4. \E f : Loop(f, n, <<>>, g) /\ \A m \in 0 .. n : f[m] \in I[m]
  <2> HIDE DEF n, I, g
  <2> QED BY <1>1, <1>2, <1>3, LoopEnds
<1>5. PICK f : Loop(f, n, <<>>, g) /\ \A m \in 0 .. n : f[m] \in I[m]
  BY <1>4
<1>6. \A m \in 1 .. n : f[m - 1] \in Seq(S)
  BY <1>1, <1>5
<1>7. Is(f)
  <2>1. \A m \in 0 .. n : (IF m = 0 THEN <<>> ELSE g[m][f[m - 1]])
                          = IF m = 0 THEN <<>> ELSE IF s[m] \in set THEN Append(f[m - 1], s[m]) ELSE f[m - 1]
    <3>1. \A m \in 0 .. n : m # 0 => m \in 1 .. n
      BY <1>1
    <3> QED BY <1>6, <3>1
  <2>2. f = [m \in 0 .. n |-> IF m = 0 THEN <<>> ELSE g[m][f[m - 1]]]
    BY <1>5 DEF Loop
  <2> QED BY <2>1, <2>2
<1>8. Is(after)
  BY <1>7, Zenon
<1>9. Kept(s, set) = after[n]
  BY DEF Kept
<1> HIDE DEF after
<1>10. \A m \in 0 .. n : after[m] = IF m = 0 THEN <<>>
                           ELSE IF s[m] \in set THEN Append(after[m - 1], s[m]) ELSE after[m - 1]
  BY <1>8
<1> HIDE DEF Is
<1>11. \A m \in 0 .. n : after[m] \in I[m]
  <2>1. after[0] \in I[0]
    BY <1>1, <1>2, <1>10
  <2>2. ASSUME NEW m \in 1 .. n, after[m - 1] \in I[m - 1] PROVE after[m] \in I[m]
    <3>1. after[m - 1] \in Seq(S)
      BY <1>1, <2>2
    <3>2. g[m][after[m - 1]] = IF s[m] \in set THEN Append(after[m - 1], s[m]) ELSE after[m - 1]
      BY <3>1
    <3>3. m # 0 /\ m \in 0 .. n
      BY <1>1
    <3>4. after[m] = g[m][after[m - 1]]
      <4> HIDE DEF g, I
      <4> QED BY <1>10, <3>2, <3>3
    <3> HIDE DEF g, I
    <3> QED BY <1>3, <2>2, <3>4
  <2> HIDE DEF I, g, n
  <2> QED BY <1>1, <2>1, <2>2, LoopKeeps
<1>12. after[n] \in I[n]
  BY <1>1, <1>11
<1> QED BY <1>1, <1>9, <1>12

\* The k-th plugin of the user has a name none before it has.
New(found, users, k) == users[k].name \notin Name(found) /\ \A j \in 1 .. k - 1 : users[j].name # users[k].name

\* z is what is found after m plugins of the user.
MergedTo(found, users, m, z) ==
  /\ Len(found) <= Len(z) /\ \A i \in 1 .. Len(found) : z[i] = found[i]
  /\ \A n : n \in Name(z) <=> n \in Name(found) \/ \E k \in 1 .. m : n = users[k].name
  /\ \A i \in Len(found) + 1 .. Len(z) : \E k \in 1 .. m : z[i] = users[k] /\ New(found, users, k)
  /\ \A i, j \in Len(found) + 1 .. Len(z) : i < j => z[i].name # z[j].name
  /\ \A k \in 1 .. m : New(found, users, k) => \E i \in Len(found) + 1 .. Len(z) : z[i] = users[k]

LEMMA NameFacts ==
    ASSUME NEW S, NEW z \in Seq(S)
    PROVE  /\ \A n : n \in Name(z) <=> \E i \in 1 .. Len(z) : z[i].name = n
           /\ \A e \in S : Name(Append(z, e)) = Name(z) \union {e.name}
<1>1. \A x : x \in ToSet(z) <=> \E i \in 1 .. Len(z) : z[i] = x
  BY ToSetIn
<1>2. \A e \in S : ToSet(Append(z, e)) = ToSet(z) \union {e}
  BY AppendFacts
<1>3. \A e \in S : Name(Append(z, e)) = Name(z) \union {e.name}
  BY <1>2 DEF Name
<1> QED BY <1>1, <1>3 DEF Name

LEMMA MergeNext ==
    ASSUME NEW S, NEW found \in Seq(S), NEW users \in Seq(S), NEW m \in 1 .. Len(users), NEW z \in Seq(S),
           MergedTo(found, users, m - 1, z)
    PROVE  LET next == IF users[m].name \in Name(z) THEN z ELSE Append(z, users[m])
           IN next \in Seq(S) /\ MergedTo(found, users, m, next)
<1> DEFINE p == users[m]
           a == Append(z, p)
           l == Len(found)
           n == Len(z)
<1>1. m \in Nat \ {0} /\ p \in S /\ n \in Nat /\ l \in Nat /\ l <= n /\ m \in 1 .. m
  BY DEF MergedTo
<1>2. \A k \in 1 .. m : k = m \/ k \in 1 .. m - 1
  BY <1>1
<1>3. \A k \in 1 .. m - 1 : k \in 1 .. m
  BY <1>1
<1>4. New(found, users, m) <=> p.name \notin Name(z)
  BY DEF New, MergedTo
<1>5. \A x : (\E k \in 1 .. m : x = users[k].name) <=> x = p.name \/ \E k \in 1 .. m - 1 : x = users[k].name
  BY <1>1, <1>2, <1>3
<1>6. CASE p.name \in Name(z)
  <2>1. MergedTo(found, users, m, z)
    <3>1. \A x : x \in Name(z) <=> x \in Name(found) \/ \E k \in 1 .. m : x = users[k].name
      BY <1>5, <1>6 DEF MergedTo
    <3>2. \A i \in l + 1 .. n : \E k \in 1 .. m : z[i] = users[k] /\ New(found, users, k)
      BY <1>3 DEF MergedTo
    <3>3. \A k \in 1 .. m : New(found, users, k) => \E i \in l + 1 .. n : z[i] = users[k]
      BY <1>2, <1>4, <1>6 DEF MergedTo
    <3> QED BY <3>1, <3>2, <3>3 DEF MergedTo
  <2> QED BY <1>6, <2>1
<1>7. CASE p.name \notin Name(z)
  <2>1. a \in Seq(S) /\ Len(a) = n + 1 /\ a[n + 1] = p /\ \A i \in 1 .. n : a[i] = z[i]
    BY <1>1
  <2>2. Name(a) = Name(z) \union {p.name} /\ \A i \in 1 .. n : z[i].name # p.name
    BY <1>1, <1>7, NameFacts
  <2>3. \A i \in l + 1 .. n + 1 : i = n + 1 \/ i \in l + 1 .. n
    BY <1>1
  <2>4. \A i \in l + 1 .. n : i \in 1 .. n /\ i \in l + 1 .. n + 1 /\ ~(n + 1 < i)
    BY <1>1
  <2>5. n + 1 \in l + 1 .. n + 1 /\ ~(n + 1 < n + 1)
    BY <1>1
  <2> HIDE DEF a, n, l, p
  <2>6. l <= n + 1 /\ \A i \in 1 .. l : a[i] = found[i]
    <3>1. l <= n + 1 /\ \A i \in 1 .. l : i \in 1 .. n
      BY <1>1
    <3> QED BY <2>1, <3>1 DEF MergedTo, l
  <2>7. \A x : x \in Name(a) <=> x \in Name(found) \/ \E k \in 1 .. m : x = users[k].name
    BY <1>5, <2>2 DEF MergedTo
  <2>8. \A i \in l + 1 .. n + 1 : \E k \in 1 .. m : a[i] = users[k] /\ New(found, users, k)
    <3> SUFFICES ASSUME NEW i \in l + 1 .. n + 1
                 PROVE  \E k \in 1 .. m : a[i] = users[k] /\ New(found, users, k)
      OBVIOUS
    <3>1. CASE i = n + 1
      BY <1>1, <1>4, <1>7, <2>1, <3>1 DEF p
    <3>2. CASE i \in l + 1 .. n
      BY <1>3, <2>1, <2>4, <3>2 DEF MergedTo, l, n
    <3> QED BY <2>3, <3>1, <3>2
  <2>9. \A i, j \in l + 1 .. n + 1 : i < j => a[i].name # a[j].name
    <3> SUFFICES ASSUME NEW i \in l + 1 .. n + 1, NEW j \in l + 1 .. n + 1, i < j PROVE a[i].name # a[j].name
      OBVIOUS
    <3>1. i \in l + 1 .. n /\ i \in 1 .. n
      BY <1>1
    <3>2. CASE j = n + 1
      BY <2>1, <2>2, <3>1, <3>2
    <3>3. CASE j \in l + 1 .. n
      <4>1. \A k, o \in l + 1 .. n : k < o => z[k].name # z[o].name
        BY DEF MergedTo, l, n
      <4> QED BY <2>1, <2>4, <3>1, <3>3, <4>1
    <3> QED BY <2>3, <3>2, <3>3
  <2>10. \A k \in 1 .. m : New(found, users, k) => \E i \in l + 1 .. n + 1 : a[i] = users[k]
    <3> SUFFICES ASSUME NEW k \in 1 .. m, New(found, users, k) PROVE \E i \in l + 1 .. n + 1 : a[i] = users[k]
      OBVIOUS
    <3>1. CASE k = m
      BY <2>1, <2>5, <3>1 DEF p
    <3>2. CASE k \in 1 .. m - 1
      <4>1. PICK i \in l + 1 .. n : z[i] = users[k]
        BY <3>2 DEF MergedTo, l, n
      <4> QED BY <2>1, <2>4, <4>1
    <3> QED BY <1>2, <3>1, <3>2
  <2>11. MergedTo(found, users, m, a)
    BY <2>1, <2>6, <2>7, <2>8, <2>9, <2>10 DEF MergedTo, l
  <2> QED BY <1>7, <2>1, <2>11 DEF a, p
<1> QED BY <1>6, <1>7

LEMMA MergeIs ==
    ASSUME NEW S, NEW found \in Seq(S), NEW users \in Seq(S)
    PROVE  Merge(found, users) \in Seq(S) /\ MergedTo(found, users, Len(users), Merge(found, users))
<1> DEFINE n == Len(users)
           I == [m \in 0 .. n |-> {z \in Seq(S) : MergedTo(found, users, m, z)}]
           g == [m \in 1 .. n |-> [z \in Seq(S) |->
                   IF users[m].name \in Name(z) THEN z ELSE Append(z, users[m])]]
           Is(f) == f = [m \in 0 .. Len(users) |-> IF m = 0 THEN found
                           ELSE IF users[m].name \in Name(f[m - 1]) THEN f[m - 1] ELSE Append(f[m - 1], users[m])]
           after == CHOOSE f : Is(f)
<1>1. n \in Nat /\ 0 \in 0 .. n /\ n \in 0 .. n /\ \A m \in 1 .. n : m # 0 /\ m \in 0 .. n /\ m - 1 \in 0 .. n
  OBVIOUS
<1>2. found \in I[0]
  <2>1. Len(found) \in Nat /\ (\A i : i \notin Len(found) + 1 .. Len(found)) /\ \A k : k \notin 1 .. 0
    OBVIOUS
  <2>2. MergedTo(found, users, 0, found)
    BY <2>1 DEF MergedTo
  <2> QED BY <1>1, <2>2
<1>3. ASSUME NEW m \in 1 .. n, NEW y \in I[m - 1]
      PROVE  /\ g[m][y] = (IF users[m].name \in Name(y) THEN y ELSE Append(y, users[m]))
             /\ g[m][y] \in I[m]
  <2>1. y \in Seq(S) /\ MergedTo(found, users, m - 1, y)
    BY <1>1
  <2>2. g[m][y] = IF users[m].name \in Name(y) THEN y ELSE Append(y, users[m])
    BY <2>1
  <2> HIDE DEF g
  <2>3. g[m][y] \in Seq(S) /\ MergedTo(found, users, m, g[m][y])
    BY <2>1, <2>2, MergeNext
  <2> QED BY <1>1, <2>2, <2>3
<1>4. PICK f : Loop(f, n, found, g) /\ \A m \in 0 .. n : f[m] \in I[m]
  <2> HIDE DEF n, I, g
  <2> QED BY <1>1, <1>2, <1>3, LoopEnds
<1>5. Is(f)
  <2>1. \A m \in 1 .. n : g[m][f[m - 1]] = IF users[m].name \in Name(f[m - 1]) THEN f[m - 1]
                                           ELSE Append(f[m - 1], users[m])
    <3> HIDE DEF I, g
    <3> QED BY <1>1, <1>3, <1>4
  <2> HIDE DEF I, g
  <2>2. \A m \in 0 .. n : m # 0 => m \in 1 .. n
    BY <1>1
  <2> QED BY <1>4, <2>1, <2>2 DEF Loop
<1>6. Is(after)
  BY <1>5, Zenon
<1>7. Merge(found, users) = after[n]
  BY DEF Merge
<1> HIDE DEF after
<1>8. \A m \in 0 .. n : after[m] = IF m = 0 THEN found
          ELSE IF users[m].name \in Name(after[m - 1]) THEN after[m - 1] ELSE Append(after[m - 1], users[m])
  BY <1>6
<1> HIDE DEF Is, I, g
<1>9. \A m \in 0 .. n : after[m] \in I[m]
  <2>1. after[0] \in I[0]
    BY <1>1, <1>2, <1>8
  <2>2. \A m \in 1 .. n : after[m - 1] \in I[m - 1] => after[m] \in I[m]
    BY <1>1, <1>3, <1>8
  <2> HIDE DEF n
  <2> QED BY <1>1, <2>1, <2>2, LoopKeeps
<1>10. after[n] \in I[n]
  BY <1>1, <1>9
<1> QED BY <1>1, <1>7, <1>10 DEF I

(* What is found of a scan and of the user's plugins after it, by where it  *)
(* was in the directories.                                                 *)

LEMMA DuplicatedIs ==
    ASSUME NEW S, NEW own \in Seq(S), NEW user \in Seq(S)
    PROVE  \A x : x \in Duplicated(Merge(own, user)) <=>
             \E i, j \in 1 .. Len(own) : i # j /\ x = own[i] /\ own[j].name = own[i].name
<1> DEFINE M == Merge(own, user)
           l == Len(own)
           n == Len(M)
<1>1. M \in Seq(S) /\ MergedTo(own, user, Len(user), M)
  BY MergeIs
<1>2. l \in Nat /\ n \in Nat /\ DOMAIN M = 1 .. n
  BY <1>1
<1> HIDE DEF M
<1>3. l <= n /\ \A i \in 1 .. l : M[i] = own[i]
  BY <1>1 DEF MergedTo
<1>4. \A i \in l + 1 .. n : M[i].name \notin Name(own)
  BY <1>1 DEF MergedTo, New
<1>5. \A i, j \in l + 1 .. n : i < j => M[i].name # M[j].name
  BY <1>1 DEF MergedTo
<1>6. \A i \in 1 .. l : M[i].name \in Name(own)
  BY <1>3, NameFacts
<1>7. \A x : x \in Duplicated(M) <=> \E i, j \in 1 .. n : i # j /\ x = M[i] /\ M[j].name = M[i].name
  BY <1>2 DEF Duplicated
<1>8. \A i \in 1 .. l : i \in 1 .. n
  BY <1>2, <1>3
<1>9. ASSUME NEW i \in 1 .. n, NEW j \in 1 .. n, i # j, M[j].name = M[i].name PROVE i \in 1 .. l /\ j \in 1 .. l
  <2>1. \A k \in 1 .. n : k \in 1 .. l \/ k \in l + 1 .. n
    BY <1>2, <1>3
  <2>2. i < j \/ j < i
    BY <1>2, <1>9
  <2> HIDE DEF l, n
  <2> QED BY <1>4, <1>5, <1>6, <1>9, <2>1, <2>2
<1> HIDE DEF l, n
<1> QED BY <1>3, <1>7, <1>8, <1>9 DEF M, l

LEMMA MergedHas ==
    ASSUME NEW S, NEW own \in Seq(S), NEW user \in Seq(S)
    PROVE  \A x : x \in ToSet(Merge(own, user)) <=>
             x \in ToSet(own) \/ \E k \in 1 .. Len(user) : x = user[k] /\ New(own, user, k)
<1> DEFINE M == Merge(own, user)
           l == Len(own)
           n == Len(M)
<1>1. M \in Seq(S) /\ MergedTo(own, user, Len(user), M)
  BY MergeIs
<1>2. l \in Nat /\ n \in Nat
  BY <1>1
<1>3. \A x : x \in ToSet(M) <=> \E i \in 1 .. n : M[i] = x
  BY <1>1, ToSetIn
<1>4. \A x : x \in ToSet(own) <=> \E i \in 1 .. l : own[i] = x
  BY ToSetIn
<1> HIDE DEF M
<1>5. l <= n /\ \A i \in 1 .. l : M[i] = own[i]
  BY <1>1 DEF MergedTo
<1>6. \A k \in 1 .. n : k \in 1 .. l \/ k \in l + 1 .. n
  BY <1>2, <1>5
<1>7. \A k : k \in 1 .. l \/ k \in l + 1 .. n => k \in 1 .. n
  BY <1>2, <1>5
<1>8. \A i \in l + 1 .. n : \E k \in 1 .. Len(user) : M[i] = user[k] /\ New(own, user, k)
  BY <1>1 DEF MergedTo
<1>9. \A k \in 1 .. Len(user) : New(own, user, k) => \E i \in l + 1 .. n : M[i] = user[k]
  BY <1>1 DEF MergedTo
<1> HIDE DEF l, n
<1> QED BY <1>3, <1>4, <1>5, <1>6, <1>7, <1>8, <1>9 DEF M

LEMMA AcceptedTwice ==
    ASSUME NEW S, NEW s \in Seq(S), NEW i \in 1 .. Len(s), s[i] \in Accepted(s)
    PROVE  LET own == Kept(s, Accepted(s))
           IN (\E a, b \in 1 .. Len(own) : a # b /\ s[i] = own[a] /\ own[b].name = own[a].name)
              <=> \E j \in (1 .. Len(s)) \ {i} : s[j] \in Accepted(s) /\ s[j].name = s[i].name
<1> DEFINE own == Kept(s, Accepted(s))
           n == Len(own)
<1>1. own \in Seq(S) /\ \E h : Places(s, Accepted(s), Len(s), own, h)
  BY KeptPlaces
<1>2. PICK h : Places(s, Accepted(s), Len(s), own, h)
  BY <1>1
<1> HIDE DEF own
<1>3. n \in Nat /\ h \in [1 .. n -> 1 .. Len(s)] /\ \A a \in 1 .. n : own[a] = s[h[a]] /\ s[h[a]] \in Accepted(s)
  BY <1>1, <1>2 DEF Places
<1>4. \A k \in 1 .. Len(s) : s[k] \in Accepted(s) => \E a \in 1 .. n : h[a] = k
  BY <1>2 DEF Places
<1>5. \A a, b \in 1 .. n : a # b => h[a] # h[b]
  <2>1. \A a, b \in 1 .. n : a < b => h[a] < h[b]
    BY <1>2 DEF Places
  <2>2. \A a, b \in 1 .. n : a # b => a < b \/ b < a
    BY <1>3
  <2>3. \A a \in 1 .. n : h[a] \in Nat
    BY <1>3
  <2> HIDE DEF n
  <2> QED BY <2>1, <2>2, <2>3
<1> HIDE DEF n
<1>6. ASSUME NEW a \in 1 .. n, NEW b \in 1 .. n, a # b, s[i] = own[a], own[b].name = own[a].name
      PROVE  \E j \in (1 .. Len(s)) \ {i} : s[j] \in Accepted(s) /\ s[j].name = s[i].name
  <2>1. h[a] \in 1 .. Len(s) /\ h[b] \in 1 .. Len(s) /\ h[a] # h[b]
    BY <1>3, <1>5, <1>6
  <2>2. CASE h[b] # i
    BY <1>3, <1>6, <2>1, <2>2
  <2>3. CASE h[b] = i
    BY <1>3, <1>6, <2>1, <2>3
  <2> QED BY <2>2, <2>3
<1>7. ASSUME NEW j \in (1 .. Len(s)) \ {i}, s[j] \in Accepted(s), s[j].name = s[i].name
      PROVE  \E a, b \in 1 .. n : a # b /\ s[i] = own[a] /\ own[b].name = own[a].name
  <2>1. PICK a \in 1 .. n : h[a] = i
    BY <1>4
  <2>2. PICK b \in 1 .. n : h[b] = j
    BY <1>4, <1>7
  <2> QED BY <1>3, <1>7, <2>1, <2>2
<1> QED BY <1>6, <1>7 DEF own, n

LEMMA KeptHas ==
    ASSUME NEW S, NEW s \in Seq(S), NEW set
    PROVE  Kept(s, set) \in Seq(S) /\ ToSet(Kept(s, set)) = ToSet(s) \intersect set
BY KeptFacts

(* A plugin of the user is new to those found if it is new to those        *)
(* scanned.                                                                *)
LEMMA NewIs ==
    ASSUME NEW S, NEW configured \in Seq(S), NEW users \in Seq(S), NEW i \in 1 .. Len(users),
           \A j \in 1 .. Len(users) : users[j] = users[i] => j = i
    PROVE  LET own == Kept(configured, Accepted(configured))
               user == Kept(users, Accepted(users))
           IN (\E k \in 1 .. Len(user) : users[i] = user[k] /\ New(own, user, k))
              <=> /\ users[i] \in Accepted(users) /\ ~\E q \in Accepted(configured) : q.name = users[i].name
                  /\ ~\E j \in (1 .. i - 1) \ {i} : users[j] \in Accepted(users) /\ users[j].name = users[i].name
<1> DEFINE own == Kept(configured, Accepted(configured))
           user == Kept(users, Accepted(users))
           n == Len(user)
           u == users[i]
<1>1. /\ own \in Seq(S) /\ ToSet(own) = ToSet(configured) \intersect Accepted(configured)
      /\ user \in Seq(S)
  BY KeptFacts
<1>2. PICK h : Places(users, Accepted(users), Len(users), user, h)
  BY KeptPlaces
<1>3. \A q : q \in ToSet(own) <=> q \in Accepted(configured)
  BY <1>1 DEF Accepted
<1>4. (u.name \in Name(own)) <=> \E q \in Accepted(configured) : q.name = u.name
  BY <1>3 DEF Name
<1> HIDE DEF own, user
<1>5. n \in Nat /\ h \in [1 .. n -> 1 .. Len(users)] /\ i \in Nat
  BY <1>1, <1>2 DEF Places
<1>6. \A k \in 1 .. n : user[k] = users[h[k]] /\ users[h[k]] \in Accepted(users)
  BY <1>2 DEF Places
<1>7. \A j \in 1 .. Len(users) : users[j] \in Accepted(users) => \E k \in 1 .. n : h[k] = j
  BY <1>2 DEF Places
<1>8. \A k, l \in 1 .. n : l < k => h[l] < h[k]
  BY <1>2 DEF Places
<1>9. \A k, l \in 1 .. n : h[l] < h[k] => l < k
  <2> SUFFICES ASSUME NEW k \in 1 .. n, NEW l \in 1 .. n, h[l] < h[k] PROVE l < k
    OBVIOUS
  <2>1. h[k] \in Nat /\ h[l] \in Nat /\ k \in Nat /\ l \in Nat
    BY <1>5
  <2>2. l < k \/ k < l \/ l = k
    BY <2>1
  <2> HIDE DEF n
  <2> QED BY <1>8, <2>1, <2>2
<1> HIDE DEF n
<1>10. ASSUME NEW k \in 1 .. n, u = user[k], New(own, user, k)
       PROVE  /\ u \in Accepted(users) /\ u.name \notin Name(own)
              /\ ~\E j \in (1 .. i - 1) \ {i} : users[j] \in Accepted(users) /\ users[j].name = u.name
  <2>1. h[k] = i /\ u \in Accepted(users)
    BY <1>5, <1>6, <1>10
  <2>2. u.name \notin Name(own) /\ \A l \in 1 .. k - 1 : user[l].name # u.name
    BY <1>10 DEF New
  <2>3. ASSUME NEW j \in 1 .. i - 1, users[j] \in Accepted(users), users[j].name = u.name PROVE FALSE
    <3>1. j \in 1 .. Len(users) /\ j < i
      BY <1>5
    <3>2. PICK l \in 1 .. n : h[l] = j
      BY <1>7, <2>3, <3>1
    <3>3. l < k
      BY <1>9, <2>1, <3>1, <3>2
    <3>4. l \in 1 .. k - 1
      BY <1>5, <3>3
    <3> QED BY <1>6, <2>2, <2>3, <3>2, <3>4
  <2> QED BY <2>1, <2>2, <2>3
<1>11. ASSUME u \in Accepted(users), u.name \notin Name(own),
              ~\E j \in (1 .. i - 1) \ {i} : users[j] \in Accepted(users) /\ users[j].name = u.name
       PROVE  \E k \in 1 .. n : u = user[k] /\ New(own, user, k)
  <2>1. PICK k \in 1 .. n : h[k] = i
    BY <1>7, <1>11
  <2>2. u = user[k]
    BY <1>6, <2>1
  <2>3. ASSUME NEW l \in 1 .. k - 1 PROVE user[l].name # u.name
    <3>1. l \in 1 .. n /\ l < k
      BY <1>5
    <3>2. h[l] < i /\ h[l] \in 1 .. Len(users)
      BY <1>5, <1>8, <2>1, <3>1
    <3>3. h[l] \in (1 .. i - 1) \ {i}
      BY <1>5, <3>2
    <3> QED BY <1>6, <1>11, <3>1, <3>3
  <2>4. New(own, user, k)
    BY <1>11, <2>2, <2>3 DEF New
  <2> QED BY <2>2, <2>4
<1> QED BY <1>4, <1>10, <1>11 DEF own, user, n

LEMMA Discovery ==
    ASSUME NEW S, NEW configured \in Seq(S), NEW users \in Seq(S)
    PROVE  FoundOrReported(configured, users)
<1> DEFINE all == ToSet(configured) \union ToSet(users)
           found == DiscoverPlugins(configured, users)
           own == Kept(configured, Accepted(configured))
           user == Kept(users, Accepted(users))
           M == Merge(own, user)
           Reported(list) == {p.dir : p \in {q \in ToSet(list) : Outcome(q) = "ValueError"}}
           Clash(list, i, range) == \E j \in range \ {i} : list[j] \in Accepted(list) /\ list[j].name = list[i].name
           Taken(p) == \E q \in Accepted(configured) : q.name = p.name
<1>1. /\ found.plugins = Kept(M, ToSet(M) \ Duplicated(M))
      /\ found.errors = Reported(configured) \union Reported(users)
                         \union (Dirs(ToSet(user)) \ Dirs(ToSet(M))) \union Dirs(Duplicated(M))
      /\ found.raises <=> \/ \E p \in ToSet(configured) : Outcome(p) \notin {"manifest", "ValueError"}
                          \/ \E p \in ToSet(users) : Outcome(p) \notin {"manifest", "ValueError"}
  BY DEF DiscoverPlugins, Scan
<1>20. found.raises <=> \E p \in all : Outcome(p) \notin {"manifest", "ValueError"}
  BY <1>1
<1>21. LET listed == Listed(configured, users)
       IN /\ listed.failed <=> found.raises
          /\ found.raises => listed.plugins = <<>>
          /\ ~found.raises => listed.plugins = found.plugins /\ listed.errors = found.errors
  BY DEF Listed
<1> HIDE DEF found
<1> SUFFICES ASSUME \A p, q \in all : p.dir = q.dir => p = q,
                    \A i, j \in DOMAIN users : users[i] = users[j] => i = j,
                    ToSet(configured) \intersect ToSet(users) = {},
                    ~found.raises
             PROVE  /\ \A i \in DOMAIN configured :
                         /\ configured[i] \in ToSet(found.plugins) <=>
                              configured[i] \in Accepted(configured) /\ ~Clash(configured, i, DOMAIN configured)
                         /\ configured[i].dir \in found.errors <=> configured[i] \notin ToSet(found.plugins)
                    /\ \A i \in DOMAIN users :
                         /\ users[i] \in ToSet(found.plugins) <=>
                              users[i] \in Accepted(users) /\ ~Taken(users[i]) /\ ~Clash(users, i, 1 .. i - 1)
                         /\ users[i].dir \in found.errors <=> users[i] \notin ToSet(found.plugins)
  BY <1>20, <1>21 DEF FoundOrReported
<1>2. DOMAIN configured = 1 .. Len(configured) /\ DOMAIN users = 1 .. Len(users)
  OBVIOUS
<1>3. (\A i \in DOMAIN configured : configured[i] \in ToSet(configured)) /\ \A i \in DOMAIN users : users[i] \in ToSet(users)
  BY DEF ToSet
<1>4. /\ own \in Seq(S) /\ ToSet(own) = ToSet(configured) \intersect Accepted(configured)
      /\ user \in Seq(S) /\ ToSet(user) = ToSet(users) \intersect Accepted(users)
  BY KeptHas
<1> HIDE DEF own, user
<1>5. M \in Seq(S)
  BY <1>4, MergeIs
<1>6. \A x : x \in ToSet(M) <=> x \in ToSet(own) \/ \E k \in 1 .. Len(user) : x = user[k] /\ New(own, user, k)
  BY <1>4, MergedHas
<1>7. \A x : x \in Duplicated(M) <=> \E i, j \in 1 .. Len(own) : i # j /\ x = own[i] /\ own[j].name = own[i].name
  BY <1>4, DuplicatedIs
<1>8. \A x : x \in ToSet(own) <=> x \in Accepted(configured)
  BY <1>4 DEF Accepted
<1>9. \A x : x \in ToSet(user) <=> x \in Accepted(users)
  BY <1>4 DEF Accepted
<1>10. \A k \in 1 .. Len(user) : user[k] \in ToSet(user)
  BY <1>4, ToSetIn
<1>11. \A i \in 1 .. Len(own) : own[i] \in ToSet(own)
  BY <1>4, ToSetIn
<1>12. (\A x \in Accepted(configured) : x \in ToSet(configured)) /\ \A x \in Accepted(users) : x \in ToSet(users)
  BY DEF Accepted
<1> HIDE DEF M, all
<1>13. ToSet(found.plugins) = ToSet(M) \ Duplicated(M)
  <2>1. ToSet(Kept(M, ToSet(M) \ Duplicated(M))) = ToSet(M) \intersect (ToSet(M) \ Duplicated(M))
    BY <1>5, KeptHas
  <2> HIDE DEF found
  <2> QED BY <1>1, <2>1
<1>14. /\ \A p \in ToSet(configured) : Outcome(p) = "manifest" \/ Outcome(p) = "ValueError"
       /\ \A p \in ToSet(users) : Outcome(p) = "manifest" \/ Outcome(p) = "ValueError"
  BY <1>1
<1> HIDE DEF found
<1>15. /\ \A p \in ToSet(configured) : p \in Accepted(configured) <=> Outcome(p) # "ValueError"
       /\ \A p \in ToSet(users) : p \in Accepted(users) <=> Outcome(p) # "ValueError"
  BY <1>14 DEF Accepted
<1>16. (\A x \in ToSet(M) : x \in all) /\ (\A x \in Duplicated(M) : x \in ToSet(configured))
       /\ \A x \in ToSet(configured) \union ToSet(users) : x \in all
  BY <1>6, <1>7, <1>8, <1>9, <1>10, <1>11, <1>12 DEF all
<1>17. \A p, q \in all : p.dir = q.dir => p = q
  OBVIOUS
<1>18. ASSUME NEW i \in DOMAIN configured
       PROVE  /\ configured[i] \in ToSet(found.plugins) <=>
                   configured[i] \in Accepted(configured) /\ ~Clash(configured, i, DOMAIN configured)
              /\ configured[i].dir \in found.errors <=> configured[i] \notin ToSet(found.plugins)
  <2> DEFINE c == configured[i]
  <2>1. c \in ToSet(configured) /\ c \in all /\ c \notin ToSet(users)
    BY <1>3, <1>16
  <2>2. c \in ToSet(M) <=> c \in Accepted(configured)
    BY <1>6, <1>8, <1>9, <1>10, <1>12, <2>1
  <2>3. ASSUME c \in Accepted(configured) PROVE c \in Duplicated(M) <=> Clash(configured, i, DOMAIN configured)
    <3>1. i \in 1 .. Len(configured)
      BY <1>2
    <3>2. (\E a, b \in 1 .. Len(own) : a # b /\ c = own[a] /\ own[b].name = own[a].name)
          <=> \E j \in (1 .. Len(configured)) \ {i} : configured[j] \in Accepted(configured) /\ configured[j].name = c.name
      BY <2>3, <3>1, AcceptedTwice DEF own
    <3> HIDE DEF c
    <3>3. c \in Duplicated(M) <=> \E a, b \in 1 .. Len(own) : a # b /\ c = own[a] /\ own[b].name = own[a].name
      BY <1>7
    <3> QED BY <1>2, <3>2, <3>3 DEF c
  <2>4. c \in Duplicated(M) => c \in Accepted(configured)
    BY <1>7, <1>8, <1>11
  <2>5. c \in ToSet(found.plugins) <=> c \in Accepted(configured) /\ ~Clash(configured, i, DOMAIN configured)
    BY <1>13, <2>2, <2>3
  <2>6. c.dir \in Reported(configured) <=> Outcome(c) = "ValueError"
    <3>1. \A p \in ToSet(configured) : p.dir = c.dir => p = c
      BY <1>16, <1>17, <2>1
    <3> HIDE DEF c
    <3> QED BY <2>1, <3>1
  <2>7. c.dir \notin Reported(users) /\ c.dir \notin Dirs(ToSet(user))
    <3>1. \A p \in ToSet(users) : p.dir # c.dir
      BY <1>16, <1>17, <2>1
    <3>2. \A p \in ToSet(user) : p \in ToSet(users)
      BY <1>9, <1>12
    <3> HIDE DEF c
    <3> QED BY <3>1, <3>2 DEF Dirs
  <2>8. c.dir \in Dirs(Duplicated(M)) <=> c \in Duplicated(M)
    <3>1. \A p \in Duplicated(M) : p.dir = c.dir => p = c
      BY <1>16, <1>17, <2>1
    <3> HIDE DEF c
    <3> QED BY <3>1 DEF Dirs
  <2> HIDE DEF c, Reported, Clash
  <2>9. c.dir \in found.errors <=> Outcome(c) = "ValueError" \/ c \in Duplicated(M)
    BY <1>1, <2>6, <2>7, <2>8
  <2> QED BY <1>13, <1>15, <2>1, <2>2, <2>3, <2>4, <2>5, <2>9 DEF c
<1>19. ASSUME NEW i \in DOMAIN users
       PROVE  /\ users[i] \in ToSet(found.plugins) <=>
                   users[i] \in Accepted(users) /\ ~Taken(users[i]) /\ ~Clash(users, i, 1 .. i - 1)
              /\ users[i].dir \in found.errors <=> users[i] \notin ToSet(found.plugins)
  <2> DEFINE u == users[i]
             IsNew == \E k \in 1 .. Len(user) : u = user[k] /\ New(own, user, k)
  <2>1. u \in ToSet(users) /\ u \in all /\ u \notin ToSet(configured)
    BY <1>3, <1>16
  <2>2. u \in ToSet(M) <=> IsNew
    BY <1>6, <1>8, <1>12, <2>1
  <2>3. IsNew <=> u \in Accepted(users) /\ ~Taken(u) /\ ~Clash(users, i, 1 .. i - 1)
    <3>1. i \in 1 .. Len(users) /\ \A j \in 1 .. Len(users) : users[j] = users[i] => j = i
      BY <1>2
    <3> QED BY <3>1, NewIs DEF own, user
  <2>4. u \notin Duplicated(M)
    BY <1>16, <2>1
  <2> HIDE DEF IsNew
  <2>5. u \in ToSet(found.plugins) <=> u \in Accepted(users) /\ ~Taken(u) /\ ~Clash(users, i, 1 .. i - 1)
    BY <1>13, <2>2, <2>3, <2>4
  <2>6. u.dir \in Reported(users) <=> Outcome(u) = "ValueError"
    <3>1. \A p \in ToSet(users) : p.dir = u.dir => p = u
      BY <1>16, <1>17, <2>1
    <3> HIDE DEF u
    <3> QED BY <2>1, <3>1
  <2>7. u.dir \notin Reported(configured) /\ u.dir \notin Dirs(Duplicated(M))
    <3>1. \A p \in ToSet(configured) : p.dir # u.dir
      BY <1>16, <1>17, <2>1
    <3> HIDE DEF u
    <3> QED BY <1>16, <3>1 DEF Dirs
  <2>8. (u.dir \in Dirs(ToSet(user)) <=> u \in ToSet(user)) /\ (u.dir \in Dirs(ToSet(M)) <=> u \in ToSet(M))
    <3>1. (\A p \in ToSet(user) : p.dir = u.dir => p = u) /\ \A p \in ToSet(M) : p.dir = u.dir => p = u
      BY <1>9, <1>12, <1>16, <1>17, <2>1
    <3> HIDE DEF u
    <3> QED BY <3>1 DEF Dirs
  <2> HIDE DEF u, Reported, Clash, Taken
  <2>9. u.dir \in found.errors <=> Outcome(u) = "ValueError" \/ (u \in Accepted(users) /\ u \notin ToSet(M))
    BY <1>1, <1>9, <2>6, <2>7, <2>8
  <2> QED BY <1>13, <1>15, <2>1, <2>2, <2>3, <2>4, <2>5, <2>9 DEF u
<1> QED BY <1>18, <1>19

-----------------------------------------------------------------------------
(* Which commands raise: the least set that is closed under the definition *)
(* is a solution of its equation.                                          *)

LEMMA SubcommandsIn ==
    \A c \in CommandDecl : \A i \in DOMAIN c.subcommands : c.subcommands[i] \in CommandDecl
<1> SUFFICES ASSUME NEW c \in CommandDecl, NEW i \in DOMAIN c.subcommands PROVE c.subcommands[i] \in CommandDecl
  OBVIOUS
<1>1. c.subcommands \in Seq(CommandDecl)
  BY CommandAssumption
<1> QED BY <1>1

LEMMA RaisesIs ==
    ASSUME NEW registry
    PROVE  \A c \in CommandDecl : Raises(registry)[c] <=>
             \/ Refuses(registry, c)
             \/ \E i \in DOMAIN c.subcommands : Again(c.subcommands, i) \/ Raises(registry)[c.subcommands[i]]
<1> DEFINE Own(c) == Refuses(registry, c) \/ \E i \in DOMAIN c.subcommands : Again(c.subcommands, i)
           Has(c, T) == Own(c) \/ \E i \in DOMAIN c.subcommands : c.subcommands[i] \in T
           Closed(T) == \A c \in CommandDecl : Has(c, T) => c \in T
           Bad == {c \in CommandDecl : \A T \in SUBSET CommandDecl : Closed(T) => c \in T}
           All == {c \in CommandDecl : Has(c, Bad)}
           F == [c \in CommandDecl |-> c \in Bad]
           Body(f, cmd) == \/ Refuses(registry, cmd)
                           \/ \E i \in DOMAIN cmd.subcommands :
                                Again(cmd.subcommands, i) \/ f[cmd.subcommands[i]]
           Is(f) == f = [cmd \in CommandDecl |-> Body(f, cmd)]
           raises == CHOOSE f : Is(f)
<1>1. \A c \in CommandDecl : Has(c, Bad) => c \in Bad
  <2> SUFFICES ASSUME NEW c \in CommandDecl, Has(c, Bad), NEW T \in SUBSET CommandDecl, Closed(T) PROVE c \in T
    OBVIOUS
  <2>1. \A d \in Bad : d \in T
    OBVIOUS
  <2>2. Has(c, T)
    <3> HIDE DEF Own, Bad
    <3> QED BY <2>1
  <2> HIDE DEF Has, Bad
  <2> QED BY <2>2
<1>2. \A c \in Bad : Has(c, Bad)
  <2>1. All \subseteq Bad
    <3> HIDE DEF Has, Bad
    <3> QED BY <1>1
  <2>2. \A c \in CommandDecl : Has(c, All) => Has(c, Bad)
    <3> HIDE DEF Own, Bad, All
    <3> QED BY <2>1
  <2>3. Closed(All)
    <3> HIDE DEF Has, Bad
    <3> QED BY <2>2
  <2>4. All \in SUBSET CommandDecl
    OBVIOUS
  <2>5. \A c \in Bad : c \in All
    <3> HIDE DEF All, Closed
    <3> QED BY <2>3, <2>4
  <2> HIDE DEF Has, Bad
  <2> QED BY <2>5
<1>3. \A c \in CommandDecl : c \in Bad <=> Has(c, Bad)
  <2> HIDE DEF Has, Bad
  <2> QED BY <1>1, <1>2
<1>4. Is(F)
  <2>1. \A c \in CommandDecl : F[c] <=> c \in Bad
    <3> HIDE DEF Bad
    <3> QED OBVIOUS
  <2>2. \A c \in CommandDecl : F[c] = \/ Refuses(registry, c)
                                      \/ \E i \in DOMAIN c.subcommands : Again(c.subcommands, i) \/ F[c.subcommands[i]]
    <3> SUFFICES ASSUME NEW c \in CommandDecl
                 PROVE  F[c] = \/ Refuses(registry, c)
                               \/ \E i \in DOMAIN c.subcommands : Again(c.subcommands, i) \/ F[c.subcommands[i]]
      OBVIOUS
    <3>1. \A i \in DOMAIN c.subcommands : F[c.subcommands[i]] <=> c.subcommands[i] \in Bad
      <4> HIDE DEF F, Bad
      <4> QED BY <2>1, SubcommandsIn
    <3>2. F[c] \in BOOLEAN
      OBVIOUS
    <3> HIDE DEF F, Bad
    <3> QED BY <1>3, <2>1, <3>1, <3>2
  <2>3. F = [c \in CommandDecl |-> F[c]]
    <3> HIDE DEF Bad
    <3> QED OBVIOUS
  <2> HIDE DEF F
  <2> QED BY <2>2, <2>3, Zenon
<1>5. Is(raises)
  <2> HIDE DEF Is, F
  <2> QED BY <1>4, Zenon
<1>6. Raises(registry) = raises
  BY DEF Raises
<1> HIDE DEF raises
<1>7. ASSUME NEW c \in CommandDecl PROVE raises[c] <=> Body(raises, c)
  <2>1. raises[c] = Body(raises, c)
    <3> HIDE DEF Body
    <3> QED BY <1>5
  <2> QED BY <2>1, Zenon
<1> QED BY <1>6, <1>7, Zenon

-----------------------------------------------------------------------------
(* The parsers of the commands.                                            *)

LEMMA ByNameIs ==
    ASSUME NEW registry, NEW commands \in Seq(CommandDecl), NEW names
    PROVE  LET new == ByName(registry, commands, names)
           IN /\ \A n \in DOMAIN new : n \notin names /\ new[n] \in ToSet(commands) /\ new[n].name = n
              /\ Raising(registry, commands, names) = {} =>
                   \A cmd \in ToSet(commands) :
                     cmd.name \in DOMAIN new /\ new[cmd.name] = cmd /\ ~Raises(registry)[cmd]
<1> DEFINE new == ByName(registry, commands, names)
           raising == Raising(registry, commands, names)
           added == {i \in DOMAIN commands :
                       /\ \A j \in raising : i <= j
                       /\ commands[i].name \notin names /\ ~Again(commands, i)}
           Where(n) == CHOOSE i \in added : commands[i].name = n
<1>1. new = [n \in {commands[i].name : i \in added} |-> commands[Where(n)]]
  BY DEF ByName
<1>2. DOMAIN commands = 1 .. Len(commands) /\ Len(commands) \in Nat
  OBVIOUS
<1>3. \A x : x \in ToSet(commands) <=> \E i \in DOMAIN commands : commands[i] = x
  BY <1>2, ToSetIn
<1>4. \A i \in added : i \in DOMAIN commands /\ commands[i].name \notin names /\ ~Again(commands, i)
  OBVIOUS
<1> HIDE DEF added, new
<1>5. \A n \in DOMAIN new : new[n] = commands[Where(n)] /\ \E i \in added : commands[i].name = n
  BY <1>1
<1>6. \A n \in DOMAIN new : Where(n) \in added /\ commands[Where(n)].name = n
  <2> SUFFICES ASSUME NEW n \in DOMAIN new PROVE Where(n) \in added /\ commands[Where(n)].name = n
    OBVIOUS
  <2>1. \E i \in added : commands[i].name = n
    BY <1>5
  <2> QED BY <2>1, Zenon
<1> HIDE DEF Where
<1>7. \A n \in DOMAIN new : n \notin names /\ new[n] \in ToSet(commands) /\ new[n].name = n
  BY <1>3, <1>4, <1>5, <1>6
<1>8. ASSUME raising = {}, NEW cmd \in ToSet(commands)
      PROVE  cmd.name \in DOMAIN new /\ new[cmd.name] = cmd /\ ~Raises(registry)[cmd]
  <2>1. PICK i \in DOMAIN commands : commands[i] = cmd
    BY <1>3
  <2>2. \A j \in DOMAIN commands :
          commands[j].name \notin names /\ ~Again(commands, j) /\ ~Raises(registry)[commands[j]]
    BY <1>8 DEF Raising
  <2>3. i \in added
    BY <1>8, <2>2 DEF added
  <2>4. cmd.name \in DOMAIN new
    BY <1>1, <2>1, <2>3
  <2>5. Where(cmd.name) \in DOMAIN commands /\ commands[Where(cmd.name)].name = cmd.name
    BY <1>4, <1>6, <2>4
  <2>6. Where(cmd.name) = i
    <3>1. \A j, k \in DOMAIN commands : j < k => commands[j].name # commands[k].name
      <4>1. \A j, k \in DOMAIN commands : j < k => j \in 1 .. k - 1
        BY <1>2
      <4> QED BY <2>2, <4>1 DEF Again
    <3>2. \A j, k \in DOMAIN commands : j # k => j < k \/ k < j
      BY <1>2
    <3> QED BY <2>1, <2>5, <3>1, <3>2
  <2>7. new[cmd.name] = cmd
    BY <1>5, <2>1, <2>4, <2>6
  <2> QED BY <2>1, <2>2, <2>4, <2>7
<1> QED BY <1>7, <1>8 DEF new

LEMMA CommandsIn ==
    \A c \in CommandDecl : c.subcommands \in Seq(CommandDecl) /\ \A s \in ToSet(c.subcommands) : s \in CommandDecl
<1> SUFFICES ASSUME NEW c \in CommandDecl
             PROVE  c.subcommands \in Seq(CommandDecl) /\ \A s \in ToSet(c.subcommands) : s \in CommandDecl
  OBVIOUS
<1>1. c.subcommands \in Seq(CommandDecl)
  BY CommandAssumption
<1> QED BY <1>1, ToSetIn

(* The parser of a command that raises nothing, and those below it.        *)
LEMMA WholeParser ==
    ASSUME NEW registry, NEW owner, NEW cmd \in CommandDecl, ~Raises(registry)[cmd]
    PROVE  LET parser == PluginParser(registry, owner, cmd)
           IN /\ parser.owner = owner
              /\ parser.main.arguments = Arguments(registry, cmd) /\ parser.main.run = Handler(cmd)
              /\ \A s \in ToSet(cmd.subcommands) :
                   /\ s.name \in DOMAIN parser.subs
                   /\ parser.subs[s.name].arguments = Arguments(registry, s)
                   /\ parser.subs[s.name].run = Handler(s)
<1> DEFINE subs == ByName(registry, cmd.subcommands, {})
<1>1. cmd.subcommands \in Seq(CommandDecl) /\ \A s \in ToSet(cmd.subcommands) : s \in CommandDecl
  BY CommandsIn
<1>2. ~Refuses(registry, cmd)
  BY RaisesIs
<1>3. \A i \in DOMAIN cmd.subcommands :
        ~Again(cmd.subcommands, i) /\ ~Raises(registry)[cmd.subcommands[i]]
  BY RaisesIs
<1>4. Raising(registry, cmd.subcommands, {}) = {}
  BY <1>3 DEF Raising
<1>5. \A s \in ToSet(cmd.subcommands) : s.name \in DOMAIN subs /\ subs[s.name] = s /\ ~Raises(registry)[s]
  BY <1>1, <1>4, ByNameIs
<1> HIDE DEF subs
<1>6. \A c \in CommandDecl : ~Raises(registry)[c] =>
        Parser(registry, c).arguments = Arguments(registry, c) /\ Parser(registry, c).run = Handler(c)
  <2>1. \A c \in CommandDecl : ~Raises(registry)[c] => ~Refuses(registry, c)
    BY RaisesIs
  <2> QED BY <2>1 DEF Parser, Refuses
<1>7. Subparsers(registry, cmd) = [n \in DOMAIN subs |-> Parser(registry, subs[n])]
  BY <1>2 DEF Subparsers, subs
<1>8. \A s \in ToSet(cmd.subcommands) :
        /\ s.name \in DOMAIN Subparsers(registry, cmd)
        /\ Subparsers(registry, cmd)[s.name] = Parser(registry, s)
  BY <1>5, <1>7
<1> QED BY <1>1, <1>5, <1>6, <1>8 DEF PluginParser

-----------------------------------------------------------------------------
(* Who has which command.                                                  *)

AtFirst(core) ==
  [parsers |-> [c \in core |-> CoreParser(c)], taken |-> core, errors |-> {}, passthrough |-> {}]

(* There are states after each of the plugins.                             *)
LEMMA RegisterIs ==
    ASSUME NEW registry, NEW core, NEW plugins, Len(plugins) \in Nat
    PROVE  \E f : /\ f[0] = AtFirst(core)
                  /\ \A m \in 1 .. Len(plugins) : f[m] = RegisterPlugin(registry, f[m - 1], m, plugins[m])
                  /\ RegisterAll(registry, core, plugins) = f[Len(plugins)]
<1> DEFINE n == Len(plugins)
           x == AtFirst(core)
           Op(m, so) == RegisterPlugin(registry, so, m, plugins[m])
           Is(m, f) == f = [k \in 0 .. m |-> IF k = 0 THEN x ELSE Op(k, f[k - 1])]
           T == {m \in 0 .. n : \E f : Is(m, f)}
           after == CHOOSE f : Is(Len(plugins), f)
<1> HIDE DEF x, Op
<1>1. 0 \in T
  <2> DEFINE f == [k \in 0 .. 0 |-> x]
  <2>1. Is(0, f) /\ 0 \in 0 .. n
    OBVIOUS
  <2> HIDE DEF f, Is
  <2> QED BY <2>1
<1>2. ASSUME NEW m \in 0 .. n - 1, m \in T PROVE m + 1 \in T
  <2>1. PICK f : Is(m, f)
    BY <1>2
  <2> DEFINE h == [k \in 0 .. m + 1 |-> IF k = m + 1 THEN Op(m + 1, f[m]) ELSE f[k]]
  <2>2. m + 1 \in 0 .. n /\ (m + 1) - 1 = m /\ m \in 0 .. m
    OBVIOUS
  <2>3. h[m + 1] = Op(m + 1, f[m]) /\ \A k \in 0 .. m : h[k] = f[k]
    OBVIOUS
  <2>4. \A k \in 0 .. m : f[k] = IF k = 0 THEN x ELSE Op(k, f[k - 1])
    BY <2>1
  <2>5. h = [k \in 0 .. m + 1 |-> h[k]]
    OBVIOUS
  <2> HIDE DEF h
  <2>6. \A k \in 0 .. m + 1 : h[k] = IF k = 0 THEN x ELSE Op(k, h[k - 1])
    <3> SUFFICES ASSUME NEW k \in 0 .. m + 1 PROVE h[k] = IF k = 0 THEN x ELSE Op(k, h[k - 1])
      OBVIOUS
    <3>1. CASE k = m + 1
      <4>1. k # 0 /\ k - 1 = m /\ h[k - 1] = f[m]
        BY <2>2, <2>3, <3>1
      <4> QED BY <2>3, <3>1, <4>1
    <3>2. CASE k # m + 1
      <4>1. k \in 0 .. m /\ (k # 0 => k - 1 \in 0 .. m)
        BY <3>2
      <4> QED BY <2>3, <2>4, <4>1
    <3> QED BY <3>1, <3>2
  <2>7. Is(m + 1, h)
    BY <2>5, <2>6
  <2> QED BY <2>2, <2>7
<1>3. n \in T
  <2> HIDE DEF T
  <2>1. 0 .. n \subseteq T
    BY <1>1, <1>2, Induct
  <2> QED BY <2>1
<1>4. \E f : Is(n, f)
  BY <1>3
<1>5. Is(n, after)
  <2> HIDE DEF Is
  <2> QED BY <1>4, Zenon
<1>6. RegisterAll(registry, core, plugins) = after[n]
  BY DEF RegisterAll, x, Op, AtFirst
<1> HIDE DEF after
<1>7. \A k \in 0 .. n : after[k] = IF k = 0 THEN x ELSE Op(k, after[k - 1])
  BY <1>5
<1>8. 0 \in 0 .. n /\ \A k \in 1 .. n : k \in 0 .. n /\ k # 0
  OBVIOUS
<1> HIDE DEF Is, n
<1>9. after[0] = x /\ \A k \in 1 .. n : after[k] = Op(k, after[k - 1])
  BY <1>7, <1>8
<1> QED BY <1>6, <1>9 DEF n, x, Op

(* What m plugins leave, of which some have been registered whole.         *)
IsWhole(plugins, so, j) == plugins[j].enabled /\ j \notin so.errors

IsState(so) ==
  so = [parsers |-> so.parsers, taken |-> so.taken, errors |-> so.errors, passthrough |-> so.passthrough]

Registered(registry, core, plugins, so, m) ==
  /\ IsState(so) /\ so.errors \subseteq 1 .. m
  /\ \A c : c \in so.taken <=>
       c \in core \/ \E j \in 1 .. m : IsWhole(plugins, so, j) /\ c \in CommandNames(plugins[j])
  /\ \A c \in core : c \in DOMAIN so.parsers /\ so.parsers[c] = CoreParser(c)
  /\ \A j \in 1 .. m : IsWhole(plugins, so, j) => \A cmd \in ToSet(plugins[j].commands) :
       /\ cmd.name \in DOMAIN so.parsers /\ so.parsers[cmd.name] = PluginParser(registry, j, cmd)
       /\ ~Raises(registry)[cmd]
  /\ \A c \in DOMAIN so.parsers \ core : \E j \in 1 .. m :
       plugins[j].enabled /\ so.parsers[c].owner = j /\ c \in CommandNames(plugins[j])
  /\ \A c : c \in so.passthrough <=>
       \E j \in 1 .. m : IsWhole(plugins, so, j) /\ plugins[j].passthrough /\ c \in CommandNames(plugins[j])

(* A plugin that wants a command of the core or of one before it has none. *)
Empty(core, plugins, so, m) ==
  \A j \in 1 .. m :
    \/ ~plugins[j].enabled
    \/ \E c \in CommandNames(plugins[j]) :
         c \in core \/ \E k \in 1 .. j - 1 : IsWhole(plugins, so, k) /\ c \in CommandNames(plugins[k])
    => \A c \in DOMAIN so.parsers : so.parsers[c].owner # j

Built(registry, owner, commands, parsers, built) ==
  /\ \A n \in DOMAIN parsers : n \in DOMAIN built.parsers /\ built.parsers[n] = parsers[n]
  /\ \A n \in DOMAIN built.parsers : n \notin DOMAIN parsers =>
       built.parsers[n].owner = owner /\ \E cmd \in ToSet(commands) : cmd.name = n
  /\ ~built.raises => \A cmd \in ToSet(commands) :
       /\ cmd.name \in DOMAIN built.parsers /\ ~Raises(registry)[cmd]
       /\ built.parsers[cmd.name] = PluginParser(registry, owner, cmd)

LEMMA BuildIs ==
    ASSUME NEW registry, NEW owner, NEW commands \in Seq(CommandDecl), NEW parsers
    PROVE  Built(registry, owner, commands, parsers, BuildCommands(registry, owner, commands, parsers))
<1> DEFINE new == ByName(registry, commands, DOMAIN parsers)
           built == BuildCommands(registry, owner, commands, parsers)
<1>1. /\ \A n \in DOMAIN new : n \notin DOMAIN parsers /\ new[n] \in ToSet(commands) /\ new[n].name = n
      /\ Raising(registry, commands, DOMAIN parsers) = {} =>
           \A cmd \in ToSet(commands) : cmd.name \in DOMAIN new /\ new[cmd.name] = cmd /\ ~Raises(registry)[cmd]
  BY ByNameIs
<1>2. /\ built.parsers = [n \in DOMAIN parsers \union DOMAIN new |->
                     IF n \in DOMAIN parsers THEN parsers[n] ELSE PluginParser(registry, owner, new[n])]
      /\ built.raises <=> Raising(registry, commands, DOMAIN parsers) # {}
  BY DEF BuildCommands
<1> HIDE DEF new, built
<1>3. \A n \in DOMAIN new : n \in DOMAIN built.parsers /\ built.parsers[n] = PluginParser(registry, owner, new[n])
  BY <1>1, <1>2
<1>4. \A n \in DOMAIN parsers : n \in DOMAIN built.parsers /\ built.parsers[n] = parsers[n]
  BY <1>2
<1>5. \A n \in DOMAIN built.parsers : n \notin DOMAIN parsers => n \in DOMAIN new
  BY <1>2
<1>6. \A cmd : PluginParser(registry, owner, cmd).owner = owner
  BY DEF PluginParser
<1>7. ASSUME NEW n \in DOMAIN built.parsers, n \notin DOMAIN parsers
      PROVE  built.parsers[n].owner = owner /\ \E cmd \in ToSet(commands) : cmd.name = n
  BY <1>1, <1>3, <1>5, <1>6, <1>7
<1>8. ASSUME ~built.raises, NEW cmd \in ToSet(commands)
      PROVE  /\ cmd.name \in DOMAIN built.parsers /\ ~Raises(registry)[cmd]
             /\ built.parsers[cmd.name] = PluginParser(registry, owner, cmd)
  BY <1>1, <1>2, <1>3, <1>8
<1>9. Built(registry, owner, commands, parsers, built)
  BY <1>4, <1>7, <1>8 DEF Built
<1> QED BY <1>9 DEF built

Turned(so, m, p, built, next) ==
  LET collides == CommandNames(p) \intersect so.taken # {}
  IN /\ IsState(next)
     /\ ~p.enabled => next = so
     /\ p.enabled /\ (collides \/ built.raises) =>
          /\ next.taken = so.taken /\ next.passthrough = so.passthrough
          /\ next.errors = so.errors \union {m}
          /\ next.parsers = IF collides THEN so.parsers ELSE built.parsers
     /\ p.enabled /\ ~collides /\ ~built.raises =>
          /\ next.taken = so.taken \union CommandNames(p)
          /\ next.passthrough = so.passthrough \union (IF p.passthrough THEN CommandNames(p) ELSE {})
          /\ next.errors = so.errors /\ next.parsers = built.parsers

LEMMA TurnIs ==
    ASSUME NEW registry, NEW so, IsState(so), NEW m, NEW p
    PROVE  Turned(so, m, p, BuildCommands(registry, m, p.commands, so.parsers), RegisterPlugin(registry, so, m, p))
<1> DEFINE built == BuildCommands(registry, m, p.commands, so.parsers)
           next == RegisterPlugin(registry, so, m, p)
           collides == CommandNames(p) \intersect so.taken # {}
           names == CommandNames(p)
<1>1. CASE ~p.enabled
  <2>1. next = so
    BY <1>1 DEF RegisterPlugin
  <2> HIDE DEF built, next
  <2>2. Turned(so, m, p, built, next)
    BY <1>1, <2>1 DEF Turned
  <2> QED BY <2>2 DEF built, next
<1>2. CASE p.enabled /\ collides
  <2>1. next = [so EXCEPT !.errors = @ \union {m}]
    BY <1>2 DEF RegisterPlugin
  <2> HIDE DEF built, next, names, collides
  <2>2. next = [parsers |-> so.parsers, taken |-> so.taken, errors |-> so.errors \union {m}, passthrough |-> so.passthrough]
    BY <2>1 DEF IsState
  <2>3. /\ next.taken = so.taken /\ next.passthrough = so.passthrough
        /\ next.errors = so.errors \union {m} /\ next.parsers = so.parsers
    BY <2>2
  <2>4. IsState(next)
    BY <2>2, <2>3 DEF IsState
  <2>5. Turned(so, m, p, built, next)
    BY <1>2, <2>3, <2>4 DEF Turned, collides
  <2> QED BY <2>5 DEF built, next
<1>3. CASE p.enabled /\ ~collides
  <2>1. next = [parsers |-> built.parsers, taken |-> so.taken \union (IF built.raises THEN {} ELSE names),
                errors |-> IF built.raises THEN so.errors \union {m} ELSE so.errors,
                passthrough |-> IF p.passthrough THEN so.passthrough \union (IF built.raises THEN {} ELSE names)
                                ELSE so.passthrough]
    BY <1>3 DEF RegisterPlugin, Take
  <2> HIDE DEF built, next, names, collides
  <2>2. /\ next.parsers = built.parsers
        /\ next.taken = so.taken \union (IF built.raises THEN {} ELSE names)
        /\ next.errors = IF built.raises THEN so.errors \union {m} ELSE so.errors
        /\ next.passthrough = IF p.passthrough THEN so.passthrough \union (IF built.raises THEN {} ELSE names)
                                ELSE so.passthrough
    BY <2>1
  <2>3. IsState(next)
    BY <2>1, <2>2 DEF IsState
  <2>4. CASE built.raises
    <3>1. /\ next.taken = so.taken /\ next.passthrough = so.passthrough
          /\ next.errors = so.errors \union {m} /\ next.parsers = built.parsers
      BY <2>2, <2>4
    <3>2. Turned(so, m, p, built, next)
      BY <1>3, <2>3, <2>4, <3>1 DEF Turned, collides
    <3> QED BY <3>2 DEF built, next
  <2>5. CASE ~built.raises
    <3>1. /\ next.taken = so.taken \union names
          /\ next.passthrough = so.passthrough \union (IF p.passthrough THEN names ELSE {})
          /\ next.errors = so.errors /\ next.parsers = built.parsers
      BY <2>2, <2>5
    <3>2. Turned(so, m, p, built, next)
      BY <1>3, <2>3, <2>5, <3>1 DEF Turned, collides, names
    <3> QED BY <3>2 DEF built, next
  <2> QED BY <2>4, <2>5
<1> QED BY <1>1, <1>2, <1>3

LEMMA RegisterStep ==
    ASSUME NEW registry, NEW core, NEW plugins, NEW m \in Nat \ {0}, plugins[m].commands \in Seq(CommandDecl),
           NEW so, Registered(registry, core, plugins, so, m - 1), Empty(core, plugins, so, m - 1)
    PROVE  LET next == RegisterPlugin(registry, so, m, plugins[m])
           IN Registered(registry, core, plugins, next, m) /\ Empty(core, plugins, next, m)
<1> DEFINE p == plugins[m]
           built == BuildCommands(registry, m, p.commands, so.parsers)
           next == RegisterPlugin(registry, so, m, p)
           collides == CommandNames(p) \intersect so.taken # {}
           WholeBefore(j) == IsWhole(plugins, so, j)
           WholeNow(j) == IsWhole(plugins, next, j)
<1>1. IsState(so) /\ so.errors \subseteq 1 .. m - 1
  BY DEF Registered
<1>2. /\ IsState(next)
      /\ ~p.enabled => next = so
      /\ p.enabled /\ (collides \/ built.raises) =>
           /\ next.taken = so.taken /\ next.passthrough = so.passthrough
           /\ next.errors = so.errors \union {m}
           /\ next.parsers = IF collides THEN so.parsers ELSE built.parsers
      /\ p.enabled /\ ~collides /\ ~built.raises =>
           /\ next.taken = so.taken \union CommandNames(p)
           /\ next.passthrough = so.passthrough \union (IF p.passthrough THEN CommandNames(p) ELSE {})
           /\ next.errors = so.errors /\ next.parsers = built.parsers
  <2>1. Turned(so, m, p, built, next)
    BY <1>1, TurnIs
  <2> HIDE DEF p, built, next
  <2> QED BY <2>1 DEF Turned
<1>3. /\ \A n \in DOMAIN so.parsers : n \in DOMAIN built.parsers /\ built.parsers[n] = so.parsers[n]
      /\ \A n \in DOMAIN built.parsers : n \notin DOMAIN so.parsers =>
           built.parsers[n].owner = m /\ \E cmd \in ToSet(p.commands) : cmd.name = n
      /\ ~built.raises => \A cmd \in ToSet(p.commands) :
           /\ cmd.name \in DOMAIN built.parsers /\ ~Raises(registry)[cmd]
           /\ built.parsers[cmd.name] = PluginParser(registry, m, cmd)
  <2>1. p.commands \in Seq(CommandDecl)
    OBVIOUS
  <2>2. Built(registry, m, p.commands, so.parsers, built)
    BY <2>1, BuildIs
  <2> HIDE DEF p, built
  <2> QED BY <2>2 DEF Built
<1>4. (\A j \in 1 .. m : j = m \/ j \in 1 .. m - 1) /\ (\A j \in 1 .. m - 1 : j \in 1 .. m /\ j # m /\ j # 0) /\ m \in 1 .. m
      /\ m \notin 1 .. m - 1 /\ m # 0
  OBVIOUS
<1>5. \A c : c \in CommandNames(p) <=> \E cmd \in ToSet(p.commands) : cmd.name = c
  BY DEF CommandNames
<1> HIDE DEF p, built, next, collides
(* What the turn is, in the terms of the invariant.                        *)
<1>6. \A j \in 1 .. m - 1 : WholeNow(j) <=> WholeBefore(j)
  BY <1>2, <1>4 DEF IsWhole
<1>7. /\ WholeNow(m) <=> p.enabled /\ ~collides /\ ~built.raises
      /\ next.errors \subseteq 1 .. m
  BY <1>1, <1>2, <1>4 DEF IsWhole, p
<1>8. \A n \in DOMAIN so.parsers : n \in DOMAIN next.parsers /\ next.parsers[n] = so.parsers[n]
  BY <1>2, <1>3
<1>9. \A n \in DOMAIN next.parsers : n \notin DOMAIN so.parsers =>
        p.enabled /\ ~collides /\ next.parsers[n].owner = m /\ n \in CommandNames(p)
  BY <1>2, <1>3, <1>5
<1>10. WholeNow(m) => \A cmd \in ToSet(p.commands) :
         /\ cmd.name \in DOMAIN next.parsers /\ ~Raises(registry)[cmd]
         /\ next.parsers[cmd.name] = PluginParser(registry, m, cmd)
  BY <1>2, <1>3, <1>7
<1>11. \A c : c \in next.taken <=> c \in so.taken \/ (WholeNow(m) /\ c \in CommandNames(p))
  BY <1>2, <1>7
<1>12. \A c : c \in next.passthrough <=>
         c \in so.passthrough \/ (WholeNow(m) /\ p.passthrough /\ c \in CommandNames(p))
  <2>1. CASE WholeNow(m)
    <3>1. next.passthrough = so.passthrough \union (IF p.passthrough THEN CommandNames(p) ELSE {})
      BY <1>2, <1>7, <2>1
    <3> QED BY <2>1, <3>1
  <2>2. CASE ~WholeNow(m)
    <3>1. next.passthrough = so.passthrough
      BY <1>2, <1>7, <2>2
    <3> QED BY <2>2, <3>1
  <2> QED BY <2>1, <2>2
<1>13. \A c : c \in so.taken <=>
         c \in core \/ \E j \in 1 .. m - 1 : WholeBefore(j) /\ c \in CommandNames(plugins[j])
  BY DEF Registered
<1>14. collides <=> \E c \in CommandNames(p) : c \in so.taken
  BY DEF collides
<1> HIDE DEF WholeNow, WholeBefore
<1>15. Registered(registry, core, plugins, next, m)
  <2>1. \A c : c \in next.taken <=>
          c \in core \/ \E j \in 1 .. m : WholeNow(j) /\ c \in CommandNames(plugins[j])
    BY <1>4, <1>6, <1>11, <1>13 DEF p
  <2>2. \A c \in core : c \in DOMAIN next.parsers /\ next.parsers[c] = CoreParser(c)
    BY <1>8 DEF Registered
  <2>3. \A j \in 1 .. m : WholeNow(j) => \A cmd \in ToSet(plugins[j].commands) :
          /\ cmd.name \in DOMAIN next.parsers /\ next.parsers[cmd.name] = PluginParser(registry, j, cmd)
          /\ ~Raises(registry)[cmd]
    <3> SUFFICES ASSUME NEW j \in 1 .. m, WholeNow(j), NEW cmd \in ToSet(plugins[j].commands)
                 PROVE  /\ cmd.name \in DOMAIN next.parsers /\ next.parsers[cmd.name] = PluginParser(registry, j, cmd)
                        /\ ~Raises(registry)[cmd]
      OBVIOUS
    <3>1. CASE j = m
      BY <1>10, <3>1 DEF p
    <3>2. CASE j \in 1 .. m - 1
      <4>1. IsWhole(plugins, so, j)
        BY <1>6, <3>2 DEF WholeBefore
      <4>2. /\ cmd.name \in DOMAIN so.parsers /\ so.parsers[cmd.name] = PluginParser(registry, j, cmd)
            /\ ~Raises(registry)[cmd]
        BY <3>2, <4>1 DEF Registered
      <4> QED BY <1>8, <4>2
    <3> QED BY <1>4, <3>1, <3>2
  <2>4. \A c \in DOMAIN next.parsers \ core : \E j \in 1 .. m :
          plugins[j].enabled /\ next.parsers[c].owner = j /\ c \in CommandNames(plugins[j])
    <3> SUFFICES ASSUME NEW c \in DOMAIN next.parsers \ core
                 PROVE  \E j \in 1 .. m :
                          plugins[j].enabled /\ next.parsers[c].owner = j /\ c \in CommandNames(plugins[j])
      OBVIOUS
    <3>1. CASE c \in DOMAIN so.parsers
      <4>1. PICK j \in 1 .. m - 1 : plugins[j].enabled /\ so.parsers[c].owner = j /\ c \in CommandNames(plugins[j])
        BY <3>1 DEF Registered
      <4> QED BY <1>4, <1>8, <3>1, <4>1
    <3>2. CASE c \notin DOMAIN so.parsers
      BY <1>4, <1>9, <3>2 DEF p
    <3> QED BY <3>1, <3>2
  <2>5. \A c : c \in next.passthrough <=>
          \E j \in 1 .. m : WholeNow(j) /\ plugins[j].passthrough /\ c \in CommandNames(plugins[j])
    <3>1. \A c : c \in so.passthrough <=>
            \E j \in 1 .. m - 1 : WholeBefore(j) /\ plugins[j].passthrough /\ c \in CommandNames(plugins[j])
      BY DEF Registered, WholeBefore
    <3> QED BY <1>4, <1>6, <1>12, <3>1 DEF p
  <2> QED BY <1>2, <1>7, <2>1, <2>2, <2>3, <2>4, <2>5 DEF Registered, WholeNow
<1>16. Empty(core, plugins, next, m)
  <2>1. \A c \in DOMAIN so.parsers : so.parsers[c].owner # m
    <3> SUFFICES ASSUME NEW c \in DOMAIN so.parsers PROVE so.parsers[c].owner # m
      OBVIOUS
    <3>1. CASE c \in core
      <4>1. so.parsers[c] = CoreParser(c)
        BY <3>1 DEF Registered
      <4> QED BY <1>4, <4>1 DEF CoreParser
    <3>2. CASE c \notin core
      <4>1. \E j \in 1 .. m - 1 : so.parsers[c].owner = j
        BY <3>2 DEF Registered
      <4> QED BY <1>4, <4>1
    <3> QED BY <3>1, <3>2
  <2> SUFFICES ASSUME NEW j \in 1 .. m, NEW c \in DOMAIN next.parsers, next.parsers[c].owner = j,
                      \/ ~plugins[j].enabled
                      \/ \E d \in CommandNames(plugins[j]) :
                           d \in core \/ \E k \in 1 .. j - 1 : WholeNow(k) /\ d \in CommandNames(plugins[k])
               PROVE  FALSE
    BY DEF Empty, WholeNow
  <2>2. CASE j = m
    <3>1. c \notin DOMAIN so.parsers
      BY <1>8, <2>1, <2>2
    <3>2. p.enabled /\ ~collides
      BY <1>9, <3>1
    <3>3. \E d \in CommandNames(p) :
            d \in core \/ \E k \in 1 .. m - 1 : WholeNow(k) /\ d \in CommandNames(plugins[k])
      BY <2>2, <3>2 DEF p
    <3> QED BY <1>6, <1>13, <1>14, <3>2, <3>3
  <2>3. CASE j \in 1 .. m - 1
    <3>1. \A k \in 1 .. j - 1 : k \in 1 .. m - 1
      BY <2>3
    <3>2. \/ ~plugins[j].enabled
          \/ \E d \in CommandNames(plugins[j]) :
               d \in core \/ \E k \in 1 .. j - 1 : WholeBefore(k) /\ d \in CommandNames(plugins[k])
      BY <1>6, <3>1
    <3>3. \A e \in DOMAIN so.parsers : so.parsers[e].owner # j
      BY <2>3, <3>2 DEF Empty, WholeBefore
    <3>4. c \in DOMAIN so.parsers
      BY <1>4, <1>9, <2>3
    <3> QED BY <1>8, <3>3, <3>4
  <2> QED BY <1>4, <2>2, <2>3
<1> QED BY <1>15, <1>16 DEF next, p

(* What runs, for a command and for one below it.                          *)
LEMMA RunsAlone ==
    ASSUME NEW so, NEW c
    PROVE  \A extra \in BOOLEAN : Runs(so, c, {}, extra) =
             IF extra /\ c \notin so.passthrough THEN "error"
             ELSE IF so.parsers[c].main.run = Nobody THEN "usage" ELSE so.parsers[c].main.run
<1> DEFINE parser == so.parsers[c]
<1>1. {parser.subs[s].run : s \in {} \intersect DOMAIN parser.subs} \ {Nobody} = {}
  OBVIOUS
<1> HIDE DEF parser
<1> QED BY <1>1, Zenon DEF Runs, parser

LEMMA RunsBelow ==
    ASSUME NEW so, NEW c, NEW s, NEW parser, NEW r, parser = so.parsers[c],
           s \in DOMAIN parser.subs, r = parser.subs[s].run, r # Nobody
    PROVE  Runs(so, c, {s}, FALSE) = r
<1> DEFINE below == {parser.subs[t].run : t \in {s} \intersect DOMAIN parser.subs} \ {Nobody}
           chosen == CHOOSE q \in below : TRUE
           run == IF below = {} THEN parser.main.run ELSE chosen
<1>1. below = {r}
  OBVIOUS
<1>2. chosen \in below
  <2> HIDE DEF below
  <2>1. r \in below
    BY <1>1
  <2> QED BY <2>1
<1>3. run = r
  <2> HIDE DEF below, chosen
  <2> QED BY <1>1, <1>2
<1>4. Runs(so, c, {s}, FALSE) = IF FALSE /\ c \notin so.passthrough THEN "error"
                                ELSE IF run = Nobody THEN "usage" ELSE run
  BY DEF Runs
<1> HIDE DEF run
<1> QED BY <1>3, <1>4

LEMMA Registration ==
    ASSUME NEW registry, NEW core, NEW plugins \in Seq(PluginManifest)
    PROVE  EachHasItsOwn(registry, core, plugins, RegisterAll(registry, core, plugins))
<1> DEFINE n == Len(plugins)
           so == RegisterAll(registry, core, plugins)
           Inv(s, m) == Registered(registry, core, plugins, s, m) /\ Empty(core, plugins, s, m)
<1>1. n \in Nat /\ 1 .. n = DOMAIN plugins /\ n \in 0 .. n /\ \A i \in 1 .. n : plugins[i].commands \in Seq(CommandDecl)
  BY CommandAssumption
<1>2. PICK f : /\ f[0] = AtFirst(core)
               /\ \A m \in 1 .. n : f[m] = RegisterPlugin(registry, f[m - 1], m, plugins[m])
               /\ so = f[n]
  BY <1>1, RegisterIs
<1>3. Inv(f[0], 0)
  <2> DEFINE s == AtFirst(core)
  <2>1. /\ s.parsers = [c \in core |-> CoreParser(c)] /\ s.taken = core /\ s.errors = {} /\ s.passthrough = {}
        /\ IsState(s)
    BY DEF AtFirst, IsState
  <2>2. \A j : j \notin 1 .. 0
    OBVIOUS
  <2> HIDE DEF s
  <2>3. Registered(registry, core, plugins, s, 0)
    BY <2>1, <2>2 DEF Registered
  <2>4. Empty(core, plugins, s, 0)
    BY <2>2 DEF Empty
  <2> QED BY <1>2, <2>3, <2>4 DEF s
<1>4. ASSUME NEW m \in 1 .. n, Inv(f[m - 1], m - 1) PROVE Inv(f[m], m)
  <2>1. m \in Nat \ {0} /\ plugins[m].commands \in Seq(CommandDecl)
    BY <1>1
  <2>2. f[m] = RegisterPlugin(registry, f[m - 1], m, plugins[m])
    BY <1>2
  <2> HIDE DEF so, n
  <2> QED BY <1>4, <2>1, <2>2, RegisterStep
<1>5. Inv(so, n)
  <2> DEFINE T == {m \in 0 .. n : Inv(f[m], m)}
  <2> HIDE DEF Inv
  <2>1. 0 \in T
    BY <1>1, <1>3
  <2>2. \A m \in 0 .. n - 1 : m \in T => m + 1 \in T
    <3> SUFFICES ASSUME NEW m \in 0 .. n - 1, m \in T PROVE m + 1 \in T
      OBVIOUS
    <3>1. m + 1 \in 1 .. n /\ m + 1 \in 0 .. n /\ (m + 1) - 1 = m
      BY <1>1
    <3> HIDE DEF n, so
    <3> QED BY <1>4, <3>1
  <2>3. 0 .. n \subseteq T
    <3> HIDE DEF T, n, so
    <3> QED BY <1>1, <2>1, <2>2, Induct
  <2> QED BY <1>1, <1>2, <2>3
<1>6. Registered(registry, core, plugins, so, n) /\ Empty(core, plugins, so, n)
  BY <1>5
<1> HIDE DEF so, n, Inv
<1> DEFINE Whole(i) == plugins[i].enabled /\ i \notin so.errors
           Before(i) == core \union UNION {CommandNames(plugins[j]) : j \in {k \in 1 .. i - 1 : Whole(k)}}
           Own(cmd) == IF Handler(cmd) = Nobody THEN "usage" ELSE Handler(cmd)
<1>7. \A c \in core : so.parsers[c] = CoreParser(c)
  BY <1>6 DEF Registered
<1>8. \A c \in DOMAIN so.parsers \ core :
        \E i \in DOMAIN plugins : plugins[i].enabled /\ so.parsers[c].owner = i /\ c \in CommandNames(plugins[i])
  BY <1>1, <1>6 DEF Registered
<1>9. ASSUME NEW i \in DOMAIN plugins, ~plugins[i].enabled \/ CommandNames(plugins[i]) \intersect Before(i) # {}
      PROVE  \A c \in DOMAIN so.parsers : so.parsers[c].owner # i
  <2>1. \/ ~plugins[i].enabled
        \/ \E c \in CommandNames(plugins[i]) :
             c \in core \/ \E k \in 1 .. i - 1 : IsWhole(plugins, so, k) /\ c \in CommandNames(plugins[k])
    BY <1>9 DEF IsWhole
  <2>2. i \in 1 .. n
    BY <1>1
  <2> QED BY <1>6, <2>1, <2>2 DEF Empty
<1>10. ASSUME NEW i \in DOMAIN plugins, Whole(i), NEW cmd \in ToSet(plugins[i].commands)
       PROVE  LET p == plugins[i]
                  parser == so.parsers[cmd.name]
              IN /\ parser.owner = i /\ parser.main.arguments = Arguments(registry, cmd)
                 /\ \A extra \in BOOLEAN :
                      Runs(so, cmd.name, {}, extra) = IF extra /\ ~p.passthrough THEN "error" ELSE Own(cmd)
                 /\ \A s \in ToSet(cmd.subcommands) :
                      /\ s.name \in DOMAIN parser.subs
                      /\ parser.subs[s.name].arguments = Arguments(registry, s)
                      /\ Handler(s) # Nobody => Runs(so, cmd.name, {s.name}, FALSE) = Handler(s)
  <2> DEFINE p == plugins[i]
             c == cmd.name
             parser == so.parsers[c]
  <2>1. i \in 1 .. n /\ IsWhole(plugins, so, i) /\ p.commands \in Seq(CommandDecl)
    BY <1>1, <1>10 DEF IsWhole
  <2>2. cmd \in CommandDecl /\ c \in CommandNames(p)
    BY <2>1, ToSetIn DEF CommandNames
  <2>3. c \in DOMAIN so.parsers /\ parser = PluginParser(registry, i, cmd) /\ ~Raises(registry)[cmd]
    BY <1>6, <2>1 DEF Registered
  <2>4. \A j \in 1 .. n : IsWhole(plugins, so, j) /\ c \in CommandNames(plugins[j]) => j = i
    <3> SUFFICES ASSUME NEW j \in 1 .. n, IsWhole(plugins, so, j), c \in CommandNames(plugins[j]) PROVE j = i
      OBVIOUS
    <3>1. PICK other \in ToSet(plugins[j].commands) : other.name = c
      BY DEF CommandNames
    <3>2. parser = PluginParser(registry, j, other)
      <4> HIDE DEF c
      <4> QED BY <1>6, <3>1 DEF Registered
    <3> HIDE DEF parser
    <3> QED BY <2>3, <3>2 DEF PluginParser
  <2>5. c \in so.passthrough <=> p.passthrough
    <3> HIDE DEF c
    <3>1. c \in so.passthrough <=>
            \E j \in 1 .. n : IsWhole(plugins, so, j) /\ plugins[j].passthrough /\ c \in CommandNames(plugins[j])
      BY <1>6 DEF Registered
    <3> QED BY <2>1, <2>2, <2>4, <3>1
  <2>6. /\ parser.owner = i
        /\ parser.main.arguments = Arguments(registry, cmd) /\ parser.main.run = Handler(cmd)
        /\ \A s \in ToSet(cmd.subcommands) :
             /\ s.name \in DOMAIN parser.subs
             /\ parser.subs[s.name].arguments = Arguments(registry, s)
             /\ parser.subs[s.name].run = Handler(s)
    <3> HIDE DEF parser
    <3> QED BY <2>2, <2>3, WholeParser
  <2>7. \A extra \in BOOLEAN : Runs(so, c, {}, extra) = IF extra /\ ~p.passthrough THEN "error" ELSE Own(cmd)
    <3>1. \A extra \in BOOLEAN : Runs(so, c, {}, extra) =
                IF extra /\ c \notin so.passthrough THEN "error"
                ELSE IF parser.main.run = Nobody THEN "usage" ELSE parser.main.run
      BY RunsAlone
    <3> HIDE DEF parser, c, p
    <3> QED BY <2>5, <2>6, <3>1
  <2>8. \A s \in ToSet(cmd.subcommands) : Handler(s) # Nobody => Runs(so, c, {s.name}, FALSE) = Handler(s)
    <3>1. \A s \in DOMAIN parser.subs : parser.subs[s].run # Nobody => Runs(so, c, {s}, FALSE) = parser.subs[s].run
      <4> SUFFICES ASSUME NEW s \in DOMAIN parser.subs, parser.subs[s].run # Nobody
                   PROVE  Runs(so, c, {s}, FALSE) = parser.subs[s].run
        OBVIOUS
      <4> DEFINE r == parser.subs[s].run
      <4> HIDE DEF c
      <4>1. parser = so.parsers[c] /\ r = parser.subs[s].run /\ r # Nobody
        OBVIOUS
      <4> HIDE DEF parser, r
      <4>2. Runs(so, c, {s}, FALSE) = r
        BY <4>1, RunsBelow
      <4> QED BY <4>2 DEF r
    <3> HIDE DEF parser, c
    <3> QED BY <2>6, <3>1
  <2> QED BY <2>6, <2>7, <2>8
<1> QED BY <1>7, <1>8, <1>9, <1>10 DEF EachHasItsOwn, so

(***************************************************************************)
(* Every plugin is found or reported, and every command runs the handler   *)
(* of the one plugin that is entitled to it (discover_plugins,             *)
(* build_commands, _register_plugin_commands), for every scan, every list  *)
(* of plugins and every set of templates and core commands.                *)
(***************************************************************************)
THEOREM CommandsAreApart == Spec => []CommandsApart
<1>1. CommandsApart
  <2>1. ASSUME NEW configured \in Scans, NEW users \in Scans PROVE FoundOrReported(configured, users)
    <3>1. configured \in Seq(PluginManifest) /\ users \in Seq(PluginManifest)
      BY CommandAssumption
    <3> QED BY <3>1, Discovery
  <2>2. ASSUME NEW plugins \in Listings PROVE EachHasItsOwn(Templates, Core, plugins, RegisterAll(Templates, Core, plugins))
    <3>1. plugins \in Seq(PluginManifest)
      BY CommandAssumption
    <3> QED BY <3>1, Registration
  <2> QED BY <2>1, <2>2 DEF CommandsApart
<1> QED BY <1>1, PTL

-----------------------------------------------------------------------------
(* Arguments.                                                              *)

(* Of the first m arguments a is the last of the name n.                   *)
DefinesTo(s, m, n, a) ==
  a.name = n /\ \E i \in 1 .. m : s[i] = a /\ \A j \in i + 1 .. m : s[j].name # n

Defines(s, n, a) == DefinesTo(s, Len(s), n, a)

LEMMA DefinesNext ==
    ASSUME NEW s, NEW m \in Nat \ {0}, NEW n, NEW a
    PROVE  DefinesTo(s, m, n, a) <=>
             (a = s[m] /\ n = a.name) \/ (s[m].name # n /\ DefinesTo(s, m - 1, n, a))
<1>1. m \in 1 .. m /\ (\A j \in 1 .. m : j = m \/ j \in 1 .. m - 1) /\ \A j \in 1 .. m - 1 : j \in 1 .. m /\ m \in j + 1 .. m
  OBVIOUS
<1>2. \A i : i \in 1 .. m - 1 => \A j : j \in i + 1 .. m <=> j = m \/ j \in i + 1 .. m - 1
  OBVIOUS
<1>3. \A j : j \notin m + 1 .. m
  OBVIOUS
<1>4. ASSUME DefinesTo(s, m, n, a) PROVE (a = s[m] /\ n = a.name) \/ (s[m].name # n /\ DefinesTo(s, m - 1, n, a))
  <2>1. PICK i \in 1 .. m : s[i] = a /\ \A j \in i + 1 .. m : s[j].name # n
    BY <1>4 DEF DefinesTo
  <2>2. CASE i = m
    BY <1>4, <2>1, <2>2 DEF DefinesTo
  <2>3. CASE i \in 1 .. m - 1
    BY <1>1, <1>2, <1>4, <2>1, <2>3 DEF DefinesTo
  <2> QED BY <1>1, <2>2, <2>3
<1>5. ASSUME a = s[m], n = a.name PROVE DefinesTo(s, m, n, a)
  BY <1>1, <1>3, <1>5 DEF DefinesTo
<1>6. ASSUME s[m].name # n, DefinesTo(s, m - 1, n, a) PROVE DefinesTo(s, m, n, a)
  <2>1. PICK i \in 1 .. m - 1 : s[i] = a /\ \A j \in i + 1 .. m - 1 : s[j].name # n
    BY <1>6 DEF DefinesTo
  <2> QED BY <1>1, <1>2, <1>6, <2>1 DEF DefinesTo
<1> QED BY <1>4, <1>5, <1>6

LEMMA NameOf ==
    ASSUME NEW S, NEW s \in Seq(S)
    PROVE  \A n : n \in Names(s) <=> \E i \in 1 .. Len(s) : s[i].name = n
<1>1. \A x : x \in ToSet(s) <=> \E i \in 1 .. Len(s) : s[i] = x
  BY ToSetIn
<1> QED BY <1>1 DEF Names

(* A name has one last definition.                                         *)
LEMMA DefinesIs ==
    ASSUME NEW S, NEW s \in Seq(S), NEW n
    PROVE  /\ \A a : Defines(s, n, a) => a \in ToSet(s) /\ a.name = n /\ n \in Names(s) /\ Latest(s, n) = a
           /\ n \in Names(s) => \E a \in S : Defines(s, n, a)
<1> DEFINE at == {i \in DOMAIN s : s[i].name = n}
<1>1. Len(s) \in Nat /\ DOMAIN s = 1 .. Len(s)
  OBVIOUS
<1>2. ASSUME NEW a, Defines(s, n, a)
      PROVE  a \in ToSet(s) /\ a.name = n /\ n \in Names(s) /\ Latest(s, n) = a
  <2>1. PICK i \in 1 .. Len(s) : s[i] = a /\ \A j \in i + 1 .. Len(s) : s[j].name # n
    BY <1>2 DEF Defines, DefinesTo
  <2>2. a.name = n
    BY <1>2 DEF Defines, DefinesTo
  <2>3. a \in ToSet(s) /\ n \in Names(s)
    BY <1>1, <2>1, <2>2, ToSetIn DEF Names
  <2>4. i \in at /\ \A j \in at : i >= j
    BY <1>1, <2>1, <2>2
  <2>5. at \subseteq Int
    BY <1>1
  <2> HIDE DEF at
  <2>6. Max(at) \in at /\ \A j \in at : Max(at) >= j
    BY <2>4 DEF Max
  <2>7. Max(at) = i
    <3> DEFINE m == Max(at)
    <3>1. m \in Int /\ i \in Int /\ m >= i /\ i >= m
      BY <2>4, <2>5, <2>6
    <3> HIDE DEF m
    <3>2. m = i
      BY <3>1
    <3> QED BY <3>2 DEF m
  <2> QED BY <2>1, <2>2, <2>3, <2>7 DEF Latest, at
<1>3. ASSUME n \in Names(s) PROVE \E a \in S : Defines(s, n, a)
  <2> DEFINE T == {m \in 0 .. Len(s) : (\E i \in 1 .. m : s[i].name = n) => \E a \in S : DefinesTo(s, m, n, a)}
  <2>1. 0 \in T
    BY <1>1
  <2>2. ASSUME NEW m \in 0 .. Len(s) - 1, m \in T PROVE m + 1 \in T
    <3>1. m + 1 \in 0 .. Len(s) /\ m + 1 \in Nat \ {0} /\ (m + 1) - 1 = m /\ s[m + 1] \in S
      BY <1>1
    <3>2. CASE s[m + 1].name = n
      <4>1. DefinesTo(s, m + 1, n, s[m + 1])
        BY <3>1, <3>2, DefinesNext
      <4> QED BY <3>1, <4>1
    <3>3. CASE s[m + 1].name # n
      <4>1. \A i \in 1 .. m + 1 : s[i].name = n => i \in 1 .. m
        BY <1>1, <3>3
      <4>2. \A a : DefinesTo(s, m, n, a) => DefinesTo(s, m + 1, n, a)
        BY <3>1, <3>3, DefinesNext
      <4> QED BY <2>2, <3>1, <4>1, <4>2
    <3> QED BY <3>2, <3>3
  <2>3. 0 .. Len(s) \subseteq T
    <3> HIDE DEF T
    <3> QED BY <1>1, <2>1, <2>2, Induct
  <2>4. \E i \in 1 .. Len(s) : s[i].name = n
    BY <1>3, NameOf
  <2> QED BY <1>1, <2>3, <2>4 DEF Defines
<1> QED BY <1>2, <1>3

(* A sequence in which no name comes twice.                                *)
Apart(s) == \A i, j \in 1 .. Len(s) : s[i].name = s[j].name => i = j

LEMMA ApartDefines ==
    ASSUME NEW S, NEW s \in Seq(S), Apart(s), NEW a \in ToSet(s)
    PROVE  Defines(s, a.name, a)
<1>1. PICK i \in 1 .. Len(s) : s[i] = a
  BY ToSetIn
<1>2. \A j \in i + 1 .. Len(s) : j \in 1 .. Len(s) /\ j # i
  BY <1>1
<1> QED BY <1>1, <1>2 DEF Apart, Defines, DefinesTo

(* Two sequences, one after the other.                                     *)
LEMMA ThenDefines ==
    ASSUME NEW S, NEW s \in Seq(S), NEW t \in Seq(S)
    PROVE  /\ s \o t \in Seq(S) /\ Names(s \o t) = Names(s) \union Names(t)
           /\ \A n, a : Defines(s \o t, n, a) <=> Defines(t, n, a) \/ (n \notin Names(t) /\ Defines(s, n, a))
<1> DEFINE k == Len(s)
           l == Len(t)
           st == s \o t
<1>1. /\ k \in Nat /\ l \in Nat /\ st \in Seq(S) /\ Len(st) = k + l
      /\ (\A i \in 1 .. k : st[i] = s[i]) /\ \A i \in 1 .. l : st[k + i] = t[i]
  OBVIOUS
<1> HIDE DEF st, k, l
<1>2. \A i \in 1 .. k + l : i \in 1 .. k \/ (i - k \in 1 .. l /\ i = k + (i - k))
  BY <1>1
<1>3. (\A i \in 1 .. k : i \in 1 .. k + l) /\ \A i \in 1 .. l : k + i \in 1 .. k + l
  BY <1>1
<1>4. /\ \A n : n \in Names(s) <=> \E i \in 1 .. k : s[i].name = n
      /\ \A n : n \in Names(t) <=> \E i \in 1 .. l : t[i].name = n
      /\ \A n : n \in Names(st) <=> \E i \in 1 .. k + l : st[i].name = n
  BY <1>1, NameOf DEF k, l
<1>5. Names(st) = Names(s) \union Names(t)
  <2>1. ASSUME NEW n \in Names(st) PROVE n \in Names(s) \union Names(t)
    <3>1. PICK i \in 1 .. k + l : st[i].name = n
      BY <1>4, <2>1
    <3>2. CASE i \in 1 .. k
      BY <1>1, <1>4, <3>1, <3>2
    <3>3. CASE i - k \in 1 .. l /\ i = k + (i - k)
      <4>1. st[i] = t[i - k]
        BY <1>1, <3>3
      <4> QED BY <1>4, <3>1, <3>3, <4>1
    <3> QED BY <1>2, <3>2, <3>3
  <2>2. ASSUME NEW n \in Names(s) PROVE n \in Names(st)
    BY <1>1, <1>3, <1>4, <2>2
  <2>3. ASSUME NEW n \in Names(t) PROVE n \in Names(st)
    <3>1. PICK i \in 1 .. l : t[i].name = n
      BY <1>4, <2>3
    <3>2. st[k + i].name = n /\ k + i \in 1 .. k + l
      BY <1>1, <1>3, <3>1
    <3> QED BY <1>4, <3>2
  <2> QED BY <2>1, <2>2, <2>3
<1>6. ASSUME NEW n, NEW a, Defines(st, n, a) PROVE Defines(t, n, a) \/ (n \notin Names(t) /\ Defines(s, n, a))
  <2>1. a.name = n
    BY <1>6 DEF Defines, DefinesTo
  <2>2. PICK i \in 1 .. k + l : st[i] = a /\ \A j \in i + 1 .. k + l : st[j].name # n
    BY <1>1, <1>6 DEF Defines, DefinesTo
  <2>3. CASE i \in 1 .. k
    <3>1. \A j \in i + 1 .. k : j \in i + 1 .. k + l /\ j \in 1 .. k
      BY <1>1, <2>3
    <3>2. \A j \in 1 .. l : k + j \in i + 1 .. k + l
      BY <1>1, <2>3
    <3>3. n \notin Names(t)
      <4> SUFFICES ASSUME NEW j \in 1 .. l, t[j].name = n PROVE FALSE
        BY <1>4
      <4>1. st[k + j].name = n /\ st[k + j].name # n
        BY <1>1, <2>2, <3>2
      <4> QED BY <4>1
    <3>4. Defines(s, n, a)
      BY <1>1, <2>1, <2>2, <2>3, <3>1 DEF Defines, DefinesTo, k
    <3> QED BY <3>3, <3>4
  <2>4. CASE i - k \in 1 .. l
    <3>1. \A j \in (i - k) + 1 .. l : k + j \in i + 1 .. k + l /\ j \in 1 .. l
      BY <1>1, <2>4
    <3>2. st[i] = t[i - k]
      BY <1>1, <1>2, <2>4
    <3>3. \A j \in (i - k) + 1 .. l : t[j].name # n
      BY <1>1, <2>2, <3>1
    <3> QED BY <2>1, <2>2, <2>4, <3>2, <3>3 DEF Defines, DefinesTo, l
  <2> QED BY <1>2, <2>3, <2>4
<1>7. ASSUME NEW n, NEW a, Defines(t, n, a) PROVE Defines(st, n, a)
  <2>1. a.name = n
    BY <1>7 DEF Defines, DefinesTo
  <2>2. PICK i \in 1 .. l : t[i] = a /\ \A j \in i + 1 .. l : t[j].name # n
    BY <1>7 DEF Defines, DefinesTo, l
  <2>3. \A j \in (k + i) + 1 .. k + l : j - k \in i + 1 .. l /\ j - k \in 1 .. l /\ j = k + (j - k)
    BY <1>1
  <2>4. \A j \in (k + i) + 1 .. k + l : st[j] = t[j - k]
    BY <1>1, <2>3
  <2>5. \A j \in (k + i) + 1 .. k + l : st[j].name # n
    BY <2>2, <2>3, <2>4
  <2>6. k + i \in 1 .. k + l /\ st[k + i] = a
    BY <1>1, <1>3, <2>2
  <2> QED BY <1>1, <2>1, <2>5, <2>6 DEF Defines, DefinesTo
<1>8. ASSUME NEW n, NEW a, n \notin Names(t), Defines(s, n, a) PROVE Defines(st, n, a)
  <2>1. a.name = n
    BY <1>8 DEF Defines, DefinesTo
  <2>2. PICK i \in 1 .. k : s[i] = a /\ \A j \in i + 1 .. k : s[j].name # n
    BY <1>8 DEF Defines, DefinesTo, k
  <2>3. ASSUME NEW j \in i + 1 .. k + l PROVE st[j].name # n
    <3>1. CASE j \in 1 .. k
      <4>1. j \in i + 1 .. k
        BY <1>1, <3>1
      <4> QED BY <1>1, <2>2, <3>1, <4>1
    <3>2. CASE j - k \in 1 .. l /\ j = k + (j - k)
      <4>1. st[j] = t[j - k]
        BY <1>1, <3>2
      <4> QED BY <1>4, <1>8, <3>2, <4>1
    <3>3. j \in 1 .. k + l
      BY <1>1
    <3> QED BY <1>2, <3>1, <3>2, <3>3
  <2> QED BY <1>1, <1>3, <2>1, <2>2, <2>3 DEF Defines, DefinesTo
<1> QED BY <1>1, <1>5, <1>6, <1>7, <1>8 DEF st

(* All of some sequences, one after the other.                             *)
FlatTo(parts, m, z) ==
  /\ Names(z) = UNION {Names(parts[i]) : i \in 1 .. m}
  /\ \A n, a : Defines(z, n, a) <=>
       \E i \in 1 .. m : Defines(parts[i], n, a) /\ \A j \in i + 1 .. m : n \notin Names(parts[j])

LEMMA FlatFirst ==
    ASSUME NEW parts
    PROVE  FlatTo(parts, 0, <<>>) /\ FlatTo(parts, 1, parts[1])
<1>1. Len(<<>>) = 0 /\ (\A i : i \notin 1 .. 0) /\ <<>> \in Seq({}) /\ (\A i : i \in 1 .. 1 <=> i = 1) /\ \A i : i \notin 1 + 1 .. 1
  OBVIOUS
<1>2. Names(<<>>) = {} /\ \A n, a : ~Defines(<<>>, n, a)
  <2> DEFINE e == <<>>
  <2>1. e \in Seq({}) /\ Len(e) = 0
    OBVIOUS
  <2> HIDE DEF e
  <2>2. \A n : n \notin Names(e)
    BY <1>1, <2>1, NameOf
  <2>3. \A n, a : ~Defines(e, n, a)
    BY <1>1, <2>1 DEF Defines, DefinesTo
  <2> QED BY <2>2, <2>3 DEF e
<1>3. FlatTo(parts, 0, <<>>)
  BY <1>1, <1>2 DEF FlatTo
<1>4. FlatTo(parts, 1, parts[1])
  BY <1>1 DEF FlatTo
<1> QED BY <1>3, <1>4

LEMMA FlatNext ==
    ASSUME NEW S, NEW parts, NEW m \in Nat \ {0}, NEW z \in Seq(S), parts[m] \in Seq(S), FlatTo(parts, m - 1, z)
    PROVE  z \o parts[m] \in Seq(S) /\ FlatTo(parts, m, z \o parts[m])
<1> DEFINE y == z \o parts[m]
<1>1. /\ y \in Seq(S) /\ Names(y) = Names(z) \union Names(parts[m])
      /\ \A n, a : Defines(y, n, a) <=>
           Defines(parts[m], n, a) \/ (n \notin Names(parts[m]) /\ Defines(z, n, a))
  BY ThenDefines
<1> HIDE DEF y
<1>2. m \in 1 .. m /\ (\A i \in 1 .. m : i = m \/ i \in 1 .. m - 1) /\ (\A i \in 1 .. m - 1 : i \in 1 .. m /\ m \in i + 1 .. m)
      /\ \A j : j \notin m + 1 .. m
  OBVIOUS
<1>3. \A i : i \in 1 .. m - 1 => \A j : j \in i + 1 .. m <=> j = m \/ j \in i + 1 .. m - 1
  OBVIOUS
<1>4. Names(y) = UNION {Names(parts[i]) : i \in 1 .. m}
  <2>1. Names(z) = UNION {Names(parts[i]) : i \in 1 .. m - 1}
    BY DEF FlatTo
  <2> QED BY <1>1, <1>2, <2>1
<1>5. ASSUME NEW n, NEW a
      PROVE  Defines(y, n, a) <=>
               \E i \in 1 .. m : Defines(parts[i], n, a) /\ \A j \in i + 1 .. m : n \notin Names(parts[j])
  <2>1. Defines(z, n, a) <=>
          \E i \in 1 .. m - 1 : Defines(parts[i], n, a) /\ \A j \in i + 1 .. m - 1 : n \notin Names(parts[j])
    BY DEF FlatTo
  <2>2. ASSUME Defines(y, n, a)
        PROVE  \E i \in 1 .. m : Defines(parts[i], n, a) /\ \A j \in i + 1 .. m : n \notin Names(parts[j])
    <3>1. CASE Defines(parts[m], n, a)
      BY <1>2, <3>1
    <3>2. CASE n \notin Names(parts[m]) /\ Defines(z, n, a)
      <4>1. PICK i \in 1 .. m - 1 : Defines(parts[i], n, a) /\ \A j \in i + 1 .. m - 1 : n \notin Names(parts[j])
        BY <2>1, <3>2
      <4> QED BY <1>2, <1>3, <3>2, <4>1
    <3> QED BY <1>1, <2>2, <3>1, <3>2
  <2>3. ASSUME NEW i \in 1 .. m, Defines(parts[i], n, a), \A j \in i + 1 .. m : n \notin Names(parts[j])
        PROVE  Defines(y, n, a)
    <3>1. CASE i = m
      BY <1>1, <2>3, <3>1
    <3>2. CASE i \in 1 .. m - 1
      <4>1. n \notin Names(parts[m]) /\ \A j \in i + 1 .. m - 1 : n \notin Names(parts[j])
        BY <1>2, <1>3, <2>3, <3>2
      <4> QED BY <1>1, <2>1, <2>3, <3>2, <4>1
    <3> QED BY <1>2, <3>1, <3>2
  <2> QED BY <2>2, <2>3
<1>6. FlatTo(parts, m, y)
  BY <1>4, <1>5 DEF FlatTo
<1> QED BY <1>1, <1>6 DEF y

LEMMA FlatIs ==
    ASSUME NEW S, NEW parts \in Seq(Seq(S))
    PROVE  FlattenSeq(parts) \in Seq(S) /\ FlatTo(parts, Len(parts), FlattenSeq(parts))
<1> DEFINE n == Len(parts)
           Is(f) == f = [i \in 1 .. Len(parts) |-> IF i = 1 THEN parts[i] ELSE f[i - 1] \o parts[i]]
           after == CHOOSE f : Is(f)
<1>1. n \in Nat /\ \A m \in 1 .. n : parts[m] \in Seq(S) /\ m \in Nat \ {0}
  OBVIOUS
<1>2. CASE n = 0
  <2>1. FlattenSeq(parts) = parts /\ parts = <<>>
    BY <1>2 DEF FlattenSeq
  <2>2. FlatTo(parts, 0, <<>>)
    BY FlatFirst
  <2> QED BY <1>2, <2>1, <2>2
<1>3. CASE n # 0
  <2> DEFINE I == [m \in 0 .. n |-> Seq(S)]
             g == [m \in 1 .. n |-> [z \in Seq(S) |-> z \o parts[m]]]
             x == <<>>
  <2>1. x \in I[0]
    BY <1>1
  <2>2. \A m \in 1 .. n : \A y \in I[m - 1] : g[m][y] \in I[m] /\ g[m][y] = y \o parts[m]
    <3> SUFFICES ASSUME NEW m \in 1 .. n, NEW y \in I[m - 1] PROVE g[m][y] \in I[m] /\ g[m][y] = y \o parts[m]
      OBVIOUS
    <3>1. y \in Seq(S) /\ m \in 0 .. n
      BY <1>1
    <3>2. g[m][y] = y \o parts[m]
      BY <3>1
    <3>3. y \o parts[m] \in Seq(S)
      BY <1>1, <3>1
    <3> QED BY <3>1, <3>2, <3>3
  <2>3. \E f : Loop(f, n, x, g) /\ \A m \in 0 .. n : f[m] \in I[m]
    <3> HIDE DEF n, I, g, x
    <3> QED BY <1>1, <2>1, <2>2, LoopEnds
  <2>4. PICK f : Loop(f, n, x, g) /\ \A m \in 0 .. n : f[m] \in I[m]
    BY <2>3
  <2> DEFINE h == [i \in 1 .. n |-> f[i]]
  <2>5. \A i \in 1 .. n : f[i] = f[i - 1] \o parts[i]
    <3> SUFFICES ASSUME NEW i \in 1 .. n PROVE f[i] = f[i - 1] \o parts[i]
      OBVIOUS
    <3>1. i \in 0 .. n /\ i # 0 /\ i - 1 \in 0 .. n
      BY <1>1
    <3>2. f[i] = g[i][f[i - 1]]
      <4> HIDE DEF g
      <4> QED BY <2>4, <3>1 DEF Loop
    <3>3. f[i - 1] \in I[i - 1]
      BY <2>4, <3>1
    <3> HIDE DEF g, I
    <3> QED BY <2>2, <3>2, <3>3
  <2>6. f[1] = parts[1] /\ 1 \in 1 .. n
    <3>1. 1 \in 1 .. n /\ 0 \in 0 .. n /\ 1 - 1 = 0
      BY <1>1, <1>3
    <3>2. f[0] = <<>>
      BY <2>4, <3>1 DEF Loop
    <3>3. f[1] = <<>> \o parts[1]
      BY <2>5, <3>1, <3>2
    <3> QED BY <1>1, <3>1, <3>3, ConcatEmptySeq
  <2>7. \A i \in 1 .. n : i = 1 \/ i - 1 \in 1 .. n
    BY <1>1
  <2>8. \A i \in 1 .. n : h[i] = IF i = 1 THEN parts[i] ELSE h[i - 1] \o parts[i]
    <3> HIDE DEF n
    <3> QED BY <2>5, <2>6, <2>7
  <2>9. h = [i \in 1 .. n |-> h[i]]
    OBVIOUS
  <2>10. Is(h)
    <3> HIDE DEF h
    <3> QED BY <2>8, <2>9
  <2>11. Is(after)
    <3> HIDE DEF Is, h
    <3> QED BY <2>10, Zenon
  <2>12. FlattenSeq(parts) = after[n]
    BY <1>3 DEF FlattenSeq
  <2> HIDE DEF after
  <2>13. \A i \in 1 .. n : after[i] = IF i = 1 THEN parts[i] ELSE after[i - 1] \o parts[i]
    BY <2>11
  <2> HIDE DEF Is
  <2> DEFINE T == {m \in 0 .. n : m = 0 \/ (after[m] \in Seq(S) /\ FlatTo(parts, m, after[m]))}
  <2>14. 0 \in T
    BY <1>1
  <2>15. ASSUME NEW m \in 0 .. n - 1, m \in T PROVE m + 1 \in T
    <3>1. m + 1 \in 1 .. n /\ (m + 1) - 1 = m /\ m + 1 \in Nat \ {0} /\ m + 1 \in 0 .. n
      BY <1>1
    <3>2. CASE m = 0
      <4>1. after[1] = parts[1] /\ 1 \in 0 .. n /\ parts[1] \in Seq(S)
        BY <1>1, <2>6, <2>13
      <4> QED BY <3>2, <4>1, FlatFirst
    <3>3. CASE m # 0
      <4>1. after[m] \in Seq(S) /\ FlatTo(parts, m, after[m])
        BY <2>15, <3>3
      <4>2. after[m + 1] = after[m] \o parts[m + 1]
        <5>1. m + 1 # 1
          BY <1>1, <3>3
        <5> HIDE DEF n, T
        <5>2. after[m + 1] = after[(m + 1) - 1] \o parts[m + 1]
          BY <2>13, <3>1, <5>1
        <5> QED BY <3>1, <5>2
      <4>3. parts[m + 1] \in Seq(S)
        BY <1>1, <3>1
      <4>4. after[m + 1] \in Seq(S) /\ FlatTo(parts, m + 1, after[m + 1])
        BY <3>1, <4>1, <4>2, <4>3, FlatNext
      <4> QED BY <3>1, <4>4
    <3> QED BY <3>2, <3>3
  <2>16. 0 .. n \subseteq T
    <3> HIDE DEF T, n
    <3> QED BY <1>1, <2>14, <2>15, Induct
  <2>17. n \in T
    BY <1>1, <2>16
  <2> QED BY <1>3, <2>12, <2>17
<1> QED BY <1>2, <1>3

(* A later definition in the place of an earlier one.                      *)
LEMMA PutIs ==
    ASSUME NEW S, NEW z \in Seq(S), NEW e \in S, Apart(z)
    PROVE  /\ Put(z, e) \in Seq(S) /\ Apart(Put(z, e))
           /\ \A a : a \in ToSet(Put(z, e)) <=> a = e \/ (a \in ToSet(z) /\ a.name # e.name)
<1> DEFINE n == Len(z)
<1>1. n \in Nat /\ DOMAIN z = 1 .. n /\ \A i \in 1 .. n : z[i] \in S
  OBVIOUS
<1>2. CASE \E i \in 1 .. n : z[i].name = e.name
  <2> DEFINE y == [i \in 1 .. n |-> IF z[i].name = e.name THEN e ELSE z[i]]
  <2>1. Put(z, e) = y
    BY <1>1, <1>2 DEF Put
  <2>2. y \in Seq(S) /\ Len(y) = n
    BY <1>1
  <2>3. \A i \in 1 .. n : y[i] = IF z[i].name = e.name THEN e ELSE z[i]
    OBVIOUS
  <2> HIDE DEF y
  <2>4. \A i \in 1 .. n : y[i].name = z[i].name
    BY <2>3
  <2>5. Apart(y)
    BY <1>1, <2>2, <2>4 DEF Apart
  <2>6. ASSUME NEW a PROVE a \in ToSet(y) <=> a = e \/ (a \in ToSet(z) /\ a.name # e.name)
    <3>1. a \in ToSet(y) <=> \E i \in 1 .. n : y[i] = a
      BY <2>2, ToSetIn
    <3>2. a \in ToSet(z) <=> \E i \in 1 .. n : z[i] = a
      BY ToSetIn
    <3>3. PICK k \in 1 .. n : z[k].name = e.name
      BY <1>2
    <3>4. y[k] = e
      BY <2>3, <3>3
    <3>5. ASSUME NEW i \in 1 .. n, y[i] = a PROVE a = e \/ (a \in ToSet(z) /\ a.name # e.name)
      BY <2>3, <3>2, <3>5
    <3>6. ASSUME a \in ToSet(z), a.name # e.name PROVE a \in ToSet(y)
      BY <2>3, <3>1, <3>2, <3>6
    <3> QED BY <3>1, <3>4, <3>5, <3>6
  <2> QED BY <2>1, <2>2, <2>5, <2>6
<1>3. CASE ~ \E i \in 1 .. n : z[i].name = e.name
  <2> DEFINE y == Append(z, e)
  <2>1. Put(z, e) = y
    BY <1>1, <1>3 DEF Put
  <2>2. y \in Seq(S) /\ Len(y) = n + 1 /\ y[n + 1] = e /\ (\A i \in 1 .. n : y[i] = z[i]) /\ ToSet(y) = ToSet(z) \union {e}
    BY AppendFacts
  <2> HIDE DEF y
  <2>3. \A i \in 1 .. n + 1 : i = n + 1 \/ i \in 1 .. n
    BY <1>1
  <2>4. Apart(y)
    <3> SUFFICES ASSUME NEW i \in 1 .. n + 1, NEW j \in 1 .. n + 1, y[i].name = y[j].name PROVE i = j
      BY <2>2 DEF Apart
    <3>1. CASE i \in 1 .. n /\ j \in 1 .. n
      BY <2>2, <3>1 DEF Apart
    <3>2. CASE i = n + 1 /\ j \in 1 .. n
      BY <1>3, <2>2, <3>2
    <3>3. CASE i \in 1 .. n /\ j = n + 1
      BY <1>3, <2>2, <3>3
    <3> QED BY <2>3, <3>1, <3>2, <3>3
  <2>5. \A a \in ToSet(z) : a.name # e.name
    BY <1>3, ToSetIn
  <2> QED BY <2>1, <2>2, <2>4, <2>5
<1> QED BY <1>2, <1>3

(* z is what putting m of the definitions into x gives.                    *)
PutTo(x, more, m, z) ==
  /\ Apart(z)
  /\ \A a : a \in ToSet(z) <=>
       \/ DefinesTo(more, m, a.name, a)
       \/ a \in ToSet(x) /\ \A k \in 1 .. m : more[k].name # a.name

LEMMA PutNext ==
    ASSUME NEW S, NEW x, NEW more \in Seq(S), NEW m \in 1 .. Len(more), NEW z \in Seq(S), PutTo(x, more, m - 1, z)
    PROVE  Put(z, more[m]) \in Seq(S) /\ PutTo(x, more, m, Put(z, more[m]))
<1> DEFINE e == more[m]
           y == Put(z, e)
<1>1. m \in Nat \ {0} /\ e \in S
  OBVIOUS
<1>2. /\ y \in Seq(S) /\ Apart(y)
      /\ \A a : a \in ToSet(y) <=> a = e \/ (a \in ToSet(z) /\ a.name # e.name)
  BY <1>1, PutIs DEF PutTo
<1>3. m \in 1 .. m /\ (\A k \in 1 .. m : k = m \/ k \in 1 .. m - 1) /\ \A k \in 1 .. m - 1 : k \in 1 .. m
  BY <1>1
<1> HIDE DEF y
<1>4. ASSUME NEW a
      PROVE  a \in ToSet(y) <=>
               \/ DefinesTo(more, m, a.name, a)
               \/ a \in ToSet(x) /\ \A k \in 1 .. m : more[k].name # a.name
  <2>1. DefinesTo(more, m, a.name, a) <=> a = e \/ (e.name # a.name /\ DefinesTo(more, m - 1, a.name, a))
    BY <1>1, DefinesNext
  <2>2. a \in ToSet(z) <=>
          \/ DefinesTo(more, m - 1, a.name, a)
          \/ a \in ToSet(x) /\ \A k \in 1 .. m - 1 : more[k].name # a.name
    BY DEF PutTo
  <2>3. (\A k \in 1 .. m : more[k].name # a.name) <=> e.name # a.name /\ \A k \in 1 .. m - 1 : more[k].name # a.name
    BY <1>3
  <2> QED BY <1>2, <2>1, <2>2, <2>3
<1>5. PutTo(x, more, m, y)
  BY <1>2, <1>4 DEF PutTo
<1> QED BY <1>2, <1>5 DEF y

LEMMA PutAllIs ==
    ASSUME NEW S, NEW x \in Seq(S), Apart(x), NEW more \in Seq(S)
    PROVE  LET z == PutAll(x, more)
           IN /\ z \in Seq(S) /\ Apart(z) /\ Names(z) = Names(x) \union Names(more)
              /\ \A a : a \in ToSet(z) <=> Defines(more, a.name, a) \/ (a \in ToSet(x) /\ a.name \notin Names(more))
<1> DEFINE n == Len(more)
           I == [m \in 0 .. n |-> {z \in Seq(S) : PutTo(x, more, m, z)}]
           g == [m \in 1 .. n |-> [z \in Seq(S) |-> Put(z, more[m])]]
           Is(f) == f = [m \in 0 .. Len(more) |-> IF m = 0 THEN x ELSE Put(f[m - 1], more[m])]
           after == CHOOSE f : Is(f)
<1>1. n \in Nat /\ 0 \in 0 .. n /\ n \in 0 .. n /\ \A m \in 1 .. n : m # 0 /\ m \in 0 .. n /\ m - 1 \in 0 .. n
  OBVIOUS
<1>2. x \in I[0]
  <2>1. \A a : ~DefinesTo(more, 0, a.name, a) /\ \A k \in 1 .. 0 : more[k].name # a.name
    BY DEF DefinesTo
  <2>2. PutTo(x, more, 0, x)
    BY <2>1 DEF PutTo
  <2> QED BY <1>1, <2>2
<1>3. \A m \in 1 .. n : \A z \in I[m - 1] : z \in Seq(S) /\ g[m][z] \in I[m] /\ g[m][z] = Put(z, more[m])
  <2> SUFFICES ASSUME NEW m \in 1 .. n, NEW z \in I[m - 1]
               PROVE  z \in Seq(S) /\ g[m][z] \in I[m] /\ g[m][z] = Put(z, more[m])
    OBVIOUS
  <2>1. z \in Seq(S) /\ PutTo(x, more, m - 1, z)
    BY <1>1
  <2>2. g[m][z] = Put(z, more[m])
    BY <2>1
  <2>3. Put(z, more[m]) \in Seq(S) /\ PutTo(x, more, m, Put(z, more[m]))
    BY <2>1, PutNext
  <2> HIDE DEF g
  <2> QED BY <1>1, <2>1, <2>2, <2>3
<1>4. \E f : Loop(f, n, x, g) /\ \A m \in 0 .. n : f[m] \in I[m]
  <2> HIDE DEF n, I, g
  <2> QED BY <1>1, <1>2, <1>3, LoopEnds
<1>5. PICK f : Loop(f, n, x, g) /\ \A m \in 0 .. n : f[m] \in I[m]
  BY <1>4
<1>6. Is(f)
  <2>1. \A m \in 1 .. n : g[m][f[m - 1]] = Put(f[m - 1], more[m])
    <3> HIDE DEF g, I, n
    <3> QED BY <1>1, <1>3, <1>5
  <2>2. f = [m \in 0 .. n |-> IF m = 0 THEN x ELSE g[m][f[m - 1]]]
    BY <1>5 DEF Loop
  <2>3. \A m \in 0 .. n : m # 0 => m \in 1 .. n
    BY <1>1
  <2> HIDE DEF g
  <2>4. \A m \in 0 .. n : (IF m = 0 THEN x ELSE g[m][f[m - 1]]) = IF m = 0 THEN x ELSE Put(f[m - 1], more[m])
    BY <2>1, <2>3
  <2> QED BY <2>2, <2>4
<1>7. Is(after)
  BY <1>6, Zenon
<1>8. PutAll(x, more) = after[n]
  BY DEF PutAll
<1> HIDE DEF after
<1>9. \A m \in 0 .. n : after[m] = IF m = 0 THEN x ELSE Put(after[m - 1], more[m])
  BY <1>7
<1> HIDE DEF Is
<1>10. \A m \in 0 .. n : after[m] \in I[m]
  <2>1. after[0] \in I[0]
    BY <1>1, <1>2, <1>9
  <2>2. ASSUME NEW m \in 1 .. n, after[m - 1] \in I[m - 1] PROVE after[m] \in I[m]
    <3>1. after[m] = Put(after[m - 1], more[m])
      BY <1>1, <1>9
    <3> HIDE DEF g, I, n
    <3> QED BY <1>3, <2>2, <3>1
  <2> HIDE DEF I, n
  <2> QED BY <1>1, <2>1, <2>2, LoopKeeps
<1> DEFINE z == PutAll(x, more)
<1>11. z \in Seq(S) /\ PutTo(x, more, n, z)
  BY <1>1, <1>8, <1>10
<1> HIDE DEF z, I, g
<1>12. \A m : m \in Names(more) <=> \E k \in 1 .. n : more[k].name = m
  BY NameOf
<1>13. ASSUME NEW a
       PROVE  a \in ToSet(z) <=> Defines(more, a.name, a) \/ (a \in ToSet(x) /\ a.name \notin Names(more))
  BY <1>11, <1>12 DEF PutTo, Defines
<1>14. Names(z) = Names(x) \union Names(more)
  <2>1. \A a : Defines(more, a.name, a) => a.name \in Names(more)
    BY DefinesIs
  <2>2. ASSUME NEW m \in Names(more) PROVE m \in Names(z)
    <3>1. PICK a \in S : Defines(more, m, a)
      BY DefinesIs
    <3>2. a.name = m
      BY <3>1, DefinesIs
    <3> QED BY <1>13, <3>1, <3>2 DEF Names
  <2>3. ASSUME NEW m \in Names(x), m \notin Names(more) PROVE m \in Names(z)
    <3>1. PICK a \in ToSet(x) : a.name = m
      BY DEF Names
    <3> QED BY <1>13, <2>3, <3>1 DEF Names
  <2>4. ASSUME NEW m \in Names(z) PROVE m \in Names(x) \union Names(more)
    <3>1. PICK a \in ToSet(z) : a.name = m
      BY DEF Names
    <3> QED BY <1>13, <2>1, <3>1 DEF Names
  <2> QED BY <2>2, <2>3, <2>4
<1> QED BY <1>11, <1>13, <1>14 DEF PutTo, z

-----------------------------------------------------------------------------
(* Templates.  What is below a stack is so many templates away at most.    *)

Size(stack) == Cardinality(Template \ stack)

LEMMA SizeIs ==
    /\ Cardinality(Template) \in Nat
    /\ \A stack \in SUBSET Template :
         /\ Size(stack) \in 0 .. Cardinality(Template)
         /\ \A t \in Template \ stack : stack \union {t} \in SUBSET Template /\ Size(stack \union {t}) = Size(stack) - 1
<1>1. IsFiniteSet(Template)
  BY CommandAssumption
<1>2. Cardinality(Template) \in Nat
  BY <1>1, FS_CardinalityType
<1>3. ASSUME NEW stack \in SUBSET Template
      PROVE  /\ Size(stack) \in 0 .. Cardinality(Template)
             /\ \A t \in Template \ stack :
                  stack \union {t} \in SUBSET Template /\ Size(stack \union {t}) = Size(stack) - 1
  <2> DEFINE rest == Template \ stack
  <2>1. rest \subseteq Template
    OBVIOUS
  <2>2. IsFiniteSet(rest) /\ Cardinality(rest) <= Cardinality(Template)
    <3> HIDE DEF rest
    <3> QED BY <1>1, <2>1, FS_Subset
  <2>3. Cardinality(rest) \in Nat
    BY <2>2, FS_CardinalityType
  <2>4. Size(stack) \in 0 .. Cardinality(Template)
    BY <1>2, <2>2, <2>3 DEF Size
  <2>5. ASSUME NEW t \in rest PROVE stack \union {t} \in SUBSET Template /\ Size(stack \union {t}) = Size(stack) - 1
    <3>1. Template \ (stack \union {t}) = rest \ {t}
      OBVIOUS
    <3>2. Cardinality(rest \ {t}) = Cardinality(rest) - 1
      <4> HIDE DEF rest
      <4> QED BY <2>2, <2>5, FS_RemoveElement
    <3> QED BY <3>1, <3>2 DEF Size
  <2> QED BY <2>4, <2>5
<1> QED BY <1>2, <1>3

(* What holds for a stack once it does for all that are one higher.        *)
LEMMA StackInduct ==
    ASSUME NEW P, \A stack \in SUBSET Template : (\A t \in Template \ stack : stack \union {t} \in P) => stack \in P
    PROVE  SUBSET Template \subseteq P
<1> DEFINE n == Cardinality(Template)
           T == {k \in 0 .. n : \A stack \in SUBSET Template : Size(stack) <= k => stack \in P}
<1>1. n \in Nat
  BY SizeIs
<1>2. 0 \in T
  <2> SUFFICES ASSUME NEW stack \in SUBSET Template, Size(stack) <= 0 PROVE stack \in P
    BY <1>1
  <2>1. ASSUME NEW t \in Template \ stack PROVE FALSE
    <3>1. stack \union {t} \in SUBSET Template /\ Size(stack \union {t}) = Size(stack) - 1
      BY SizeIs
    <3>2. Size(stack) \in 0 .. n /\ Size(stack \union {t}) \in 0 .. n
      BY <3>1, SizeIs
    <3> HIDE DEF n
    <3> QED BY <1>1, <3>1, <3>2
  <2> QED BY <2>1
<1>3. ASSUME NEW k \in 0 .. n - 1, k \in T PROVE k + 1 \in T
  <2>1. k + 1 \in 0 .. n
    BY <1>1
  <2> SUFFICES ASSUME NEW stack \in SUBSET Template, Size(stack) <= k + 1 PROVE stack \in P
    BY <2>1
  <2>2. ASSUME NEW t \in Template \ stack PROVE stack \union {t} \in P
    <3>1. stack \union {t} \in SUBSET Template /\ Size(stack \union {t}) = Size(stack) - 1
      BY SizeIs
    <3>2. Size(stack) \in 0 .. n
      BY SizeIs
    <3>3. Size(stack \union {t}) <= k
      <4> HIDE DEF n
      <4> QED BY <1>1, <3>1, <3>2
    <3> QED BY <1>3, <3>1, <3>3
  <2> QED BY <2>2
<1>4. 0 .. n \subseteq T
  <2> HIDE DEF T, n
  <2> QED BY <1>1, <1>2, <1>3, Induct
<1>5. n \in T
  BY <1>1, <1>4
<1>6. ASSUME NEW stack \in SUBSET Template PROVE stack \in P
  <2>1. Size(stack) <= n
    <3>1. Size(stack) \in 0 .. n
      BY SizeIs
    <3> HIDE DEF n
    <3> QED BY <1>1, <3>1
  <2> QED BY <1>5, <2>1
<1> QED BY <1>6

(* The expansion of one template, by those of the templates it includes.   *)
Expansion(registry, f, stack, t) ==
  IF t \in stack \/ t \notin DOMAIN registry THEN Stuck
  ELSE InTurn([i \in DOMAIN registry[t].includes |-> f[stack \union {t}][registry[t].includes[i]]], registry[t].own)

LEMMA SameExpansion ==
    ASSUME NEW registry, NEW f, NEW h, NEW stack \in SUBSET Template, NEW t \in Template,
           t \notin stack => f[stack \union {t}] = h[stack \union {t}]
    PROVE  Expansion(registry, f, stack, t) = Expansion(registry, h, stack, t)
<1>1. CASE t \in stack
  BY <1>1, Zenon DEF Expansion
<1>2. CASE t \notin stack
  BY <1>2, Zenon DEF Expansion
<1> QED BY <1>1, <1>2

LEMMA ExpandIs ==
    ASSUME NEW registry
    PROVE  \A stack \in SUBSET Template, t \in Template :
             Expand(registry)[stack][t] = Expansion(registry, Expand(registry), stack, t)
<1> DEFINE n == Cardinality(Template)
           Body(f, stack) == [t \in Template |-> Expansion(registry, f, stack, t)]
           Is(f) == f = [stack \in SUBSET Template |-> Body(f, stack)]
           expand == CHOOSE f : Is(f)
           Solves(f, k) == /\ f = [stack \in SUBSET Template |-> f[stack]]
                           /\ \A stack \in SUBSET Template : Size(stack) < k => f[stack] = Body(f, stack)
           T == {k \in 0 .. n + 1 : \E f : Solves(f, k)}
<1>1. n \in Nat
  BY SizeIs
<1>2. ASSUME NEW f, NEW h, NEW stack \in SUBSET Template,
             \A t \in Template \ stack : f[stack \union {t}] = h[stack \union {t}]
      PROVE  Body(f, stack) = Body(h, stack)
  <2>1. ASSUME NEW t \in Template PROVE Expansion(registry, f, stack, t) = Expansion(registry, h, stack, t)
    <3>1. t \notin stack => f[stack \union {t}] = h[stack \union {t}]
      BY <1>2
    <3> QED BY <3>1, SameExpansion
  <2> QED BY <2>1
<1> HIDE DEF Body
<1>3. 0 \in T
  <2> DEFINE f == [stack \in SUBSET Template |-> stack]
  <2>1. f = [stack \in SUBSET Template |-> f[stack]]
    OBVIOUS
  <2>2. \A stack \in SUBSET Template : ~(Size(stack) < 0)
    <3> SUFFICES ASSUME NEW stack \in SUBSET Template PROVE ~(Size(stack) < 0)
      OBVIOUS
    <3>1. Size(stack) \in 0 .. n
      BY SizeIs
    <3> HIDE DEF n
    <3> QED BY <1>1, <3>1
  <2>3. Solves(f, 0)
    BY <2>1, <2>2
  <2> HIDE DEF Solves, f
  <2> QED BY <1>1, <2>3
<1>4. ASSUME NEW k \in 0 .. (n + 1) - 1, k \in T PROVE k + 1 \in T
  <2>1. k \in Nat /\ k + 1 \in 0 .. n + 1
    BY <1>1
  <2>2. PICK f : Solves(f, k)
    BY <1>4
  <2> DEFINE h == [stack \in SUBSET Template |-> IF Size(stack) < k THEN f[stack] ELSE Body(f, stack)]
  <2>3. h = [stack \in SUBSET Template |-> h[stack]]
    OBVIOUS
  <2>4. \A stack \in SUBSET Template : h[stack] = Body(f, stack)
    BY <2>2
  <2>5. \A stack \in SUBSET Template : Size(stack) < k => h[stack] = f[stack]
    OBVIOUS
  <2> HIDE DEF h
  <2>6. ASSUME NEW stack \in SUBSET Template, Size(stack) < k + 1 PROVE h[stack] = Body(h, stack)
    <3>1. ASSUME NEW t \in Template \ stack PROVE f[stack \union {t}] = h[stack \union {t}]
      <4>1. stack \union {t} \in SUBSET Template /\ Size(stack \union {t}) = Size(stack) - 1 /\ Size(stack) \in 0 .. n
        BY SizeIs
      <4>2. Size(stack \union {t}) < k
        <5> HIDE DEF n
        <5> QED BY <1>1, <2>1, <2>6, <4>1
      <4> QED BY <2>5, <4>1, <4>2
    <3>2. Body(f, stack) = Body(h, stack)
      BY <1>2, <3>1
    <3> QED BY <2>4, <3>2
  <2>7. Solves(h, k + 1)
    BY <2>3, <2>6
  <2> HIDE DEF Solves
  <2> QED BY <2>1, <2>7
<1>5. 0 .. n + 1 \subseteq T
  <2>1. n + 1 \in Nat
    BY <1>1
  <2> DEFINE m == n + 1
  <2> HIDE DEF T, m
  <2> QED BY <1>3, <1>4, <2>1, Induct DEF m
<1>6. \E f : Is(f)
  <2>1. n + 1 \in T
    <3>1. n + 1 \in 0 .. n + 1
      BY <1>1
    <3> HIDE DEF T, n
    <3> QED BY <1>5, <3>1
  <2>2. PICK f : Solves(f, n + 1)
    BY <2>1
  <2>3. \A stack \in SUBSET Template : f[stack] = Body(f, stack)
    <3> SUFFICES ASSUME NEW stack \in SUBSET Template PROVE f[stack] = Body(f, stack)
      OBVIOUS
    <3>1. Size(stack) \in 0 .. n
      BY SizeIs
    <3>2. Size(stack) < n + 1
      <4> HIDE DEF n, Solves
      <4> QED BY <1>1, <3>1
    <3> QED BY <2>2, <3>2
  <2>4. Is(f)
    BY <2>2, <2>3
  <2> HIDE DEF Is
  <2> QED BY <2>4
<1>7. Is(expand)
  <2> HIDE DEF Is
  <2> QED BY <1>6, Zenon
<1>8. Expand(registry) = expand
  BY DEF Expand, Expansion, Body
<1> HIDE DEF expand
<1>9. \A stack \in SUBSET Template : expand[stack] = Body(expand, stack)
  BY <1>7
<1>10. \A stack \in SUBSET Template, t \in Template : expand[stack][t] = Expansion(registry, expand, stack, t)
  BY <1>9 DEF Body
<1> QED BY <1>8, <1>10

(* What some templates reach.                                              *)
LEMMA BelowIs ==
    ASSUME NEW registry, IsRegistry(registry)
    PROVE  /\ \A ts : Below(registry, ts) \subseteq Template
           /\ \A ts, us : ts \subseteq us => Below(registry, ts) \subseteq Below(registry, us)
           /\ \A t \in DOMAIN registry : Below(registry, {t}) = ToSet(registry[t].includes)
           /\ \A t : t \notin DOMAIN registry => Below(registry, {t}) = {}
<1>1. \A t \in DOMAIN registry : registry[t].includes \in Seq(Template)
  BY DEF IsRegistry
<1>2. \A t \in DOMAIN registry : ToSet(registry[t].includes) \subseteq Template
  BY <1>1, ToSetIn
<1> QED BY <1>2 DEF Below

LEMMA BelowOne ==
    ASSUME NEW registry, NEW ts, NEW u \in Below(registry, ts)
    PROVE  \E t \in ts : u \in Below(registry, {t})
BY DEF Below

LEMMA ReachIs ==
    ASSUME NEW registry, IsRegistry(registry), NEW ts \in SUBSET Template
    PROVE  /\ Reach(registry, ts) \in SUBSET Template /\ ts \subseteq Reach(registry, ts)
           /\ Below(registry, Reach(registry, ts)) \subseteq Reach(registry, ts)
           /\ \A some \in SUBSET Template : ts \union Below(registry, some) \subseteq some => Reach(registry, ts) \subseteq some
<1> DEFINE reach == Reach(registry, ts)
           Closed(some) == ts \union Below(registry, some) \subseteq some
<1>1. /\ \A x : x \in reach <=> x \in Template /\ \A some \in SUBSET Template : Closed(some) => x \in some
  BY DEF Reach
<1> HIDE DEF reach
<1>2. Below(registry, reach) \subseteq reach
  <2> SUFFICES ASSUME NEW u \in Below(registry, reach) PROVE u \in reach
    OBVIOUS
  <2>1. u \in Template
    BY BelowIs
  <2>2. ASSUME NEW some \in SUBSET Template, Closed(some) PROVE u \in some
    <3>1. reach \subseteq some
      BY <1>1, <2>2
    <3>2. Below(registry, reach) \subseteq Below(registry, some)
      BY <3>1, BelowIs
    <3> QED BY <2>2, <3>2
  <2> HIDE DEF Closed
  <2> QED BY <1>1, <2>1, <2>2
<1>3. reach \in SUBSET Template /\ ts \subseteq reach
  BY <1>1
<1>4. \A some \in SUBSET Template : Closed(some) => reach \subseteq some
  BY <1>1
<1> QED BY <1>2, <1>3, <1>4 DEF reach

LEMMA ReachEach ==
    ASSUME NEW registry, IsRegistry(registry), NEW ts \in SUBSET Template
    PROVE  \A x : x \in Reach(registry, ts) <=> \E t \in ts : x \in Reach(registry, {t})
<1> DEFINE all == UNION {Reach(registry, {t}) : t \in ts}
<1>1. \A t \in ts : /\ Reach(registry, {t}) \in SUBSET Template /\ t \in Reach(registry, {t})
                    /\ Below(registry, Reach(registry, {t})) \subseteq Reach(registry, {t})
  BY ReachIs
<1>2. all \in SUBSET Template /\ ts \subseteq all
  BY <1>1
<1>3. Below(registry, all) \subseteq all
  <2> SUFFICES ASSUME NEW u \in Below(registry, all) PROVE u \in all
    OBVIOUS
  <2>1. PICK x \in all : u \in Below(registry, {x})
    <3> HIDE DEF all
    <3> QED BY BelowOne
  <2>2. PICK t \in ts : x \in Reach(registry, {t})
    OBVIOUS
  <2>3. {x} \subseteq Reach(registry, {t})
    BY <2>2
  <2>4. Below(registry, {x}) \subseteq Below(registry, Reach(registry, {t}))
    BY <2>3, BelowIs
  <2> QED BY <1>1, <2>1, <2>4
<1>4. Reach(registry, ts) \subseteq all
  <2> HIDE DEF all
  <2> QED BY <1>2, <1>3, ReachIs
<1>5. ASSUME NEW t \in ts PROVE Reach(registry, {t}) \subseteq Reach(registry, ts)
  <2> DEFINE reach == Reach(registry, ts)
  <2>1. reach \in SUBSET Template /\ ts \subseteq reach /\ Below(registry, reach) \subseteq reach
    BY ReachIs
  <2> HIDE DEF reach
  <2>2. {t} \union Below(registry, reach) \subseteq reach /\ {t} \in SUBSET Template
    BY <2>1
  <2>3. Reach(registry, {t}) \subseteq reach
    BY <2>1, <2>2, ReachIs
  <2> QED BY <2>3 DEF reach
<1> QED BY <1>4, <1>5

LEMMA ReachOne ==
    ASSUME NEW registry, IsRegistry(registry), NEW t \in Template
    PROVE  \A x : x \in Reach(registry, {t}) <=> x = t \/ x \in Reach(registry, Below(registry, {t}))
<1> DEFINE below == Below(registry, {t})
           deep == Reach(registry, below)
           reach == Reach(registry, {t})
           all == {t} \union deep
<1>1. below \in SUBSET Template
  BY BelowIs
<1>2. /\ deep \in SUBSET Template /\ below \subseteq deep /\ Below(registry, deep) \subseteq deep
      /\ \A some \in SUBSET Template : below \union Below(registry, some) \subseteq some => deep \subseteq some
  <2> HIDE DEF below
  <2> QED BY <1>1, ReachIs
<1>3. /\ reach \in SUBSET Template /\ t \in reach /\ Below(registry, reach) \subseteq reach
      /\ \A some \in SUBSET Template : {t} \union Below(registry, some) \subseteq some => reach \subseteq some
  BY ReachIs
<1> HIDE DEF deep, reach
<1>4. Below(registry, all) \subseteq all
  <2> SUFFICES ASSUME NEW u \in Below(registry, all) PROVE u \in all
    OBVIOUS
  <2>1. PICK x \in all : u \in Below(registry, {x})
    <3> HIDE DEF all
    <3> QED BY BelowOne
  <2>2. CASE x = t
    BY <1>2, <2>1, <2>2
  <2>3. CASE x \in deep
    <3>1. Below(registry, {x}) \subseteq Below(registry, deep)
      BY <2>3, BelowIs
    <3> QED BY <1>2, <2>1, <3>1
  <2> QED BY <2>1, <2>2, <2>3
<1>5. reach \subseteq all
  BY <1>2, <1>3, <1>4
<1>6. below \subseteq reach
  <2>1. Below(registry, {t}) \subseteq Below(registry, reach)
    <3>1. {t} \subseteq reach
      BY <1>3
    <3> QED BY <3>1, BelowIs
  <2> QED BY <1>3, <2>1
<1>7. deep \subseteq reach
  <2> HIDE DEF below
  <2> QED BY <1>2, <1>3, <1>6
<1> QED BY <1>3, <1>5, <1>7 DEF deep, reach

(* Expansions in turn.                                                     *)
LEMMA InTurnIs ==
    ASSUME NEW S, NEW n \in Nat, NEW parts, DOMAIN parts = 1 .. n,
           \A i \in 1 .. n : parts[i].met \in Seq(S), NEW own \in Seq(S)
    PROVE  LET e == InTurn(parts, own)
           IN /\ e.met \in Seq(S) /\ Names(e.met) = Names(own) \union UNION {Names(parts[i].met) : i \in 1 .. n}
              /\ e.raises <=> \E i \in 1 .. n : parts[i].raises
              /\ \A m, a : Defines(e.met, m, a) <=>
                   \/ Defines(own, m, a)
                   \/ /\ m \notin Names(own)
                      /\ \E i \in 1 .. n : Defines(parts[i].met, m, a) /\ \A j \in i + 1 .. n : m \notin Names(parts[j].met)
<1> DEFINE mets == [i \in 1 .. n |-> parts[i].met]
           flat == FlattenSeq(mets)
           e == InTurn(parts, own)
<1>1. mets \in Seq(Seq(S)) /\ Len(mets) = n /\ \A i \in 1 .. n : mets[i] = parts[i].met
  OBVIOUS
<1>2. e.met = flat \o own
  BY DEF InTurn
<1>3. e.raises <=> \E i \in 1 .. n : parts[i].raises
  <2> DEFINE some == \E i \in DOMAIN parts : parts[i].raises
  <2>1. e = [raises |-> some, met |-> flat \o own]
    BY DEF InTurn
  <2>2. some \in BOOLEAN
    OBVIOUS
  <2> HIDE DEF some, e, flat
  <2>3. e.raises = some
    BY <2>1
  <2>4. e.raises <=> some
    BY <2>3, Zenon
  <2> QED BY <2>4 DEF some
<1> HIDE DEF mets
<1>4. flat \in Seq(S) /\ FlatTo(mets, n, flat)
  BY <1>1, FlatIs
<1> HIDE DEF flat, e
<1>5. /\ e.met \in Seq(S) /\ Names(e.met) = Names(flat) \union Names(own)
      /\ \A m, a : Defines(e.met, m, a) <=> Defines(own, m, a) \/ (m \notin Names(own) /\ Defines(flat, m, a))
  BY <1>2, <1>4, ThenDefines
<1>6. Names(flat) = UNION {Names(parts[i].met) : i \in 1 .. n}
  <2>1. Names(flat) = UNION {Names(mets[i]) : i \in 1 .. n}
    BY <1>4 DEF FlatTo
  <2> QED BY <1>1, <2>1
<1>7. ASSUME NEW m, NEW a
      PROVE  Defines(flat, m, a) <=>
               \E i \in 1 .. n : Defines(parts[i].met, m, a) /\ \A j \in i + 1 .. n : m \notin Names(parts[j].met)
  <2>1. Defines(flat, m, a) <=>
          \E i \in 1 .. n : Defines(mets[i], m, a) /\ \A j \in i + 1 .. n : m \notin Names(mets[j])
    BY <1>4 DEF FlatTo
  <2>2. \A i \in 1 .. n : \A j \in i + 1 .. n : j \in 1 .. n
    OBVIOUS
  <2> QED BY <1>1, <2>1, <2>2
<1>8. e.met \in Seq(S) /\ Names(e.met) = Names(own) \union UNION {Names(parts[i].met) : i \in 1 .. n}
  BY <1>5, <1>6
<1>9. ASSUME NEW m, NEW a
      PROVE  Defines(e.met, m, a) <=>
               \/ Defines(own, m, a)
               \/ /\ m \notin Names(own)
                  /\ \E i \in 1 .. n : Defines(parts[i].met, m, a) /\ \A j \in i + 1 .. n : m \notin Names(parts[j].met)
  <2> DEFINE InLast == \E i \in 1 .. n :
                       Defines(parts[i].met, m, a) /\ \A j \in i + 1 .. n : m \notin Names(parts[j].met)
  <2>1. Defines(flat, m, a) <=> InLast
    BY <1>7
  <2>2. Defines(e.met, m, a) <=> Defines(own, m, a) \/ (m \notin Names(own) /\ Defines(flat, m, a))
    BY <1>5
  <2> HIDE DEF InLast
  <2>3. Defines(e.met, m, a) <=> Defines(own, m, a) \/ (m \notin Names(own) /\ InLast)
    BY <2>1, <2>2
  <2> QED BY <2>3 DEF InLast
<1> QED BY <1>3, <1>8, <1>9, Zenon DEF e

(* The expansions below a stack of the templates some template includes.   *)
Parts(registry, stack, includes) == [i \in DOMAIN includes |-> Expand(registry)[stack][includes[i]]]

LEMMA ExpandCases ==
    ASSUME NEW registry, IsRegistry(registry), NEW stack \in SUBSET Template, NEW t \in Template
    PROVE  /\ t \in stack \/ t \notin DOMAIN registry => Expand(registry)[stack][t] = Stuck
           /\ t \notin stack /\ t \in DOMAIN registry =>
                /\ Expand(registry)[stack][t] =
                     InTurn(Parts(registry, stack \union {t}, registry[t].includes), registry[t].own)
                /\ stack \union {t} \in SUBSET Template
                /\ registry[t].includes \in Seq(Template) /\ registry[t].own \in Seq(ArgumentDecl)
<1>1. Expand(registry)[stack][t] = Expansion(registry, Expand(registry), stack, t)
  BY ExpandIs
<1>2. CASE t \in stack \/ t \notin DOMAIN registry
  BY <1>1, <1>2, Zenon DEF Expansion
<1>3. CASE t \notin stack /\ t \in DOMAIN registry
  <2>1. Expand(registry)[stack][t] =
          InTurn(Parts(registry, stack \union {t}, registry[t].includes), registry[t].own)
    BY <1>1, <1>3, Zenon DEF Expansion, Parts
  <2>2. registry[t].includes \in Seq(Template) /\ registry[t].own \in Seq(ArgumentDecl)
    BY <1>3 DEF IsRegistry
  <2>3. stack \union {t} \in SUBSET Template
    OBVIOUS
  <2> QED BY <1>3, <2>1, <2>2, <2>3, Zenon
<1> QED BY <1>2, <1>3, Zenon

LEMMA PartsFacts ==
    ASSUME NEW registry, NEW stack, NEW includes \in Seq(Template)
    PROVE  /\ Len(includes) \in Nat /\ DOMAIN Parts(registry, stack, includes) = 1 .. Len(includes)
           /\ \A i \in 1 .. Len(includes) :
                includes[i] \in Template /\ Parts(registry, stack, includes)[i] = Expand(registry)[stack][includes[i]]
BY DEF Parts

LEMMA ExpandTyped ==
    ASSUME NEW registry, IsRegistry(registry)
    PROVE  \A stack \in SUBSET Template, t \in Template : Expand(registry)[stack][t].met \in Seq(ArgumentDecl)
<1> DEFINE P == {stack \in SUBSET Template : \A t \in Template : Expand(registry)[stack][t].met \in Seq(ArgumentDecl)}
<1>1. ASSUME NEW stack \in SUBSET Template, \A t \in Template \ stack : stack \union {t} \in P
      PROVE  stack \in P
  <2> SUFFICES ASSUME NEW t \in Template PROVE Expand(registry)[stack][t].met \in Seq(ArgumentDecl)
    OBVIOUS
  <2>1. CASE t \in stack \/ t \notin DOMAIN registry
    <3>1. Expand(registry)[stack][t] = Stuck
      BY <2>1, ExpandCases
    <3>2. Stuck.met \in Seq(ArgumentDecl)
      BY DEF Stuck
    <3> QED BY <3>1, <3>2
  <2>2. CASE t \notin stack /\ t \in DOMAIN registry
    <3> DEFINE includes == registry[t].includes
               own == registry[t].own
               higher == stack \union {t}
               parts == Parts(registry, higher, includes)
               n == Len(includes)
    <3>1. /\ Expand(registry)[stack][t] = InTurn(parts, own)
          /\ higher \in SUBSET Template /\ includes \in Seq(Template) /\ own \in Seq(ArgumentDecl)
      BY <2>2, ExpandCases
    <3>2. higher \in P
      BY <1>1, <2>2
    <3>3. \A u \in Template : Expand(registry)[higher][u].met \in Seq(ArgumentDecl)
      BY <3>2
    <3> HIDE DEF includes, own, higher, P
    <3>4. n \in Nat /\ DOMAIN parts = 1 .. n /\ \A i \in 1 .. n : parts[i].met \in Seq(ArgumentDecl)
      BY <3>1, <3>3, PartsFacts
    <3> HIDE DEF parts, n
    <3>5. InTurn(parts, own).met \in Seq(ArgumentDecl)
      BY <3>1, <3>4, InTurnIs
    <3> QED BY <3>1, <3>5
  <2> QED BY <2>1, <2>2
<1>2. SUBSET Template \subseteq P
  <2> HIDE DEF P
  <2> QED BY <1>1, StackInduct
<1> QED BY <1>2

(* The expansions of some templates below a stack, and own arguments.      *)
LEMMA PartsInTurn ==
    ASSUME NEW registry, IsRegistry(registry), NEW stack \in SUBSET Template,
           NEW includes \in Seq(Template), NEW own \in Seq(ArgumentDecl)
    PROVE  LET e == InTurn(Parts(registry, stack, includes), own)
               X(i) == Expand(registry)[stack][includes[i]]
               n == Len(includes)
           IN /\ e.met \in Seq(ArgumentDecl)
              /\ \A m : m \in Names(e.met) <=> m \in Names(own) \/ \E i \in 1 .. n : m \in Names(X(i).met)
              /\ e.raises <=> \E i \in 1 .. n : X(i).raises
              /\ \A m, a : Defines(e.met, m, a) <=>
                   \/ Defines(own, m, a)
                   \/ /\ m \notin Names(own)
                      /\ \E i \in 1 .. n : Defines(X(i).met, m, a) /\ \A j \in i + 1 .. n : m \notin Names(X(j).met)
<1> DEFINE parts == Parts(registry, stack, includes)
           n == Len(includes)
           X(i) == Expand(registry)[stack][includes[i]]
           e == InTurn(parts, own)
<1>1. /\ n \in Nat /\ DOMAIN parts = 1 .. n
      /\ \A i \in 1 .. n : includes[i] \in Template /\ parts[i] = X(i)
  BY PartsFacts
<1>2. \A i \in 1 .. n : parts[i].met \in Seq(ArgumentDecl)
  BY <1>1, ExpandTyped
<1> HIDE DEF parts, n
<1>3. /\ e.met \in Seq(ArgumentDecl) /\ Names(e.met) = Names(own) \union UNION {Names(parts[i].met) : i \in 1 .. n}
      /\ e.raises <=> \E i \in 1 .. n : parts[i].raises
      /\ \A m, a : Defines(e.met, m, a) <=>
           \/ Defines(own, m, a)
           \/ /\ m \notin Names(own)
              /\ \E i \in 1 .. n : Defines(parts[i].met, m, a) /\ \A j \in i + 1 .. n : m \notin Names(parts[j].met)
  <2> HIDE DEF e, X
  <2> QED BY <1>1, <1>2, InTurnIs, Zenon DEF e
<1> HIDE DEF e, X
<1>4. \A m : m \in Names(e.met) <=> m \in Names(own) \/ \E i \in 1 .. n : m \in Names(X(i).met)
  BY <1>1, <1>3
<1>5. e.raises <=> \E i \in 1 .. n : X(i).raises
  BY <1>1, <1>3
<1>6. ASSUME NEW m, NEW a
      PROVE  Defines(e.met, m, a) <=>
               \/ Defines(own, m, a)
               \/ /\ m \notin Names(own)
                  /\ \E i \in 1 .. n : Defines(X(i).met, m, a) /\ \A j \in i + 1 .. n : m \notin Names(X(j).met)
  <2>1. (\E i \in 1 .. n : Defines(parts[i].met, m, a) /\ \A j \in i + 1 .. n : m \notin Names(parts[j].met))
        <=> \E i \in 1 .. n : Defines(X(i).met, m, a) /\ \A j \in i + 1 .. n : m \notin Names(X(j).met)
    <3>1. \A i \in 1 .. n : \A j \in i + 1 .. n : j \in 1 .. n
      BY <1>1
    <3> QED BY <1>1, <3>1
  <2> QED BY <1>3, <2>1, Zenon
<1> QED BY <1>3, <1>4, <1>5, <1>6, Zenon DEF e, X, n, parts

(* What makes an expansion raise: a template that is missing, or included  *)
(* by itself, or on the stack.                                             *)
Bad(registry, stack, u) == u \notin DOMAIN registry \/ u \in stack \/ u \in Reach(registry, Below(registry, {u}))

LEMMA BelowReach ==
    ASSUME NEW registry, IsRegistry(registry), NEW t \in DOMAIN registry
    PROVE  /\ registry[t].includes \in Seq(Template) /\ t \in Template
           /\ \A i \in 1 .. Len(registry[t].includes) : \A x \in Reach(registry, {registry[t].includes[i]}) :
                x \in Reach(registry, Below(registry, {t})) /\ x \in Reach(registry, {t})
           /\ \A x \in Reach(registry, Below(registry, {t})) :
                \E i \in 1 .. Len(registry[t].includes) : x \in Reach(registry, {registry[t].includes[i]})
<1> DEFINE includes == registry[t].includes
           below == Below(registry, {t})
           n == Len(includes)
<1>1. includes \in Seq(Template) /\ t \in Template
  BY DEF IsRegistry
<1>2. below = ToSet(includes) /\ below \in SUBSET Template
  BY BelowIs
<1>3. \A u : u \in below <=> \E i \in 1 .. n : includes[i] = u
  <2> HIDE DEF includes, below
  <2> QED BY <1>1, <1>2, ToSetIn
<1>4. \A x : x \in Reach(registry, below) <=> \E u \in below : x \in Reach(registry, {u})
  <2> HIDE DEF below
  <2> QED BY <1>2, ReachEach
<1>5. \A x \in Reach(registry, below) : x \in Reach(registry, {t})
  BY <1>1, ReachOne
<1> HIDE DEF includes, below, n
<1>6. \A i \in 1 .. n : \A x \in Reach(registry, {includes[i]}) : x \in Reach(registry, below) /\ x \in Reach(registry, {t})
  BY <1>3, <1>4, <1>5
<1>7. \A x \in Reach(registry, below) : \E i \in 1 .. n : x \in Reach(registry, {includes[i]})
  BY <1>3, <1>4
<1> QED BY <1>1, <1>6, <1>7 DEF includes, below, n

LEMMA RaisesWhere ==
    ASSUME NEW registry, IsRegistry(registry)
    PROVE  \A stack \in SUBSET Template, t \in Template :
             Expand(registry)[stack][t].raises <=> \E u \in Reach(registry, {t}) : Bad(registry, stack, u)
<1> DEFINE X(stack, t) == Expand(registry)[stack][t].raises
           Goal(stack, t) == X(stack, t) <=> \E u \in Reach(registry, {t}) : Bad(registry, stack, u)
           P == {stack \in SUBSET Template : \A t \in Template : Goal(stack, t)}
<1>1. ASSUME NEW stack \in SUBSET Template, \A t \in Template \ stack : stack \union {t} \in P
      PROVE  stack \in P
  <2> SUFFICES ASSUME NEW t \in Template PROVE Goal(stack, t)
    OBVIOUS
  <2>1. t \in Reach(registry, {t})
    BY ReachIs
  <2>2. CASE t \in stack \/ t \notin DOMAIN registry
    <3>1. X(stack, t)
      <4>1. Expand(registry)[stack][t] = Stuck
        BY <2>2, ExpandCases
      <4>2. Stuck.raises = TRUE
        BY DEF Stuck
      <4> QED BY <4>1, <4>2, Zenon
    <3>2. Bad(registry, stack, t)
      BY <2>2 DEF Bad
    <3> HIDE DEF X
    <3> QED BY <2>1, <3>1, <3>2
  <2>3. CASE t \notin stack /\ t \in DOMAIN registry
    <3> DEFINE includes == registry[t].includes
               own == registry[t].own
               higher == stack \union {t}
               n == Len(includes)
               below == Below(registry, {t})
    <3>1. /\ Expand(registry)[stack][t] = InTurn(Parts(registry, higher, includes), own)
          /\ higher \in SUBSET Template /\ includes \in Seq(Template) /\ own \in Seq(ArgumentDecl)
      BY <2>3, ExpandCases
    <3>2. higher \in P
      BY <1>1, <2>3
    <3>3. \A u \in Template : Goal(higher, u)
      BY <3>2
    <3>4. /\ \A i \in 1 .. n : \A x \in Reach(registry, {includes[i]}) : x \in Reach(registry, below) /\ x \in Reach(registry, {t})
          /\ \A x \in Reach(registry, below) : \E i \in 1 .. n : x \in Reach(registry, {includes[i]})
      BY <2>3, BelowReach
    <3>5. \A u : Bad(registry, stack, u) => Bad(registry, higher, u)
      BY DEF Bad
    <3>6. \A u : Bad(registry, higher, u) => u = t \/ Bad(registry, stack, u)
      BY DEF Bad
    <3>7. t \in Reach(registry, below) <=> Bad(registry, stack, t)
      BY <2>3 DEF Bad
    <3>8. Bad(registry, higher, t)
      BY DEF Bad
    <3>9. \A u \in Reach(registry, {t}) : u = t \/ u \in Reach(registry, below)
      BY ReachOne
    <3> HIDE DEF P, includes, own, higher, below
    <3>10. X(stack, t) <=> \E i \in 1 .. n : X(higher, includes[i])
      <4> DEFINE e == InTurn(Parts(registry, higher, includes), own)
      <4>1. e.raises <=> \E i \in 1 .. n : Expand(registry)[higher][includes[i]].raises
        BY <3>1, PartsInTurn
      <4>2. Expand(registry)[stack][t] = e
        BY <3>1
      <4> HIDE DEF e, n
      <4> QED BY <4>1, <4>2, Zenon
    <3>11. \A i \in 1 .. n : includes[i] \in Template
      BY <3>1
    <3>12. \A i \in 1 .. n : X(higher, includes[i]) <=> \E u \in Reach(registry, {includes[i]}) : Bad(registry, higher, u)
      BY <3>3, <3>11, Zenon
    <3> HIDE DEF X, n
    <3>13. ASSUME X(stack, t) PROVE \E u \in Reach(registry, {t}) : Bad(registry, stack, u)
      <4>1. PICK i \in 1 .. n : X(higher, includes[i])
        BY <3>10, <3>13
      <4>2. PICK u \in Reach(registry, {includes[i]}) : Bad(registry, higher, u)
        BY <3>12, <4>1
      <4>3. u \in Reach(registry, below) /\ u \in Reach(registry, {t})
        BY <3>4
      <4>4. CASE u = t
        BY <2>1, <3>7, <4>3, <4>4
      <4>5. CASE Bad(registry, stack, u)
        BY <4>3, <4>5
      <4> QED BY <3>6, <4>2, <4>4, <4>5
    <3>14. ASSUME NEW u \in Reach(registry, {t}), Bad(registry, stack, u) PROVE X(stack, t)
      <4>1. u \in Reach(registry, below)
        BY <3>7, <3>9, <3>14
      <4>2. PICK i \in 1 .. n : u \in Reach(registry, {includes[i]})
        BY <3>4, <4>1
      <4>3. X(higher, includes[i])
        BY <3>5, <3>12, <3>14, <4>2
      <4> QED BY <3>10, <4>3
    <3> QED BY <3>13, <3>14
  <2> QED BY <2>2, <2>3
<1>2. SUBSET Template \subseteq P
  <2> HIDE DEF P
  <2> QED BY <1>1, StackInduct
<1>3. \A stack \in SUBSET Template, t \in Template : Goal(stack, t)
  <2> HIDE DEF Goal
  <2> QED BY <1>2
<1> QED BY <1>3

(* What an expansion that does not raise meets.                            *)
LEMMA MetOffers ==
    ASSUME NEW registry, IsRegistry(registry)
    PROVE  \A stack \in SUBSET Template, t \in Template :
             ~Expand(registry)[stack][t].raises => Names(Expand(registry)[stack][t].met) = Offers(registry, t)
<1> DEFINE X(stack, t) == Expand(registry)[stack][t]
           Goal(stack, t) == ~X(stack, t).raises => Names(X(stack, t).met) = Offers(registry, t)
           P == {stack \in SUBSET Template : \A t \in Template : Goal(stack, t)}
<1>1. ASSUME NEW stack \in SUBSET Template, \A t \in Template \ stack : stack \union {t} \in P
      PROVE  stack \in P
  <2> SUFFICES ASSUME NEW t \in Template, ~X(stack, t).raises PROVE Names(X(stack, t).met) = Offers(registry, t)
    OBVIOUS
  <2>1. t \notin stack /\ t \in DOMAIN registry
    <3>1. Stuck.raises = TRUE
      BY DEF Stuck
    <3>2. CASE t \in stack \/ t \notin DOMAIN registry
      <4>1. X(stack, t) = Stuck
        BY <3>2, ExpandCases
      <4> HIDE DEF X
      <4> QED BY <3>1, <4>1, Zenon
    <3> QED BY <3>2
  <2> DEFINE includes == registry[t].includes
             own == registry[t].own
             higher == stack \union {t}
             n == Len(includes)
             below == Below(registry, {t})
  <2>2. /\ X(stack, t) = InTurn(Parts(registry, higher, includes), own)
        /\ higher \in SUBSET Template /\ includes \in Seq(Template) /\ own \in Seq(ArgumentDecl)
    BY <2>1, ExpandCases
  <2>3. \A u \in Template : Goal(higher, u)
    BY <1>1, <2>1
  <2>4. /\ \A i \in 1 .. n : \A x \in Reach(registry, {includes[i]}) : x \in Reach(registry, below) /\ x \in Reach(registry, {t})
        /\ \A x \in Reach(registry, below) : \E i \in 1 .. n : x \in Reach(registry, {includes[i]})
    BY <2>1, BelowReach
  <2>5. t \in Reach(registry, {t}) /\ \A u \in Reach(registry, {t}) : u = t \/ u \in Reach(registry, below)
    BY ReachIs, ReachOne
  <2>6. \A u : \A m : m \in Offers(registry, u) <=> \E v \in Reach(registry, {u}) : m \in Names(registry[v].own)
    BY DEF Offers
  <2> HIDE DEF P, includes, higher, below
  <2>7. /\ \A m : m \in Names(X(stack, t).met) <=>
                  m \in Names(own) \/ \E i \in 1 .. n : m \in Names(X(higher, includes[i]).met)
        /\ X(stack, t).raises <=> \E i \in 1 .. n : X(higher, includes[i]).raises
    <3> HIDE DEF own
    <3> DEFINE e == InTurn(Parts(registry, higher, includes), own)
    <3>1. \A m : m \in Names(e.met) <=>
                 m \in Names(own) \/ \E i \in 1 .. n : m \in Names(Expand(registry)[higher][includes[i]].met)
      BY <2>2, PartsInTurn
    <3>2. e.raises <=> \E i \in 1 .. n : Expand(registry)[higher][includes[i]].raises
      BY <2>2, PartsInTurn
    <3>3. X(stack, t) = e
      BY <2>2
    <3> HIDE DEF e, n
    <3> QED BY <3>1, <3>2, <3>3, Zenon
  <2>8. ASSUME NEW i \in 1 .. n PROVE Names(X(higher, includes[i]).met) = Offers(registry, includes[i])
    <3>1. ~X(higher, includes[i]).raises
      BY <2>7, Zenon
    <3>2. includes[i] \in Template
      BY <2>2
    <3> QED BY <2>3, <3>1, <3>2, Zenon
  <2> HIDE DEF X, n
  <2>9. \A m : m \in Names(X(stack, t).met) <=> m \in Names(own) \/ \E i \in 1 .. n : m \in Offers(registry, includes[i])
    BY <2>7, <2>8
  <2>10. ASSUME NEW m \in Names(X(stack, t).met) PROVE m \in Offers(registry, t)
    <3>1. CASE m \in Names(own)
      BY <2>5, <2>6, <3>1 DEF own
    <3>2. CASE m \notin Names(own)
      <4>1. PICK i \in 1 .. n : m \in Offers(registry, includes[i])
        BY <2>9, <2>10, <3>2
      <4> QED BY <2>4, <2>6, <4>1
    <3> QED BY <3>1, <3>2
  <2>11. ASSUME NEW m \in Offers(registry, t) PROVE m \in Names(X(stack, t).met)
    <3>1. PICK u \in Reach(registry, {t}) : m \in Names(registry[u].own)
      BY <2>6
    <3>2. CASE u = t
      BY <2>9, <3>1, <3>2 DEF own
    <3>3. CASE u \in Reach(registry, below)
      <4>1. PICK i \in 1 .. n : u \in Reach(registry, {includes[i]})
        BY <2>4, <3>3
      <4>2. m \in Offers(registry, includes[i])
        BY <2>6, <3>1, <4>1
      <4> QED BY <2>9, <4>2
    <3> QED BY <2>5, <3>2, <3>3
  <2> QED BY <2>10, <2>11
<1>2. SUBSET Template \subseteq P
  <2> HIDE DEF P
  <2> QED BY <1>1, StackInduct
<1>3. \A stack \in SUBSET Template, t \in Template : Goal(stack, t)
  <2> HIDE DEF Goal
  <2> QED BY <1>2
<1> QED BY <1>3

(* An expansion that does not raise is the same below fewer templates.     *)
LEMMA SameBelow ==
    ASSUME NEW registry, IsRegistry(registry)
    PROVE  \A stack \in SUBSET Template : \A lower \in SUBSET stack, t \in Template :
             ~Expand(registry)[stack][t].raises => Expand(registry)[lower][t] = Expand(registry)[stack][t]
<1> DEFINE X(stack, t) == Expand(registry)[stack][t]
           Goal(stack, lower, t) == ~X(stack, t).raises => X(lower, t) = X(stack, t)
           P == {stack \in SUBSET Template : \A lower \in SUBSET stack, t \in Template : Goal(stack, lower, t)}
<1>1. ASSUME NEW stack \in SUBSET Template, \A t \in Template \ stack : stack \union {t} \in P
      PROVE  stack \in P
  <2> SUFFICES ASSUME NEW lower \in SUBSET stack, NEW t \in Template, ~X(stack, t).raises
               PROVE  X(lower, t) = X(stack, t)
    OBVIOUS
  <2>1. t \notin stack /\ t \in DOMAIN registry
    <3>1. Stuck.raises = TRUE
      BY DEF Stuck
    <3>2. CASE t \in stack \/ t \notin DOMAIN registry
      <4>1. X(stack, t) = Stuck
        BY <3>2, ExpandCases
      <4> HIDE DEF X
      <4> QED BY <3>1, <4>1, Zenon
    <3> QED BY <3>2
  <2> DEFINE includes == registry[t].includes
             own == registry[t].own
             higher == stack \union {t}
             mid == lower \union {t}
             n == Len(includes)
  <2>2. /\ X(stack, t) = InTurn(Parts(registry, higher, includes), own)
        /\ higher \in SUBSET Template /\ includes \in Seq(Template) /\ own \in Seq(ArgumentDecl)
    BY <2>1, ExpandCases
  <2>3. X(lower, t) = InTurn(Parts(registry, mid, includes), own)
    <3>1. lower \in SUBSET Template /\ t \notin lower
      BY <2>1
    <3> QED BY <2>1, <3>1, ExpandCases
  <2>4. \A u \in Template : Goal(higher, mid, u)
    <3>1. higher \in P /\ mid \in SUBSET higher
      BY <1>1, <2>1
    <3> HIDE DEF Goal, higher, mid
    <3> QED BY <3>1
  <2>5. X(stack, t).raises <=> \E i \in 1 .. n : X(higher, includes[i]).raises
    <3> HIDE DEF own, P, includes, higher, mid
    <3> DEFINE e == InTurn(Parts(registry, higher, includes), own)
    <3>1. e.raises <=> \E i \in 1 .. n : Expand(registry)[higher][includes[i]].raises
      BY <2>2, PartsInTurn
    <3>2. X(stack, t) = e
      BY <2>2
    <3> HIDE DEF e, n
    <3> QED BY <3>1, <3>2, Zenon
  <2>6. ASSUME NEW i \in 1 .. n PROVE X(mid, includes[i]) = X(higher, includes[i])
    <3>1. ~X(higher, includes[i]).raises
      BY <2>5, Zenon
    <3>2. includes[i] \in Template
      BY <2>2
    <3> HIDE DEF X, includes, higher, mid
    <3> QED BY <2>4, <3>1, <3>2, Zenon
  <2>7. Parts(registry, mid, includes) = Parts(registry, higher, includes)
    <3>1. DOMAIN includes = 1 .. n
      BY <2>2
    <3> HIDE DEF includes, higher, mid, n
    <3> QED BY <2>6, <3>1 DEF Parts
  <2> HIDE DEF X, includes, higher, mid, own
  <2> QED BY <2>2, <2>3, <2>7, Zenon
<1>2. SUBSET Template \subseteq P
  <2> HIDE DEF P
  <2> QED BY <1>1, StackInduct
<1>3. \A stack \in SUBSET Template : \A lower \in SUBSET stack, t \in Template : Goal(stack, lower, t)
  <2> HIDE DEF Goal
  <2> QED BY <1>2
<1> QED BY <1>3

(* The arguments of a command, or of a template as if it were one.         *)
Had(registry, cmd, got) ==
  LET X(i) == Expand(registry)[{}][cmd.includes[i]]
      n == Len(cmd.includes)
      fails == \E i \in 1 .. n : X(i).raises
  IN /\ got \in Seq(ArgumentDecl) /\ Apart(got)
     /\ \A m : m \in Names(got) <=> m \in Names(cmd.arguments) \/ (~fails /\ \E i \in 1 .. n : m \in Names(X(i).met))
     /\ \A a : a \in ToSet(got) <=>
          \/ Defines(cmd.arguments, a.name, a)
          \/ /\ a.name \notin Names(cmd.arguments) /\ ~fails
             /\ \E i \in 1 .. n : Defines(X(i).met, a.name, a) /\ \A j \in i + 1 .. n : a.name \notin Names(X(j).met)

LEMMA NoArguments == Apart(<<>>) /\ Names(<<>>) = {} /\ ToSet(<<>>) = {} /\ \A n, a : ~Defines(<<>>, n, a)
<1> DEFINE e == <<>>
<1>1. e \in Seq({}) /\ Len(e) = 0
  OBVIOUS
<1> HIDE DEF e
<1>2. \A i : i \notin 1 .. 0
  OBVIOUS
<1>3. (\A n : n \notin Names(e)) /\ \A a : a \notin ToSet(e)
  BY <1>1, <1>2, NameOf, ToSetIn
<1>4. Apart(e) /\ \A n, a : ~Defines(e, n, a)
  BY <1>1, <1>2 DEF Apart, Defines, DefinesTo
<1> QED BY <1>3, <1>4 DEF e

LEMMA ArgumentsAre ==
    ASSUME NEW registry, IsRegistry(registry), NEW cmd,
           cmd.includes \in Seq(Template), cmd.arguments \in Seq(ArgumentDecl)
    PROVE  Had(registry, cmd, Arguments(registry, cmd))
<1> DEFINE includes == cmd.includes
           own == cmd.arguments
           n == Len(includes)
           X(i) == Expand(registry)[{}][includes[i]]
           fails == \E i \in 1 .. n : X(i).raises
           e == InTurn(Parts(registry, {}, includes), <<>>)
           x == IF e.raises THEN <<>> ELSE PutAll(<<>>, e.met)
           got == PutAll(x, own)
           InLast(a) == \E i \in 1 .. n : Defines(X(i).met, a.name, a) /\ \A j \in i + 1 .. n : a.name \notin Names(X(j).met)
<1>1. includes \in Seq(Template) /\ own \in Seq(ArgumentDecl)
  OBVIOUS
<1>2. Arguments(registry, cmd) = got
  <2> DEFINE r == ResolveIncludes(registry, includes)
  <2>1. r = [raises |-> e.raises, arguments |-> PutAll(<<>>, e.met)]
    BY Zenon DEF ResolveIncludes, Parts
  <2>2. Arguments(registry, cmd) = PutAll(IF r.raises THEN <<>> ELSE r.arguments, own)
    BY DEF Arguments
  <2> HIDE DEF r, e
  <2>3. r.raises = e.raises /\ r.arguments = PutAll(<<>>, e.met)
    BY <2>1
  <2> QED BY <2>2, <2>3, Zenon
<1> HIDE DEF includes, own
<1>3. e.met \in Seq(ArgumentDecl)
  <2>1. {} \in SUBSET Template /\ <<>> \in Seq(ArgumentDecl)
    OBVIOUS
  <2> QED BY <1>1, <2>1, PartsInTurn
<1>4. \A m : m \in Names(e.met) <=> \E i \in 1 .. n : m \in Names(X(i).met)
  <2>1. {} \in SUBSET Template /\ <<>> \in Seq(ArgumentDecl)
    OBVIOUS
  <2>2. \A m : m \in Names(e.met) <=> m \in Names(<<>>) \/ \E i \in 1 .. n : m \in Names(X(i).met)
    BY <1>1, <2>1, PartsInTurn
  <2> HIDE DEF e, X, n
  <2> QED BY <2>2, NoArguments
<1>5. e.raises <=> fails
  <2>1. {} \in SUBSET Template /\ <<>> \in Seq(ArgumentDecl)
    OBVIOUS
  <2> QED BY <1>1, <2>1, PartsInTurn
<1>6. \A a : Defines(e.met, a.name, a) <=> InLast(a)
  <2>1. {} \in SUBSET Template /\ <<>> \in Seq(ArgumentDecl)
    OBVIOUS
  <2> SUFFICES ASSUME NEW a PROVE Defines(e.met, a.name, a) <=> InLast(a)
    OBVIOUS
  <2>2. Defines(e.met, a.name, a) <=> Defines(<<>>, a.name, a) \/ (a.name \notin Names(<<>>) /\ InLast(a))
    BY <1>1, <2>1, PartsInTurn
  <2> HIDE DEF e, InLast
  <2> QED BY <2>2, NoArguments
<1> HIDE DEF e, InLast, n, X
<1>7. /\ x \in Seq(ArgumentDecl) /\ Apart(x)
      /\ \A m : m \in Names(x) <=> ~fails /\ \E i \in 1 .. n : m \in Names(X(i).met)
      /\ \A a : a \in ToSet(x) <=> ~fails /\ InLast(a)
  <2>1. CASE e.raises
    <3>1. x = <<>> /\ fails
      BY <1>5, <2>1, Zenon
    <3>2. <<>> \in Seq(ArgumentDecl)
      OBVIOUS
    <3> HIDE DEF x, fails
    <3> QED BY <3>1, <3>2, NoArguments
  <2>2. CASE ~e.raises
    <3> DEFINE y == PutAll(<<>>, e.met)
    <3>1. x = y /\ ~fails
      BY <1>5, <2>2, Zenon
    <3>2. <<>> \in Seq(ArgumentDecl) /\ Apart(<<>>)
      BY NoArguments
    <3>3. /\ y \in Seq(ArgumentDecl) /\ Apart(y) /\ Names(y) = Names(<<>>) \union Names(e.met)
          /\ \A a : a \in ToSet(y) <=> Defines(e.met, a.name, a) \/ (a \in ToSet(<<>>) /\ a.name \notin Names(e.met))
      BY <1>3, <3>2, PutAllIs
    <3> HIDE DEF x, y, fails
    <3>4. Names(y) = Names(e.met) /\ \A a : a \in ToSet(y) <=> Defines(e.met, a.name, a)
      BY <3>3, NoArguments
    <3> QED BY <1>4, <1>6, <3>1, <3>3, <3>4
  <2> QED BY <2>1, <2>2
<1> HIDE DEF x, fails
<1>8. /\ got \in Seq(ArgumentDecl) /\ Apart(got) /\ Names(got) = Names(x) \union Names(own)
      /\ \A a : a \in ToSet(got) <=> Defines(own, a.name, a) \/ (a \in ToSet(x) /\ a.name \notin Names(own))
  BY <1>1, <1>7, PutAllIs
<1> HIDE DEF got
<1>9. \A m : m \in Names(got) <=> m \in Names(own) \/ (~fails /\ \E i \in 1 .. n : m \in Names(X(i).met))
  BY <1>7, <1>8
<1>10. \A a : a \in ToSet(got) <=> Defines(own, a.name, a) \/ (a.name \notin Names(own) /\ ~fails /\ InLast(a))
  BY <1>7, <1>8
<1>11. Had(registry, cmd, got)
  BY <1>8, <1>9, <1>10, Zenon DEF Had, X, n, fails, InLast, includes, own
<1> QED BY <1>2, <1>11

(* What a template that does not raise meets last, it has as a command.    *)
LEMMA AloneHas ==
    ASSUME NEW registry, IsRegistry(registry), NEW t \in Template, ~Expand(registry)[{}][t].raises,
           NEW m, NEW a, Defines(Expand(registry)[{}][t].met, m, a)
    PROVE  Latest(Arguments(registry, [includes |-> registry[t].includes, arguments |-> registry[t].own]), m) = a
<1> DEFINE includes == registry[t].includes
           own == registry[t].own
           n == Len(includes)
           cmd == [includes |-> includes, arguments |-> own]
           got == Arguments(registry, cmd)
           e == InTurn(Parts(registry, {t}, includes), own)
           X(i) == Expand(registry)[{}][includes[i]]
           Y(i) == Expand(registry)[{t}][includes[i]]
<1>1. t \in DOMAIN registry
  <2>1. Stuck.raises = TRUE
    BY DEF Stuck
  <2>2. CASE t \notin DOMAIN registry
    <3>1. Expand(registry)[{}][t] = Stuck
      BY <2>2, ExpandCases
    <3> QED BY <2>1, <3>1, Zenon
  <2> QED BY <2>2
<1>2. /\ Expand(registry)[{}][t] = e
      /\ {t} \in SUBSET Template /\ includes \in Seq(Template) /\ own \in Seq(ArgumentDecl)
  <2>1. {} \union {t} = {t} /\ t \notin {} /\ {} \in SUBSET Template
    OBVIOUS
  <2>2. /\ Expand(registry)[{}][t] = InTurn(Parts(registry, {} \union {t}, includes), own)
        /\ includes \in Seq(Template) /\ own \in Seq(ArgumentDecl)
    BY <1>1, <2>1, ExpandCases
  <2>3. {t} \in SUBSET Template
    OBVIOUS
  <2> HIDE DEF includes, own
  <2> QED BY <2>1, <2>2, <2>3
<1>3. cmd.includes = includes /\ cmd.arguments = own
  OBVIOUS
<1> HIDE DEF includes, own, cmd
<1>4. e.met \in Seq(ArgumentDecl) /\ (e.raises <=> \E i \in 1 .. n : Y(i).raises)
  BY <1>2, PartsInTurn
<1>5. Defines(e.met, m, a) <=>
        \/ Defines(own, m, a)
        \/ /\ m \notin Names(own)
           /\ \E i \in 1 .. n : Defines(Y(i).met, m, a) /\ \A j \in i + 1 .. n : m \notin Names(Y(j).met)
  BY <1>2, PartsInTurn
<1> HIDE DEF e, Y, X, got
<1>6. ~e.raises /\ Defines(e.met, m, a)
  BY <1>2, Zenon
<1>7. a.name = m
  BY <1>6, Zenon DEF Defines, DefinesTo
<1>8. \A i \in 1 .. n : ~Y(i).raises
  BY <1>4, <1>6, Zenon
<1>9. \A i \in 1 .. n : X(i) = Y(i)
  <2> SUFFICES ASSUME NEW i \in 1 .. n PROVE X(i) = Y(i)
    OBVIOUS
  <2>1. ~Y(i).raises
    BY <1>8
  <2>2. includes[i] \in Template /\ {} \in SUBSET {t}
    BY <1>2
  <2>3. \A u \in Template : ~Expand(registry)[{t}][u].raises => Expand(registry)[{}][u] = Expand(registry)[{t}][u]
    BY <1>2, <2>2, SameBelow
  <2> QED BY <2>1, <2>2, <2>3, Zenon DEF X, Y
<1>10. Had(registry, cmd, got)
  BY <1>2, <1>3, ArgumentsAre DEF got
<1>11. got \in Seq(ArgumentDecl) /\ Apart(got)
  BY <1>10 DEF Had
<1>12. a \in ToSet(got) <=>
         \/ Defines(own, a.name, a)
         \/ /\ a.name \notin Names(own) /\ ~ \E i \in 1 .. n : X(i).raises
            /\ \E i \in 1 .. n : Defines(X(i).met, a.name, a) /\ \A j \in i + 1 .. n : a.name \notin Names(X(j).met)
  BY <1>3, <1>10, Zenon DEF Had, X, n
<1>13. \A i \in 1 .. n : ~X(i).raises
  BY <1>8, <1>9, Zenon
<1>14. \A i \in 1 .. n : \A j \in i + 1 .. n : j \in 1 .. n
  BY <1>2
<1>15. a \in ToSet(got)
  <2>1. CASE Defines(own, m, a)
    BY <1>7, <1>12, <2>1, Zenon
  <2>2. CASE ~Defines(own, m, a)
    <3>1. m \notin Names(own)
      BY <1>5, <1>6, <2>2
    <3>2. PICK i \in 1 .. n : Defines(Y(i).met, m, a) /\ \A j \in i + 1 .. n : m \notin Names(Y(j).met)
      BY <1>5, <1>6, <2>2
    <3>3. Defines(X(i).met, m, a) /\ \A j \in i + 1 .. n : m \notin Names(X(j).met)
      BY <1>9, <1>14, <3>2, Zenon
    <3> QED BY <1>7, <1>12, <1>13, <3>1, <3>3, Zenon
  <2> QED BY <2>1, <2>2
<1>16. Defines(got, m, a)
  BY <1>7, <1>11, <1>15, ApartDefines
<1>17. Latest(got, m) = a
  BY <1>11, <1>16, DefinesIs
<1> QED BY <1>17 DEF got, cmd, includes, own

LEMMA WholeArguments ==
    ASSUME NEW registry, IsRegistry(registry), NEW cmd \in CommandDecl
    PROVE  ArgumentsAreWhole(registry, cmd)
<1> DEFINE includes == cmd.includes
           own == cmd.arguments
           n == Len(includes)
           got == Arguments(registry, cmd)
           X(i) == Expand(registry)[{}][includes[i]]
           fails == \E i \in 1 .. n : X(i).raises
           offered == IF Resolvable(registry, includes)
                      THEN UNION {Offers(registry, t) : t \in ToSet(includes)} ELSE {}
<1>1. includes \in Seq(Template) /\ own \in Seq(ArgumentDecl)
  BY CommandAssumption
<1>2. Had(registry, cmd, got)
  BY <1>1, ArgumentsAre
<1>3. n \in Nat /\ DOMAIN includes = 1 .. n /\ {} \in SUBSET Template /\ \A i \in 1 .. n : includes[i] \in Template
  BY <1>1
<1> HIDE DEF includes, own, got, n
<1>4. \A u : u \in ToSet(includes) <=> \E i \in 1 .. n : includes[i] = u
  BY <1>1, ToSetIn DEF n
<1>5. got \in Seq(ArgumentDecl) /\ Apart(got)
  BY <1>2 DEF Had
<1>6. /\ \A m : m \in Names(got) <=> m \in Names(own) \/ (~fails /\ \E i \in 1 .. n : m \in Names(X(i).met))
      /\ \A a : a \in ToSet(got) <=>
          \/ Defines(own, a.name, a)
          \/ /\ a.name \notin Names(own) /\ ~fails
             /\ \E i \in 1 .. n : Defines(X(i).met, a.name, a) /\ \A j \in i + 1 .. n : a.name \notin Names(X(j).met)
  BY <1>2, Zenon DEF Had, includes, own, n
<1>7. fails <=> ~Resolvable(registry, includes)
  <2>1. \A i \in 1 .. n : X(i).raises <=> \E u \in Reach(registry, {includes[i]}) : Bad(registry, {}, u)
    BY <1>3, RaisesWhere
  <2>2. ToSet(includes) \in SUBSET Template
    BY <1>3, <1>4
  <2>3. \A u : u \in Reach(registry, ToSet(includes)) <=> \E t \in ToSet(includes) : u \in Reach(registry, {t})
    BY <2>2, ReachEach
  <2>4. \A u : Bad(registry, {}, u) <=> ~(u \in DOMAIN registry /\ u \notin Reach(registry, Below(registry, {u})))
    BY DEF Bad
  <2>5. Resolvable(registry, includes) <=> \A u \in Reach(registry, ToSet(includes)) : ~Bad(registry, {}, u)
    BY <2>4 DEF Resolvable
  <2> HIDE DEF X
  <2>6. fails <=> \E i \in 1 .. n : \E u \in Reach(registry, {includes[i]}) : Bad(registry, {}, u)
    BY <2>1
  <2> HIDE DEF fails
  <2> QED BY <1>4, <2>3, <2>5, <2>6
<1>8. ~fails => \A i \in 1 .. n : Names(X(i).met) = Offers(registry, includes[i])
  BY <1>3, MetOffers
<1>9. \A i, j \in DOMAIN got : got[i].name = got[j].name => i = j
  BY <1>5 DEF Apart
<1>10. \A m : m \in offered <=> ~fails /\ \E i \in 1 .. n : m \in Offers(registry, includes[i])
  <2> HIDE DEF fails
  <2> QED BY <1>4, <1>7
<1> HIDE DEF X, fails, offered
<1>11. Names(got) = Names(own) \union offered
  BY <1>6, <1>8, <1>10
<1>12. ASSUME NEW a \in ToSet(got)
       PROVE  LET LastWith(m) == includes[Max({i \in DOMAIN includes : m \in Offers(registry, includes[i])})]
                  Alone(t) == Arguments(registry, [includes |-> registry[t].includes, arguments |-> registry[t].own])
              IN a = IF a.name \in Names(own) THEN Latest(own, a.name) ELSE Latest(Alone(LastWith(a.name)), a.name)
  <2> DEFINE m == a.name
             at == {i \in DOMAIN includes : m \in Offers(registry, includes[i])}
  <2>1. CASE Defines(own, m, a)
    <3>1. m \in Names(own) /\ Latest(own, m) = a
      BY <1>1, <2>1, DefinesIs
    <3> QED BY <3>1
  <2>2. CASE ~Defines(own, m, a)
    <3>1. m \notin Names(own) /\ ~fails
      BY <1>6, <2>2
    <3>2. PICK i \in 1 .. n : Defines(X(i).met, m, a) /\ \A j \in i + 1 .. n : m \notin Names(X(j).met)
      BY <1>6, <2>2
    <3>3. X(i).met \in Seq(ArgumentDecl) /\ ~X(i).raises
      <4>1. X(i).met \in Seq(ArgumentDecl)
        BY <1>3, ExpandTyped DEF X
      <4>2. ~X(i).raises
        BY <3>1, Zenon DEF fails
      <4> QED BY <4>1, <4>2
    <3>4. m \in Offers(registry, includes[i])
      BY <1>8, <3>1, <3>2, <3>3, DefinesIs
    <3>5. \A j \in i + 1 .. n : j \in 1 .. n /\ m \notin Offers(registry, includes[j])
      BY <1>3, <1>8, <3>1, <3>2
    <3>6. i \in at /\ at \subseteq 1 .. n /\ \A j \in at : i >= j
      BY <1>3, <3>4, <3>5
    <3>7. Max(at) = i
      <4> HIDE DEF at
      <4>1. Max(at) \in at /\ \A j \in at : Max(at) >= j
        BY <3>6 DEF Max
      <4> DEFINE k == Max(at)
      <4>2. k \in Int /\ i \in Int /\ k >= i /\ i >= k
        <5>1. k \in 1 .. n /\ k >= i /\ i >= k
          BY <3>6, <4>1
        <5> HIDE DEF k
        <5> QED BY <1>3, <5>1
      <4> HIDE DEF k
      <4>3. k = i
        BY <4>2
      <4> QED BY <4>3 DEF k
    <3> DEFINE t == includes[i]
    <3>8. Latest(Arguments(registry, [includes |-> registry[t].includes, arguments |-> registry[t].own]), m) = a
      <4>1. t \in Template
        BY <1>3
      <4> HIDE DEF t, m
      <4>2. ~Expand(registry)[{}][t].raises /\ Defines(Expand(registry)[{}][t].met, m, a)
        BY <3>2, <3>3, Zenon DEF X, t
      <4> QED BY <4>1, <4>2, AloneHas
    <3> QED BY <3>1, <3>7, <3>8, Zenon
  <2> QED BY <2>1, <2>2
<1> QED BY <1>9, <1>11, <1>12, Zenon DEF ArgumentsAreWhole, got, own, includes, offered

(***************************************************************************)
(* A command has each of its arguments once and in the right definition,   *)
(* however its templates include one another (expand_includes,             *)
(* build_commands), for every command and every set of templates.          *)
(***************************************************************************)
THEOREM ArgumentsAreRight == Spec => []ArgumentsWin
<1>1. ArgumentsWin
  <2>1. ASSUME NEW registry \in Registries, NEW cmd \in CommandDecl PROVE ArgumentsAreWhole(registry, cmd)
    <3>1. IsRegistry(registry)
      BY CommandAssumption
    <3> QED BY <3>1, WholeArguments
  <2> QED BY <2>1 DEF ArgumentsWin
<1> QED BY <1>1, PTL
=============================================================================
