----------------------------- MODULE ConfigPatch -----------------------------
(***************************************************************************)
(* patch_config of serve/supabase.py: before a stack is started, the ports *)
(* of its slot and its project id are written into supabase/config.toml    *)
(* with regular expressions.                                               *)
(*                                                                         *)
(* The file is a sequence of lines: a header, a key with a number or       *)
(* another value, or a blank line.                                         *)
(***************************************************************************)
EXTENDS Naturals, Sequences, SequencesExt, FiniteSetsExt

CONSTANTS
    ConfigFiles,     \* the files of the projects
    SlotPorts,       \* the ports of a slot by their names
    ProjectId

Header(s) == [kind |-> "header", section |-> s]
Number(k, n) == [kind |-> "number", key |-> k, number |-> n]
Text(k, t) == [kind |-> "text", key |-> k, text |-> t]
Blank == [kind |-> "blank"]

Line ==
  [kind : {"header"}, section : STRING] \union [kind : {"number"}, key : STRING, number : Nat]
    \union [kind : {"text"}, key : STRING, text : STRING] \union {Blank}

ASSUME ConfigAssumption ==
  /\ ConfigFiles \subseteq Seq(Line)
  /\ SlotPorts \in [DOMAIN SlotPorts -> Nat] /\ ProjectId \in STRING

IsHeader(line) == line.kind = "header"

\* toml_mappings: where the port of each name goes, in the order they are written.
Mappings ==
  <<<<"api_port", "api", "port">>, <<"db_port", "db", "port">>, <<"shadow_port", "db", "shadow_port">>,
    <<"pooler_port", "db.pooler", "port">>, <<"studio_port", "studio", "port">>,
    <<"inbucket_port", "inbucket", "port">>, <<"inbucket_smtp", "inbucket", "smtp_port">>,
    <<"inbucket_pop3", "inbucket", "pop3_port">>, <<"analytics_port", "analytics", "port">>,
    <<"inspector_port", "edge_runtime", "inspector_port">>>>

\* Mutant of Reaches: the lines may be any.
ReachesAnywhere(lines, i, j) == i < j

\* The lines from the i-th up to the j-th can be skipped: none ends where a blank
\* line and a header follow.  A header that follows directly is skipped, unless
\* it is the next line.
Reaches(lines, i, j) ==
  /\ i < j
  /\ ~IsHeader(lines[i + 1])
  /\ \A m \in i + 1 .. j - 1 : lines[m] = Blank => ~IsHeader(lines[m + 1])

\* Where the section starts, and where its key is then found.
Headers(lines, s) == {i \in DOMAIN lines : lines[i] = Header(s)}
Found(lines, i, k) ==
  {j \in DOMAIN lines : lines[j].kind = "number" /\ lines[j].key = k /\ Reaches(lines, i, j)}

\* The substitution: the first header that leads to the key, its first key.
PatchPort(lines, s, k, port) ==
  LET starts == {i \in Headers(lines, s) : Found(lines, i, k) # {}}
  IN IF starts = {} THEN lines ELSE [lines EXCEPT ![Min(Found(lines, Min(starts), k))].number = port]

PatchProject(lines, id) ==
  [i \in DOMAIN lines |->
     IF lines[i].kind = "text" /\ lines[i].key = "project_id" THEN [lines[i] EXCEPT !.text = id] ELSE lines[i]]

\* One turn of the loop over the names.
PatchMapping(lines, ports, m) ==
  IF m[1] \in DOMAIN ports THEN PatchPort(lines, m[2], m[3], ports[m[1]]) ELSE lines

PatchConfig(lines, ports, id) ==
  LET after[n \in 0 .. Len(Mappings)] ==
        IF n = 0 THEN PatchProject(lines, id) ELSE PatchMapping(after[n - 1], ports, Mappings[n])
  IN after[Len(Mappings)]

-----------------------------------------------------------------------------
\* A file as people write it: a blank line before every header but the first
\* line and, as TOML asks, no section and no key of a section twice.
SectionAt(lines, j) ==
  LET before == {i \in 1 .. j : IsHeader(lines[i])}
  IN IF before = {} THEN "top" ELSE lines[Max(before)].section

Tidy(lines) ==
  /\ \A i \in DOMAIN lines : IsHeader(lines[i]) => i = 1 \/ lines[i - 1] = Blank
  /\ \A i, j \in DOMAIN lines : i # j /\ lines[i] # Blank =>
       IF IsHeader(lines[i]) THEN lines[j] # lines[i]
       ELSE lines[j].kind \in {"number", "text"} /\ lines[j].key = lines[i].key
              => SectionAt(lines, i) # SectionAt(lines, j)

\* In such a file exactly the ports of the slot are changed, each in its section,
\* and the project id; every other line stays what it was.
PatchesExactly(lines, ports, id) ==
  LET patched == PatchConfig(lines, ports, id)
      For(j) == {m \in ToSet(Mappings) : m[1] \in DOMAIN ports /\ lines[j].kind = "number"
                                         /\ m[2] = SectionAt(lines, j) /\ m[3] = lines[j].key}
  IN Tidy(lines) =>
       /\ Len(patched) = Len(lines)
       /\ \A j \in DOMAIN lines :
            IF lines[j].kind = "text" /\ lines[j].key = "project_id" THEN patched[j] = Text("project_id", id)
            ELSE IF For(j) = {} THEN patched[j] = lines[j]
            ELSE \A m \in For(j) : patched[j] = Number(m[3], ports[m[1]])
=============================================================================
