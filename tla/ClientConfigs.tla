---------------------------- MODULE ClientConfigs ----------------------------
(***************************************************************************)
(* How `melra` puts its entry into a client's own configuration file:      *)
(* apps/cli/src/clients.ts and jsonc.ts. A YAML file is edited by lines, a *)
(* TOML file loses the earlier tables and gains the new ones, a JSON or    *)
(* JSONC file is edited one member at a time and read back. The file is    *)
(* copied to .bak and then replaced; a run may die between two steps.      *)
(*                                                                         *)
(* A line is its indentation, what it is and what it names; a JSON object  *)
(* is its members in order, which may repeat a key. Quotes, comments of a  *)
(* JSON file, commas and line ends are left out.                           *)
(***************************************************************************)
EXTENDS Integers, Sequences, FiniteSets, SequencesExt

CONSTANTS
  MaxLines, \* bound: lines of a YAML file below its first header, or of a TOML file
  MaxMembers, \* bound: members of a JSON file
  MaxRuns,  \* bound: runs of the command
  NoFile,   \* what is read of a file that is not there
  Refused   \* the answer to a file that is not edited

VARIABLES
  form,     \* the file: "yaml", "toml", "json" (an entry) or "rules" (a JSON list)
  file, bak,\* on the disk
  at,       \* where the command stands
  existing, next,  \* what it read and what it would write
  runs             \* runs begun

configVars == <<form, file, bak, at, existing, next, runs>>

-----------------------------------------------------------------------------
(* YAML: withMelraYamlEntry *)

Line(indent, what, name) == [indent |-> indent, what |-> what, name |-> name]
Header == Line(0, "key", "map")
Entry == <<Line(2, "key", "melra"), Line(4, "key", "command")>>
YamlLines ==
  {Header, Line(0, "flow", "map"), Line(0, "key", "other"), Line(0, "item", ""), Line(0, "comment", ""),
   Line(2, "key", "melra"), Line(2, "key", "x"), Line(2, "item", ""),
   Line(4, "key", "melra"), Line(4, "key", "x")}

Content(line) == line.what # "comment"
Named(line, name) == line.what \in {"key", "flow"} /\ line.name = name
Out(indent) == [k \in DOMAIN Entry |-> [Entry[k] EXCEPT !.indent = @ - 2 + indent]]

Headers(lines) == {i \in DOMAIN lines : lines[i].indent = 0 /\ Named(lines[i], "map")}
Start(lines) == CHOOSE i \in Headers(lines) : TRUE
\* The lines of the map: up to the next content line at the top.
End(lines) ==
  LET after == {i \in DOMAIN lines : i > Start(lines) /\ Content(lines[i]) /\ lines[i].indent = 0}
  IN IF after = {} THEN Len(lines) + 1 ELSE CHOOSE i \in after : \A j \in after : i <= j
Children(lines) == {i \in (Start(lines) + 1)..(End(lines) - 1) : Content(lines[i])}
FirstChild(lines) == CHOOSE i \in Children(lines) : \A j \in Children(lines) : i <= j
LastChild(lines) == CHOOSE i \in Children(lines) : \A j \in Children(lines) : i >= j
Indent(lines) == IF Children(lines) = {} THEN 2 ELSE lines[FirstChild(lines)].indent

Sibling(lines, i) ==
  /\ lines[i].indent = Indent(lines)
  /\ lines[i].what = "key" \/ (i # FirstChild(lines) /\ lines[i].what = "item")
YamlRefuses(lines) ==
  \/ \E i \in DOMAIN lines : Content(lines[i]) /\ lines[i].indent = 0 /\ lines[i].what = "item"
  \/ \E i, j \in Headers(lines) : i # j
  \/ \E i \in Headers(lines) : lines[i].what = "flow"
  \/ \E i \in Headers(lines), j \in DOMAIN lines :
       j \in Children(lines) /\ lines[j].indent <= Indent(lines) /\ ~Sibling(lines, j)

\* An earlier entry: its key through its last deeper line or item, so that the
\* blanks and comments after it stay with what follows.
Earlier(lines) == {i \in Children(lines) : lines[i].indent = Indent(lines) /\ Named(lines[i], "melra")}
\* variant: through the line before the next key
ThroughTheGap(lines, i) ==
  {j \in i..(End(lines) - 1) :
     \A k \in Children(lines) : i < k /\ k <= j => lines[k].indent > Indent(lines) \/ lines[k].what = "item"}
EntryOf(lines, i) ==
  {j \in ThroughTheGap(lines, i) : \E k \in Children(lines) : j <= k /\ k \in ThroughTheGap(lines, i)}
Drop(lines) == UNION {EntryOf(lines, i) : i \in Earlier(lines)}
PlacedAt(lines) ==
  IF Earlier(lines) # {} THEN CHOOSE i \in Earlier(lines) : \A j \in Earlier(lines) : i <= j
  ELSE IF Children(lines) = {} THEN Start(lines) + 1 ELSE LastChild(lines) + 1

Keeping(lines, kept) ==
  [k \in 1..Cardinality(kept) |-> lines[CHOOSE i \in kept : Cardinality({j \in kept : j <= i}) = k]]
WithYamlEntry(lines) ==
  IF Headers(lines) = {} THEN lines \o <<Header>> \o Entry
  ELSE LET at_ == PlacedAt(lines)
           stay == DOMAIN lines \ Drop(lines)
       IN Keeping(lines, {i \in stay : i < at_}) \o Out(Indent(lines))
            \o Keeping(lines, {i \in stay : i >= at_})

-----------------------------------------------------------------------------
(* TOML: withoutMelraTables, and the tables appended *)

Tables == {Line(0, "table", "melra"), Line(0, "table", "melra.env"), Line(0, "table", "other")}
TomlLines == Tables \union {Line(0, "set", "x"), Line(0, "comment", "")}
TomlEntry == <<Line(0, "table", "melra"), Line(0, "set", "command")>>
\* The table line i stands in: no table before the first header.
TableOf(lines, i) ==
  LET before == {j \in 1..i : lines[j].what = "table"}
  IN IF before = {} THEN "" ELSE lines[CHOOSE j \in before : \A k \in before : k <= j].name
MelraTable(name) == name \in {"melra", "melra.env"}
WithTomlTables(lines) ==
  Keeping(lines, {i \in DOMAIN lines : ~MelraTable(TableOf(lines, i))}) \o TomlEntry

-----------------------------------------------------------------------------
(* JSON and JSONC: upsertJsonc one setting at a time, then read back *)

Scalar == [kind |-> "scalar"]
Ours == [kind |-> "melra"]
Object(members) == [kind |-> "object", members |-> members]
RuleList(names) == [kind |-> "list", names |-> names]
Member(key, value) == [key |-> key, value |-> value]
Rules == <<"r1", "r2">> \* the deny rules to be listed

Inner == {Member("melra", Scalar), Member("x", Scalar), Member("deny", Scalar),
          Member("deny", RuleList(<<"r2", "u">>))}
InnerMembers == {<<>>} \union {<<m>> : m \in Inner} \union {<<m, n>> : m, n \in Inner}
JsonMembers == {Member("schema", Scalar), Member("x", Scalar), Member("map", Scalar)}
               \union {Member("map", Object(ms)) : ms \in InnerMembers}

At(members, key) == {i \in DOMAIN members : members[i].key = key}
\* What a parser reads: the last of a repeated key.
LastOf(members, key) == members[CHOOSE i \in At(members, key) : \A j \in At(members, key) : j <= i].value
Keys(members) == {members[i].key : i \in DOMAIN members}
Parsed(members) ==
  [key \in Keys(members) |->
     LET value == LastOf(members, key)
     IN IF value.kind = "object" THEN [k \in Keys(value.members) |-> LastOf(value.members, k)] ELSE value]
ObjectAt(members, key) == \E i \in At(members, key) : members[i].value.kind = "object"

Ambiguous(members, key) == \E i, j \in At(members, key) : i # j
Upsert(members, key, value, keep) ==
  IF At(members, key) = {} THEN Append(members, Member(key, value))
  ELSE IF keep THEN members
  ELSE [i \in DOMAIN members |-> IF i \in At(members, key) THEN Member(key, value) ELSE members[i]]
UpsertRefuses(members, key) ==
  \/ Ambiguous(members, "map")
  \/ At(members, "map") # {} /\ ~ObjectAt(members, "map")
  \/ ObjectAt(members, "map") /\ Ambiguous(LastOf(members, "map").members, key)
UpsertInMap(members, key, value) ==
  LET inside == IF ObjectAt(members, "map") THEN LastOf(members, "map").members ELSE <<>>
  IN Upsert(members, "map", Object(Upsert(inside, key, value, FALSE)), FALSE)

\* The same edit on the parsed value, to compare the text read back with.
MergedInMap(parsed, key, value) ==
  LET inside == IF "map" \in DOMAIN parsed /\ "kind" \notin DOMAIN parsed["map"] THEN parsed["map"] ELSE <<>>
      with == [k \in DOMAIN inside \union {key} |-> IF k = key THEN value ELSE inside[k]]
  IN [k \in DOMAIN parsed \union {"map"} |-> IF k = "map" THEN with ELSE parsed[k]]
MergedSchema(parsed) ==
  [k \in DOMAIN parsed \union {"schema"} |-> IF k \in DOMAIN parsed THEN parsed[k] ELSE Scalar]

WithJsonEntry(members) ==
  LET first == Upsert(members, "schema", Scalar, TRUE)
      edited == UpsertInMap(first, "melra", Ours)
  IN IF \/ Ambiguous(members, "schema")
        \/ UpsertRefuses(first, "melra")
        \/ Parsed(edited) # MergedInMap(MergedSchema(Parsed(members)), "melra", Ours)
     THEN Refused ELSE edited

\* A list of rules gains the missing ones (withJsonListUnion).
Listed(members) ==
  LET parsed == Parsed(members)
  IN IF ObjectAt(members, "map") /\ LastOf(members, "map").kind = "object" /\ "deny" \in DOMAIN parsed["map"]
     THEN parsed["map"]["deny"] ELSE RuleList(<<>>)
Missing(members) == SelectSeq(Rules, LAMBDA rule : ~Contains(Listed(members).names, rule))
WithRules(members) ==
  IF Listed(members).kind # "list" THEN Refused
  ELSE IF Missing(members) = <<>> THEN members
  ELSE LET union_ == RuleList(Listed(members).names \o Missing(members))
           edited == UpsertInMap(members, "deny", union_)
       IN IF UpsertRefuses(members, "deny") \/ Parsed(edited) # MergedInMap(Parsed(members), "deny", union_)
          THEN Refused ELSE edited

-----------------------------------------------------------------------------
(* clientConfigText and replaceFile *)

Whole ==
  CASE form = "yaml" -> <<Header>> \o Entry
    [] form = "toml" -> TomlEntry
    [] form = "json" -> <<Member("schema", Scalar), Member("map", Object(<<Member("melra", Ours)>>))>>
    [] form = "rules" -> <<Member("map", Object(<<Member("deny", RuleList(Rules))>>))>>
Merged(was) ==
  CASE was = NoFile \/ was = <<>> -> Whole
    [] form = "yaml" -> IF YamlRefuses(was) THEN Refused ELSE WithYamlEntry(was)
    [] form = "toml" -> WithTomlTables(was)
    [] form = "json" -> WithJsonEntry(was)
    [] form = "rules" -> WithRules(was)

Pieces == CASE form = "yaml" -> YamlLines [] form = "toml" -> TomlLines [] OTHER -> JsonMembers

Init ==
  /\ form \in {"yaml", "toml", "json", "rules"}
  /\ file = NoFile /\ bak = NoFile
  /\ at = "idle" /\ existing = NoFile /\ next = NoFile
  /\ runs = 0

\* The user writes the file, a line or a member at a time (external).
UserWrites ==
  /\ at = "idle" /\ runs = 0
  /\ \E piece \in Pieces :
       file' = IF file = NoFile THEN <<piece>> ELSE Append(file, piece)
  /\ Len(file') <= CASE form = "yaml" -> IF file'[1] = Header THEN MaxLines + 1 ELSE MaxLines
                       [] form = "toml" -> MaxLines
                       [] OTHER -> MaxMembers
  /\ UNCHANGED <<form, bak, at, existing, next, runs>>

\* A run reads the file and works out what it would write.
Begin ==
  /\ at \in {"idle", "done", "dead"} /\ runs < MaxRuns
  /\ existing' = file /\ next' = Merged(file)
  /\ at' = CASE next' = Refused -> "refused" [] next' = file -> "done" [] OTHER -> "copy"
  /\ runs' = runs + 1
  /\ UNCHANGED <<form, file, bak>>

\* The file is copied aside as it is on the disk now.
Copy ==
  /\ at = "copy" /\ at' = "write"
  /\ bak' = IF existing = NoFile THEN bak ELSE file
  /\ UNCHANGED <<form, file, existing, next, runs>>
Truncate ==
  /\ at = "write" /\ at' = "fill"
  /\ file' = <<>>
  /\ UNCHANGED <<form, bak, existing, next, runs>>
Fill ==
  /\ at = "fill" /\ at' = "done"
  /\ file' = next
  /\ UNCHANGED <<form, bak, existing, next, runs>>

\* The process dies; a write under way leaves a part of the text.
Die ==
  /\ at \in {"copy", "write", "fill"} /\ at' = "dead"
  /\ IF at = "fill" THEN \E n \in 0..Len(next) : file' = SubSeq(next, 1, n) ELSE UNCHANGED file
  /\ UNCHANGED <<form, bak, existing, next, runs>>

Next == UserWrites \/ Begin \/ Copy \/ Truncate \/ Fill \/ Die
Spec == Init /\ [][Next]_configVars

-----------------------------------------------------------------------------
(* How the client reads the file *)

\* The line a YAML line is nested under: 0 for none.
ParentIn(lines, i) ==
  LET above == {j \in 1..(i - 1) :
        /\ Content(lines[j])
        /\ \/ lines[j].indent < lines[i].indent
           \/ lines[i].what = "item" /\ lines[j].what = "key" /\ lines[j].indent = lines[i].indent}
  IN IF above = {} THEN 0 ELSE CHOOSE j \in above : \A k \in above : k <= j
PathsIn(lines) ==
  LET path[i \in 0..Len(lines)] ==
        IF i = 0 THEN <<>>
        ELSE IF ~Content(lines[i]) THEN <<lines[i]>>
        ELSE Append(path[ParentIn(lines, i)], [what |-> lines[i].what, name |-> lines[i].name])
  IN [i \in DOMAIN lines |-> path[i]]
KeyNamed(name) == [what |-> "key", name |-> name]
Ownd(path) == Len(path) > 1 /\ path[1] = KeyNamed("map") /\ path[2].name = "melra" /\ path[2].what = "key"
\* A comment inside one entry goes with it.
InsideOne(lines, paths, i) ==
  /\ ~Content(lines[i])
  /\ \E j \in 1..(i - 1), k \in (i + 1)..Len(lines) :
       /\ Ownd(paths[j]) /\ Ownd(paths[k]) /\ Len(paths[k]) > 2
       /\ \A l \in (j + 1)..(k - 1) : ~Content(lines[l])
YamlRest(lines) ==
  LET paths == PathsIn(lines)
  IN Keeping(paths, {i \in DOMAIN paths : ~Ownd(paths[i]) /\ ~InsideOne(lines, paths, i)})
YamlOwn(lines) == LET paths == PathsIn(lines) IN Keeping(paths, {i \in DOMAIN paths : Ownd(paths[i])})

TomlRest(lines) ==
  LET read == [i \in DOMAIN lines |-> <<TableOf(lines, i), lines[i]>>]
  IN SelectSeq(read, LAMBDA l : ~MelraTable(l[1]))
TomlOwn(lines) == SelectSeq(lines, LAMBDA l : l.what = "table" /\ MelraTable(l.name))

\* Every setting of a JSON file with its path, in the file's order.
Settings(members) ==
  FlattenSeq([i \in DOMAIN members |->
    IF members[i].value.kind = "object"
    THEN [j \in DOMAIN members[i].value.members |->
            <<members[i].key, members[i].value.members[j].key, members[i].value.members[j].value>>]
    ELSE << <<members[i].key, members[i].value>> >>])
Without(members, key) == SelectSeq(Settings(members), LAMBDA s : ~(s[1] = "map" /\ s[2] = key))
Own(members, key) == SelectSeq(Settings(members), LAMBDA s : s[1] = "map" /\ s[2] = key)

-----------------------------------------------------------------------------
(* Properties *)

\* Every value keeps its shape.
TypeOK ==
  /\ form \in {"yaml", "toml", "json", "rules"}
  /\ at \in {"idle", "copy", "write", "fill", "done", "dead", "refused"}
  /\ runs \in 0..MaxRuns
  /\ at = "idle" => next = NoFile /\ bak = NoFile
  /\ next = Refused <=> at = "refused"

Wrote == at = "done" /\ existing \notin {NoFile, <<>>}

\* What a finished run wrote reads, to the client, as the user's own settings
\* in their order with exactly one MELRA entry, or with the missing rules after
\* those already listed (withMelraYamlEntry, withoutMelraTables, withJsonEdits).
KeepsTheRest ==
  /\ Wrote /\ form = "yaml" =>
       /\ YamlRest(file) = YamlRest(existing) \/ YamlRest(file) = Append(YamlRest(existing), <<KeyNamed("map")>>)
       /\ YamlOwn(file) = YamlOwn(<<Header>> \o Entry)
  /\ Wrote /\ form = "toml" =>
       /\ SubSeq(TomlRest(file), 1, Len(TomlRest(existing))) = TomlRest(existing)
       /\ Len(TomlOwn(file)) = 1
  /\ Wrote /\ form = "json" =>
       /\ Without(file, "melra") \in {Without(existing, "melra"),
                                      Append(Without(existing, "melra"), <<"schema", Scalar>>)}
       /\ Own(file, "melra") = << <<"map", "melra", Ours>> >>
  /\ Wrote /\ form = "rules" =>
       /\ Without(file, "deny") = Without(existing, "deny")
       /\ \A s \in ToSet(Own(existing, "deny")), n \in ToSet(Own(file, "deny")) :
            IsPrefix(s[3].names, n[3].names)
       /\ \E n \in ToSet(Own(file, "deny")) : ToSet(Rules) \subseteq ToSet(n[3].names)

\* Run again over what it wrote, the command would write the same: it stops
\* there, and the .bak of the user's own file stays (replaceFile).
RerunIsQuiet == at = "done" => Merged(file) = file

\* However a run dies, what it read is still on the disk, as the file or as its
\* .bak (replaceFile copies before it writes).
NothingLost == at = "dead" => existing \in {file, bak, NoFile}
=============================================================================
