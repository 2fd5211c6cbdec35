---------------------------- MODULE CommandReads ----------------------------
(***************************************************************************)
(* Which commands are reads, which run without anyone's approval           *)
(* (classifyCommand, readOnlyCall and gitReadOnly in packages/policy-core/ *)
(* src/index.ts), against what the programs do with their arguments.       *)
(*                                                                         *)
(* A command is spelled one argument at a time. An argument is one of a    *)
(* few forms; what a program makes of it is external: git's option parser, *)
(* of any version, and what rg and npm run.                                *)
(***************************************************************************)
EXTENDS Naturals, Sequences, SequencesExt

CONSTANT MaxArgs  \* bound: arguments of a command

VARIABLES
  program,   \* the command's name, in lower case and without its suffix
  qualified, \* whether it is spelled with a path
  args

commandVars == <<program, qualified, args>>

\* One argument of each form a rule tells apart, with what it is.
ValueFlags == {"--format", "--contains"}
ListingFlags == {"-a", "--color"}
Unsafe == {"--output", "--output=x"}
Options == ValueFlags \cup ListingFlags \cup Unsafe \cup
           {"-l", "--list", "-c", "-D", "--", "--color=x", "--format=x"}
NetworkPaths == {"//host/x"}         \* a path some program would open
Separators == NetworkPaths \cup {"a//b"}  \* two separators, anywhere
Arguments ==
  [git |-> Options \cup {"status", "branch", "tag", "add", "push", "x"},
   rg  |-> {"x", "--pre", "-z", "-L"} \cup Separators,
   cat |-> {"x"} \cup Separators,
   npm |-> {"test", "install", "-x"},
   curl |-> {"x"},
   node |-> {"x"} \cup Separators]
Programs == DOMAIN Arguments

Init == program \in Programs /\ qualified \in BOOLEAN /\ args = <<>>

Spell(arg) ==
  /\ Len(args) < MaxArgs /\ args' = Append(args, arg)
  /\ UNCHANGED <<program, qualified>>

Next == \E arg \in Arguments[program] : Spell(arg)

Spec == Init /\ [][Next]_commandVars

-----------------------------------------------------------------------------
(* The classification *)

ReadOnlyGitActions == {"status", "branch", "tag"}
LocalSubcommands == [git |-> ReadOnlyGitActions \cup {"add"}, npm |-> {"test"}]
PackageManagers == {"npm"}
NetworkCommands == {"curl", "git"}
ReadCommands == {"cat", "rg"}

Local == /\ program \in DOMAIN LocalSubcommands /\ args # <<>>
         /\ Head(args) \in LocalSubcommands[program]

Traits ==
  (CASE Local -> {}
     [] ~Local /\ program \in PackageManagers -> {"package-install", "network"}
     [] ~Local /\ program \in NetworkCommands -> {"network"}
     [] OTHER -> {})
  \cup (IF \E i \in DOMAIN args : args[i] \in NetworkPaths THEN {"network"} ELSE {})

\* The loop over a listing's arguments, as git's parser splits them: an option
\* that takes a value takes the next argument, whatever it looks like.
Scan(subcommand, rest) ==
  LET Step(s, arg) ==
        CASE s.skip -> [s EXCEPT !.skip = FALSE]
          [] ~s.skip /\ (arg = "--list" \/ (arg = "-l" /\ subcommand = "tag")) -> [s EXCEPT !.listing = TRUE]
          [] ~s.skip /\ ((arg = "-l" /\ subcommand # "tag") \/ arg \in ListingFlags \cup {"--color=x", "--format=x"}) -> s
          [] ~s.skip /\ arg \in ValueFlags -> [s EXCEPT !.skip = TRUE]
          [] ~s.skip /\ arg \in {"-c", "-D", "--"} -> [s EXCEPT !.refused = TRUE]
          [] OTHER -> [s EXCEPT !.names = TRUE]
  IN FoldLeft(Step, [skip |-> FALSE, listing |-> FALSE, refused |-> FALSE, names |-> FALSE], rest)

GitReadOnly ==
  /\ args # <<>> /\ Head(args) \in ReadOnlyGitActions
  /\ \A i \in DOMAIN args : args[i] \notin Unsafe
  /\ Head(args) \in {"branch", "tag"} =>
       LET s == Scan(Head(args), Tail(args))
       IN ~s.refused /\ (s.listing \/ ~s.names)

ReadOnlyCall ==
  /\ ~qualified
  /\ \A i \in DOMAIN args : args[i] \notin Separators
  /\ program = "git" => GitReadOnly
  /\ program = "rg" => \A i \in DOMAIN args : args[i] \notin {"--pre", "-z", "-L"}

IsRead == program \in ReadCommands \cup {"git"} /\ ReadOnlyCall

-----------------------------------------------------------------------------
(* What the programs do *)

\* `git branch` and `git tag`: an option's value, then `--`, then names; a name
\* without a listing is created. In old versions `-l` lists no branches, and a
\* filter lists nothing by itself.
GitLists(subcommand, rest) ==
  LET Parse(s, arg) ==
        CASE s.value -> [s EXCEPT !.value = FALSE]
          [] ~s.value /\ ~s.ended /\ arg = "--" -> [s EXCEPT !.ended = TRUE]
          [] ~s.value /\ ~s.ended /\ arg \in ValueFlags -> [s EXCEPT !.value = TRUE]
          [] ~s.value /\ ~s.ended /\ arg = "-D" -> [s EXCEPT !.deletes = TRUE]
          [] ~s.value /\ ~s.ended /\ (arg = "--list" \/ (arg = "-l" /\ subcommand = "tag")) ->
               [s EXCEPT !.listing = TRUE]
          [] ~s.value /\ (s.ended \/ arg \notin Options) -> [s EXCEPT !.names = TRUE]
          [] OTHER -> s
      end == FoldLeft(Parse, [value |-> FALSE, ended |-> FALSE, deletes |-> FALSE,
                              listing |-> FALSE, names |-> FALSE], rest)
  IN ~end.deletes /\ (end.listing \/ ~end.names)

\* git takes an option before its subcommand as one that may run anything.
MayChange ==
  \/ qualified
  \/ program \in {"npm", "curl", "node"}
  \/ program = "rg" /\ \E i \in DOMAIN args : args[i] \in {"--pre", "-z"}
  \/ /\ program = "git" /\ args # <<>>
     /\ \/ Head(args) \in Options \cup {"add", "push"}
        \/ \E i \in DOMAIN args : args[i] \in Unsafe /\ Head(args) \in ReadOnlyGitActions
        \/ Head(args) \in {"branch", "tag"} /\ ~GitLists(Head(args), Tail(args))

\* Reaches another host by itself, or opens a path on one.
Reaches ==
  \/ program = "curl"
  \/ program = "npm" /\ (args = <<>> \/ Head(args) # "test")
  \/ program = "git" /\ args # <<>> /\ Head(args) \in Options \cup {"push"}
  \/ \E i \in DOMAIN args : args[i] \in NetworkPaths

-----------------------------------------------------------------------------
(* Properties *)

TypeOK == program \in Programs /\ args \in Seq(Arguments[program]) /\ Len(args) <= MaxArgs

\* What runs without approval changes nothing, and what may reach another host
\* says so, for every way of spelling the call: an option before the
\* subcommand, an option's value that looks like another option, a name after
\* a listing's own (classifyCommand, readOnlyCall, gitReadOnly).
ReadsOnlyRead == (IsRead => ~MayChange) /\ (Reaches => "network" \in Traits)
=============================================================================
