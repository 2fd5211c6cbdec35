------------------------------- MODULE MCRules -------------------------------
(***************************************************************************)
(* The rules that decide about a task and what keeps its effect inside     *)
(* them: which commands are reads, what a policy makes of a request, how   *)
(* what needs a person is approved, what a pattern covers, what a verifier *)
(* answers of an effect, the workspace's file tree over a sequence of      *)
(* calls, one read or write of a file while another process swaps links,   *)
(* the windows a page opens, and the browser behind its guards. No state   *)
(* is shared between them: `part` says which one a behaviour is of, and    *)
(* the others stay where they start.                                       *)
(***************************************************************************)
EXTENDS Approvals, Sequences, TLC

CONSTANTS
  c1, c2, rd,
  MaxArgs, NoName, MaxEdits, Nothing, MaxChanges,
  MaxCalls, NoWindow, MaxWindows, MaxActions,
  Letters, MaxValue, MaxPattern, MaxStarts

VARIABLES
  part,
  program, qualified, args,
  policy, request, edits,
  folds, at, inode, operation, disturbed, changes, provider,
  tree, calls,
  mac, folder, entry, whole, file, spelled, filled, temporary, reads, writes, fileChanges,
  changedSince,
  attached, block, session, acting, actions, actingTarget, drivenTarget, window, ownTargets,
  createdActing, owed, lapsing, judging, popups, returned,
  value, pattern,
  cdp, unhinged, replay, browsers, proxies, proxy, connection, context, setup, mine, close,
  closes, starts, overlapped

-----------------------------------------------------------------------------
(* The workspaces: a git directory, MELRA's data below the root (`s`), a      *)
(* harness's folder `c` with its configuration `s`, and links a person made. *)

Names == {"git", "a", "c", "s"}
Git == "git"
Outside == ".."
Config == <<"c", "s">>
Key == <<"s", "a">>

ByPerson(kind, to) == [kind |-> kind, to |-> to, by |-> "person"]
Folder == ByPerson("dir", <<>>)
File == ByPerson("file", <<>>)
Link(to) == ByPerson("link", to)

Workspace(made) ==
  made @@ (<<"git">> :> Folder) @@ (<<"git", "s">> :> File)
       @@ (<<"s">> :> Folder) @@ (<<"s", "a">> :> File) @@ (<<"a">> :> Folder)
       @@ [p \in UNION {[1..n -> Names] : n \in 1..2} |->
             [kind |-> "absent", to |-> <<>>, by |-> "nobody"]]

Trees ==
  { \* the harness's folder is its own,
    Workspace((<<"c">> :> Folder) @@ (<<"c", "s">> :> File)),
    \* a link to another of the workspace,
    Workspace(<<"c">> :> Link(<<"a">>)),
    \* one with a link to it, beside a link that leads out,
    Workspace((<<"c">> :> Folder) @@ (<<"c", "s">> :> File)
              @@ (<<"a", "a">> :> Link(<<"c">>)) @@ (<<"a", "s">> :> Link(<<"..">>))),
    \* or its configuration is a link, beside one to the git directory.
    Workspace((<<"c">> :> Folder) @@ (<<"c", "s">> :> Link(<<"a", "s">>))
              @@ (<<"a", "s">> :> File) @@ (<<"a", "a">> :> Link(<<"git">>))) }

\* A process in enforced mode, whose challenges live longer, and one in developer
\* mode, whose policy denies the change c2.
DevDenies == [p \in Procs |-> IF p \in Enforced THEN {} ELSE {c2}]
Lifetimes == [p \in Procs |-> IF p \in Enforced THEN 2 ELSE 1]

Commands == INSTANCE CommandReads
Policy == INSTANCE PolicyRules
Verify == INSTANCE Verification WITH kind <- inode
Tree == INSTANCE FileTree
Writes == INSTANCE FileWrites
Windows == INSTANCE BrowserWindows
Wildcard == INSTANCE Wildcards
Session == INSTANCE BrowserSession WITH step <- setup

ASSUME RulesAssumption == Windows!WindowsAssumption

commandPart == <<program, qualified, args>>
policyPart == <<policy, request, edits>>
verifyPart == <<folds, at, inode, operation, disturbed, changes, provider>>
treePart == <<tree, calls>>
writesPart == <<mac, folder, entry, whole, file, spelled, filled, temporary, reads, writes,
                fileChanges, changedSince>>
windowsPart == <<attached, block, session, acting, actions, actingTarget, drivenTarget, window, ownTargets,
                 createdActing, owed, lapsing, judging, popups, returned>>
wildcardPart == <<value, pattern>>
sessionPart == <<cdp, unhinged, replay, browsers, proxies, proxy, connection, context, setup, mine,
                 close, closes, starts, overlapped>>
firstParts == <<commandPart, policyPart, verifyPart>>
otherParts == <<treePart, writesPart, windowsPart, wildcardPart, sessionPart>>
rulesVars == <<part, vars, firstParts, otherParts>>

\* Of the parts that stay, one of their initial states is enough.
RulesInit ==
  /\ part \in {"approvals", "commands", "policy", "verify", "tree", "writes", "windows",
              "wildcard", "session"}
  /\ Init
  /\ Commands!Init
  /\ part # "commands" => program = "cat" /\ ~qualified
  /\ IF part = "policy" THEN Policy!Init
     ELSE /\ policy = CHOOSE p \in Policy!Loosest : TRUE
          /\ request = CHOOSE q \in Policy!Request : TRUE
          /\ edits = 0
  /\ IF part = "verify" THEN Verify!Init
     ELSE /\ folds = FALSE /\ at = [p \in Verify!Paths |-> Nothing]
          /\ inode = [i \in Verify!Inodes |-> [is |-> "file", holds |-> "other"]]
          /\ operation = Nothing /\ disturbed = FALSE /\ changes = 0 /\ provider = Nothing
  /\ IF part = "writes" THEN Writes!Init
     ELSE /\ mac = TRUE /\ folder = "own" /\ entry = [d \in Writes!Directories |-> CHOOSE k \in Writes!Kinds : k.kind = "file"]
          /\ whole = <<>> /\ file = <<>> /\ spelled = "d" /\ filled = FALSE /\ temporary = {}
          /\ reads = {} /\ writes = {} /\ fileChanges = 0 /\ changedSince = FALSE
  /\ IF part = "tree" THEN Tree!Init ELSE tree = Workspace(<<>>) /\ calls = 0
  /\ Wildcard!Init
  /\ Windows!Init
  /\ part # "windows" => ~attached /\ ~block /\ ~session
  /\ Session!Init
  /\ part # "session" => ~cdp /\ ~unhinged /\ ~replay

RulesNext ==
  \/ part = "approvals" /\ Next /\ UNCHANGED <<part, firstParts, otherParts>>
  \/ part = "commands" /\ Commands!Next /\ UNCHANGED <<part, vars, policyPart, verifyPart, otherParts>>
  \/ part = "policy" /\ Policy!Next /\ UNCHANGED <<part, vars, commandPart, verifyPart, otherParts>>
  \/ part = "verify" /\ Verify!Next /\ UNCHANGED <<part, vars, commandPart, policyPart, otherParts>>
  \/ part = "tree" /\ Tree!Next /\ UNCHANGED <<part, vars, firstParts, writesPart, windowsPart, wildcardPart, sessionPart>>
  \/ part = "writes" /\ Writes!Next /\ UNCHANGED <<part, vars, firstParts, treePart, windowsPart, wildcardPart, sessionPart>>
  \/ part = "windows" /\ Windows!Next /\ UNCHANGED <<part, vars, firstParts, treePart, writesPart, wildcardPart, sessionPart>>
  \/ part = "wildcard" /\ Wildcard!Next /\ UNCHANGED <<part, vars, firstParts, treePart, writesPart, windowsPart, sessionPart>>
  \/ part = "session" /\ Session!Next /\ UNCHANGED <<part, vars, firstParts, treePart, writesPart, windowsPart, wildcardPart>>

RulesSpec == RulesInit /\ [][RulesNext]_rulesVars

\* What is told apart of a state: the variables of its part, the others standing
\* where they started. Of a task that is over, and of a change that runs, neither
\* its challenge nor its decision is read again by an action; what the properties
\* read of them was checked before, but for how a running one was started. Nor is
\* anything read of a window that went before it was handed over, or of what tells
\* whose a new window is once the last is there, but whether one is still to be
\* adopted.
Over(t) == row[t].status \in {"cancelled", "policy_blocked"} \/ (row[t].status = "running" /\ t \in Changes)
Stands == [w \in Windows!Windows |->
            IF window[w].at = "gone" /\ window[w].closedBy = "others" THEN "gone" ELSE window[w]]
Unjudged(w) == window[w].at = "created" \/ \E j \in judging : j.window = w
Telling ==
  IF \E w \in Windows!Windows : window[w].at = "absent"
  THEN <<acting, actingTarget, drivenTarget, ownTargets, createdActing>>
  ELSE <<IF acting = "drives" THEN "reads" ELSE acting,
         {w \in ownTargets \cup createdActing : Unjudged(w)}>>
Distinct ==
  CASE part = "approvals" ->
         <<part, now, denials, turn, starting, EnforcedRunsOnOperator,
           [t \in Tasks |-> IF Over(t) THEN row[t].status ELSE <<row[t], decision[t]>>]>>
    [] part = "windows" ->
         <<part, attached, block, session, actions, Telling, Stands, owed, lapsing, judging,
           popups, returned>>
    [] part = "session" -> <<part, sessionPart>>
    [] part = "writes" -> <<part, writesPart>>
    [] OTHER -> <<part, firstParts, treePart, wildcardPart>>

\* Every variable of each part keeps its type.
RulesTypeOK ==
  /\ part = "commands" => Commands!TypeOK
  /\ part = "policy" => Policy!TypeOK
  /\ part = "verify" => Verify!TypeOK
  /\ part = "tree" => Tree!TypeOK
  /\ part = "writes" => Writes!TypeOK
  /\ part = "windows" => Windows!TypeOK
  /\ part = "session" => Session!TypeOK

(* The properties of the parts: each is stated and explained in its part's *)
(* module.                                                                 *)

\* Nothing but a read runs unasked, save a stop that carries the command of a
\* read, and a command that counts as a read is one (evaluatePolicy,
\* classifyCommand).
NothingRunsUnasked ==
  /\ part = "commands" => Commands!ReadsOnlyRead
  /\ part = "policy" => Policy!NothingBeyondItsLimits

\* A stricter policy lets nothing through that the one before stopped
\* (evaluatePolicy).
TighteningNeverLoosens == [][part = "policy" => Policy!NothingLoosens]_policyPart

\* A check that passes is so, one that is denied is not, an effect nothing
\* disturbed passes its own, and a pattern of a check or a grant covers what it
\* means (kernelChecksFor, httpResourceMatches, wildcardMatch).
ChecksAreTrue ==
  /\ part = "verify" => /\ Verify!DoneIsVerified /\ Verify!VerifiedIsSo
                        /\ Verify!AnswersAreTheProviders
  /\ part = "wildcard" => Wildcard!MatchesAsMeant

\* Git and an agent's harness never find what an effect wrote, and no read or
\* write leaves the workspace, or is torn, whatever is swapped in between; but on
\* Linux a write keeps to its check by name only while nothing is swapped in.
EffectsStayInside ==
  /\ part = "tree" => Tree!ProtectedStaysAPersons
  /\ part = "writes" => Writes!StaysInside /\ Writes!WholeOrNothing

\* An action tells of every window its page opened, once, and closes none that
\* Chromium tells to be the operator's, a browser acts only behind its guards, and
\* none is left behind (Target.targetCreated, adoptable, ensureContext, close).
BrowserIsKept ==
  /\ part = "windows" => Windows!WindowsAreReported /\ Windows!OperatorsWindowsStay
  /\ part = "session" => Session!ActsGuarded /\ Session!NothingLeftBehind
=============================================================================
