------------------------------ MODULE MCServer ------------------------------
(***************************************************************************)
(* What a server keeps beside its tasks: the record chain, memory, the     *)
(* OAuth register, its HTTP sessions and pages, its start over a home, its *)
(* MCP callers, and the entry it puts into a client's configuration.       *)
(* No state is shared between them, so they are checked side by side:      *)
(* `part` says which one a behaviour is of, and the others stay where they *)
(* start. The chain is checked twice, without and with edits of its file.  *)
(***************************************************************************)
EXTENDS TLC, Sequences

CONSTANTS
  Stores, Old, RecordKeys, Certs, Batch, None, Edited, MaxStarts, MaxDamage,
  Clients, MemoryIds, Scopes, Never, NoMemory, MaxAge, MaxPerScope, MaxDay,
  Servers, Operators, ClientSlots, TokenSlots, Unlocked, Dead, MaxClients,
  MaxApprovals, MaxRevokes, MaxDeaths, MaxFailures,
  HttpCallers, Operator, Strangers, Pages, Unpaired, Left, MaxSessions, MaxOpened, MaxRequests,
  Starters, Plain, OwnKey, NoKey, Together, MaxLosses, MaxChanges,
  agent, Unknown, McpSessions, Closed, NoPlanner, NoId, NoBucket,
  MaxChain, MaxCallsPerMinute, MaxPlanned, MaxTicks,
  MaxLines, MaxMembers, MaxRuns, NoFile, NotMerged

VARIABLES
  part,
  migrated, open, keyed, pending, row, current, chain, kept, listed, unsealed, starts, damage,
  memories, today, compacting, lapsed,
  register, state, lock, stale, update, codes, given, ended, minted, writes, revokes, deaths,
  failures,
  server, sessions, requests, opened, session, deciding, deciders, crowded,
  keyFile, sealedWith, process, environment, losses, changes,
  mcpSession, bucket, tasks, runs, served, acted, now, mcpStarts,
  form, file, bak, at, existing, next, setups

Chain == INSTANCE RecordStore WITH Keys <- RecordKeys, Aborting <- {}, MaxDamage <- 0
Edits == INSTANCE RecordStore WITH Aborting <- {}, Keys <- {}
Memory == INSTANCE Memory WITH Ids <- MemoryIds
SignIn == INSTANCE OAuth
Http == INSTANCE HttpServer WITH Callers <- HttpCallers
Home == INSTANCE Home WITH Processes <- Starters
\* A request names another agent, or the caller's own name above it; a workflow
\* has a plain step and a parallel one, each with a request that names another.
Mcp == INSTANCE McpServer WITH
  Clients <- {agent}, Sessions <- McpSessions, session <- mcpSession, starts <- mcpStarts,
  Declarations <- {<<Unknown>>, <<agent, Unknown>>},
  Definitions <- {[n \in {"step", "both"} |->
                     [kind |-> IF n = "step" THEN "operation" ELSE "parallel", requests |-> << <<Unknown>> >>]]}
Setup == INSTANCE ClientConfigs WITH runs <- setups, Refused <- NotMerged

ASSUME ServerAssumption ==
  /\ Chain!RecordAssumption /\ Edits!RecordAssumption /\ Memory!MemoryAssumption
  /\ SignIn!OAuthAssumption /\ Http!HttpAssumption /\ Home!HomeAssumption
  /\ Mcp!McpAssumption

chainPart == <<migrated, open, keyed, pending, row, current, chain, kept, listed, unsealed, starts, damage>>
memoryPart == <<memories, today, compacting, lapsed>>
signInPart == <<register, state, lock, stale, update, codes, given, ended, minted, writes, revokes, deaths, failures>>
httpPart == <<server, sessions, requests, opened, session, deciding, deciders, crowded>>
homePart == <<keyFile, sealedWith, process, environment, losses, changes>>
mcpPart == <<mcpSession, bucket, tasks, runs, served, acted, now, mcpStarts>>
setupPart == <<form, file, bak, at, existing, next, setups>>
serverVars == <<part, chainPart, memoryPart, signInPart, httpPart, homePart, mcpPart, setupPart>>

\* Of the parts that stay, one of their initial states is enough.
Init ==
  /\ part \in {"chain", "edits", "memory", "sign-in", "http", "home", "mcp", "setup"}
  /\ IF part = "edits" THEN Edits!Init ELSE Chain!Init
  /\ Memory!Init /\ SignIn!Init /\ Http!Init /\ Home!Init
  /\ Mcp!Init /\ Setup!Init
  /\ part # "http" => server = [console |-> TRUE, oauth |-> FALSE]
  /\ part # "home" => environment = NoKey
  /\ part # "setup" => form = "toml"

Next ==
  \/ part = "chain" /\ Chain!Next /\ UNCHANGED <<part, memoryPart, signInPart, httpPart, homePart, mcpPart, setupPart>>
  \/ part = "edits" /\ Edits!Next /\ UNCHANGED <<part, memoryPart, signInPart, httpPart, homePart, mcpPart, setupPart>>
  \/ part = "memory" /\ Memory!Next /\ UNCHANGED <<part, chainPart, signInPart, httpPart, homePart, mcpPart, setupPart>>
  \/ part = "sign-in" /\ SignIn!Next /\ UNCHANGED <<part, chainPart, memoryPart, httpPart, homePart, mcpPart, setupPart>>
  \/ part = "http" /\ Http!Next /\ UNCHANGED <<part, chainPart, memoryPart, signInPart, homePart, mcpPart, setupPart>>
  \/ part = "home" /\ Home!Next /\ UNCHANGED <<part, chainPart, memoryPart, signInPart, httpPart, mcpPart, setupPart>>
  \/ /\ part = "mcp" /\ Mcp!Next
     /\ UNCHANGED <<part, chainPart, memoryPart, signInPart, httpPart, homePart, setupPart>>
  \/ /\ part = "setup" /\ Setup!Next
     /\ UNCHANGED <<part, chainPart, memoryPart, signInPart, httpPart, homePart, mcpPart>>

Spec == Init /\ [][Next]_serverVars

\* Two stores of this version are alike, and so are the ids of records.
Symmetry == Permutations(Stores \ Old) \cup Permutations(MemoryIds)

TypeOK ==
  /\ part = "chain" => Chain!TypeOK
  /\ part = "edits" => Edits!TypeOK
  /\ part = "memory" => Memory!TypeOK
  /\ part = "sign-in" => SignIn!TypeOK
  /\ part = "http" => Http!TypeOK
  /\ part = "home" => Home!TypeOK
  /\ part = "mcp" => Mcp!TypeOK
  /\ part = "setup" => Setup!TypeOK

(* The properties of the parts: each is stated and explained in its part's *)
(* module.                                                                 *)

\* Sweeps beside writers leave a chain that verifies and misses no record, a
\* chain that verifies against a kept head shows what was sealed then, a
\* corrected memory is never lost while its correction lives, and a client's
\* configuration gains its entry and loses nothing.
RecordsHold ==
  /\ part = "chain" => Chain!ChainIsWhole
  /\ part \in {"chain", "edits"} => (IF part = "chain" THEN Chain!KeptHeadHolds ELSE Edits!KeptHeadHolds)
  /\ part = "memory" => Memory!MemorySafe
  /\ part = "setup" => Setup!KeepsTheRest /\ Setup!RerunIsQuiet /\ Setup!NothingLost

\* A finished revoke holds and a holder of a token keeps its registration, no
\* session is ended while it serves, and a caller acts on its own tasks, under
\* its own name and within its own rate, over any number of sessions.
CallersKeepApart ==
  /\ part = "sign-in" => SignIn!RegisterSafe
  /\ part = "http" => Http!ServingIsKept
  /\ part = "mcp" => Mcp!ActsOnItsOwn /\ Mcp!NamesItsCaller /\ Mcp!RateHolds

\* Every payload of a home opens under every serving process's key.
HomeHolds == part = "home" => Home!OneKey

\* The session map comes back to its cap.
BackToTheCap == Http!BackToTheCap
=============================================================================
