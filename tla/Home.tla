-------------------------------- MODULE Home --------------------------------
(***************************************************************************)
(* Starting a process over a data directory (createMelraRuntime and        *)
(* homeCipher in packages/server/src/runtime.ts, loadPayloadKey in         *)
(* payload-key.ts): what the options, the environment and the policy file  *)
(* ask for is refused or served, and the key payloads are sealed under is  *)
(* read, minted or refused. With what sandbox commands then run is settled *)
(* from the same choices and left out but for the refusals: even enforced  *)
(* mode serves without one where none works and the policy file says       *)
(* "if-available".                                                         *)
(*                                                                         *)
(* Several processes start at once; a step of a start ends where it reads  *)
(* or writes what they share: the database and the key file. The links a   *)
(* start adds for records left unsealed are RecordStore's; the key they    *)
(* are made with is the payloads'.                                         *)
(***************************************************************************)
EXTENDS Naturals, FiniteSets

CONSTANTS
  Processes,
  Plain,       \* those started with nothing set
  OwnKey,      \* the key an operator may set in MELRA_PAYLOAD_KEY
  NoKey,
  Together,    \* the variable is changed only while no process runs
  MaxLosses,   \* bound: times the key file is lost
  MaxChanges   \* bound: times the variable is set or unset

HomeAssumption ==
  OwnKey # NoKey /\ {OwnKey, NoKey} \cap Processes = {} /\ Plain \subseteq Processes

\* The key a process's random bytes make, which no other's do.
Fresh(p) == p

VARIABLES
  keyFile,    \* payload.key, or NoKey
  sealedWith, \* keys of the payloads stored
  process,    \* per process: how far its start is, what it saw and holds
  environment, \* MELRA_PAYLOAD_KEY, or NoKey
  losses, changes

homeVars == <<keyFile, sealedWith, process, environment, losses, changes>>

Uses == {"unset", "on", "off", "if-available"}

\* What a start is given: by its options or environment, by the policy file,
\* and how the workspace lies to the data directory, the browser's profile and
\* the other files secrets are read from.
Layouts == {{}, {"inside data"}, {"inside profile"}}
             \cup (SUBSET {"holds data", "holds a secret"} \ {{}})
Settings ==
  [enforced : BOOLEAN, fileEnforced : BOOLEAN, unsafe : BOOLEAN, fileUnsafe : BOOLEAN,
   layout : Layouts, use : Uses, sandboxWorks : BOOLEAN]

Given(p) ==
  IF p \notin Plain THEN Settings
  ELSE [enforced : {FALSE}, fileEnforced : {FALSE}, unsafe : {FALSE}, fileUnsafe : {FALSE},
        layout : {{}}, use : {"unset"}, sandboxWorks : BOOLEAN]

\* The strictest of the channels, for the mode; the loosest, for unsafe-local.
Enforced(s) == s.enforced \/ s.fileEnforced
Unhinged(s) == s.unsafe \/ s.fileUnsafe

\* Under unsafe-local the runtimes are rooted at the filesystem's root, which
\* holds everything.
HoldsData(s) == "holds data" \in s.layout \/ Unhinged(s)
HoldsSecret(s) == "holds a secret" \in s.layout \/ Unhinged(s)

SandboxUse(s) ==
  CASE Unhinged(s) -> "off"
    [] ~Unhinged(s) /\ s.use # "unset" -> s.use
    [] OTHER -> IF Enforced(s) THEN "on" ELSE "if-available"

\* assertEnforceable, before the database is opened.
NotEnforceable(s) == Enforced(s) /\ Unhinged(s)

\* The refusals after the key and the chain, in the order they are made.
LayoutRefused(s) ==
  \/ s.layout \cap {"inside data", "inside profile"} # {}
  \/ Enforced(s) /\ (HoldsData(s) \/ HoldsSecret(s))
  \/ Enforced(s) /\ SandboxUse(s) = "off"
  \/ SandboxUse(s) = "on" /\ ~s.sandboxWorks

Off == [at |-> "off"]

Init ==
  /\ keyFile = NoKey /\ sealedWith = {} /\ losses = 0 /\ changes = 0
  /\ environment \in {NoKey, OwnKey}
  /\ process = [p \in Processes |-> Off]

\* The database is opened and asked for a payload sealed there: by a process
\* that will serve, or by one that only reads and mints no key.
Start(p, s, mint) ==
  /\ process[p] = Off /\ (mint => ~NotEnforceable(s))
  /\ \E sample \in IF sealedWith = {} THEN {NoKey} ELSE sealedWith :
       process' = [process EXCEPT ![p] =
         [at |-> "loading", given |-> environment, mint |-> mint, sample |-> sample,
          serves |-> mint /\ ~LayoutRefused(s)]]
  /\ UNCHANGED <<keyFile, sealedWith, environment, losses, changes>>

At(p, where) == process[p].at = where

\* homeCipher: a key that does not open what was found is refused, and so is
\* a workspace the mode does not allow. A command that only reads ends there.
Checked(p, key) ==
  IF process[p].sample \notin {NoKey, key} \/ ~process[p].serves THEN Off
  ELSE [at |-> "serving", key |-> key]

Finish(p, key) == process' = [process EXCEPT ![p] = Checked(p, key)]

\* A key in the environment is used whatever the file holds.
UseEnvironment(p) ==
  /\ At(p, "loading") /\ process[p].given # NoKey
  /\ Finish(p, process[p].given)
  /\ UNCHANGED <<keyFile, sealedWith, environment, losses, changes>>

\* Payloads are sealed already, or none may be minted: the file's, or
\* payload_key_missing.
ReadKey(p) ==
  /\ At(p, "loading") /\ process[p].given = NoKey
  /\ process[p].sample # NoKey \/ ~process[p].mint
  /\ IF keyFile = NoKey THEN process' = [process EXCEPT ![p] = Off] ELSE Finish(p, keyFile)
  /\ UNCHANGED <<keyFile, sealedWith, environment, losses, changes>>

\* variant: the key file is written over
MintOver(p) ==
  /\ At(p, "loading") /\ process[p].given = NoKey
  /\ process[p].sample = NoKey /\ process[p].mint
  /\ keyFile' = Fresh(p) /\ Finish(p, Fresh(p))
  /\ UNCHANGED <<sealedWith, environment, losses, changes>>

\* A fresh key is linked into place whole; when one is there first, that one
\* is read instead, in a step of its own.
MintKey(p) ==
  /\ At(p, "loading") /\ process[p].given = NoKey
  /\ process[p].sample = NoKey /\ process[p].mint
  /\ IF keyFile = NoKey
     THEN keyFile' = Fresh(p) /\ Finish(p, Fresh(p))
     ELSE keyFile' = keyFile /\ process' = [process EXCEPT ![p].at = "reading"]
  /\ UNCHANGED <<sealedWith, environment, losses, changes>>

ReadMinted(p) ==
  /\ At(p, "reading")
  /\ IF keyFile = NoKey THEN process' = [process EXCEPT ![p] = Off] ELSE Finish(p, keyFile)
  /\ UNCHANGED <<keyFile, sealedWith, environment, losses, changes>>

\* A task or a workflow is stored, under the process's key.
Seal(p) ==
  /\ At(p, "serving")
  /\ sealedWith' = sealedWith \cup {process[p].key}
  /\ UNCHANGED <<keyFile, process, environment, losses, changes>>

\* It ends, at any time; so does a start whose key file is a link, open to
\* others or no key, and one whose variable holds none.
Stop(p) ==
  /\ process[p] # Off
  /\ process' = [process EXCEPT ![p] = Off]
  /\ UNCHANGED <<keyFile, sealedWith, environment, losses, changes>>

\* The key file is lost, from a home that holds payloads and while nothing
\* starts: of one that holds none nothing says it had a key. Or it is put back,
\* from a backup of a file those payloads were sealed under.
LoseKey ==
  /\ losses < MaxLosses /\ keyFile # NoKey /\ sealedWith # {}
  /\ \A p \in Processes : At(p, "off") \/ At(p, "serving")
  /\ keyFile' = NoKey /\ losses' = losses + 1
  /\ UNCHANGED <<sealedWith, process, environment, changes>>
RestoreKey ==
  /\ keyFile = NoKey /\ losses > 0
  /\ keyFile' \in sealedWith
  /\ UNCHANGED <<sealedWith, process, environment, losses, changes>>

ChangeEnvironment ==
  /\ changes < MaxChanges /\ changes' = changes + 1
  /\ Together => \A p \in Processes : At(p, "off")
  /\ environment' \in {NoKey, OwnKey} \ {environment}
  /\ UNCHANGED <<keyFile, sealedWith, process, losses>>

Next ==
  \/ \E p \in Processes : \E s \in Given(p), mint \in BOOLEAN : Start(p, s, mint)
  \/ \E p \in Processes :
       UseEnvironment(p) \/ ReadKey(p) \/ MintKey(p) \/ ReadMinted(p) \/ Seal(p) \/ Stop(p)
  \/ LoseKey
  \/ RestoreKey
  \/ ChangeEnvironment

Spec == Init /\ [][Next]_homeVars

-----------------------------------------------------------------------------
(* Properties *)

HeldKeys == {process[p].key : p \in {q \in Processes : At(q, "serving")}}
TypeOK ==
  /\ losses \in 0..MaxLosses /\ changes \in 0..MaxChanges
  /\ \A p \in Processes : process[p].at \in {"off", "loading", "reading", "serving"}

\* Every payload of a home opens under the key of every process serving it:
\* starts at one moment end with one key, a start never mints a second beside
\* sealed payloads, and a lost key file stops starts rather than splitting the
\* home (homeCipher, loadPayloadKey).
OneKey == Cardinality(HeldKeys \cup sealedWith) <= 1
=============================================================================
