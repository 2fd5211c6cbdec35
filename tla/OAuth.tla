------------------------------- MODULE OAuth -------------------------------
(***************************************************************************)
(* The client register of packages/server/src/oauth.ts: clients register   *)
(* themselves, the operator approves one, its code is redeemed once for a  *)
(* token, and `melra clients --revoke`, another process, takes the tokens  *)
(* and the approval back. The register is one file that every process      *)
(* reads again when it changed, and rewrites under a lock file.            *)
(*                                                                         *)
(* An update is three steps: the lock, the change and the temporary file,  *)
(* and the rename with the lock's release. Secrets (codes, verifiers,      *)
(* tokens) are names; an approval is known by its number, for its time.    *)
(***************************************************************************)
EXTENDS Naturals, Sequences, FiniteSets, SequencesExt, Sublists

CONSTANTS
  Servers,     \* processes that serve the sign-in routes
  Operators,   \* processes of `melra clients --revoke`
  ClientSlots, \* MAX_CLIENTS
  TokenSlots,  \* MAX_TOKENS
  Unlocked, Dead,  \* the lock file: absent, or left by a process that is gone
  MaxClients,  \* bound: registrations
  MaxApprovals,\* bound: approvals
  MaxRevokes,  \* bound: revokes
  MaxDeaths,   \* bound: processes that die inside an update
  MaxFailures  \* bound: temporary files that cannot be written

Processes == Servers \cup Operators

OAuthAssumption ==
  /\ Servers \cap Operators = {} /\ Unlocked \notin Processes /\ Dead \notin Processes
  /\ Unlocked # Dead /\ ClientSlots \in Nat \ {0} /\ TokenSlots \in Nat \ {0}

VARIABLES
  register,  \* oauth.json: clients in order, tokens in order, and its version
  state,     \* per process: its copy of the file, and the version it came from
  lock,      \* oauth.json.lock
  stale,     \* processes that have judged the lock file abandoned
  update,    \* per process: the update it is in, or Idle
  codes,     \* per server: codes given out and not redeemed
  given,     \* history: approvals made, each with its client
  ended,     \* history: approvals a finished revoke took back
  minted, writes, revokes, deaths, failures

oauthVars == <<register, state, lock, stale, update, codes, given, ended,
               minted, writes, revokes, deaths, failures>>

NoApproval == 0
Update(op, client, approval, clients) ==
  [op |-> op, client |-> client, approval |-> approval, clients |-> clients,
   stage |-> "waiting", ends |-> {}]
Idle == Update("idle", 0, NoApproval, {})
Empty == [clients |-> <<>>, tokens |-> <<>>]

Init ==
  /\ register = [content |-> Empty, version |-> 0]
  /\ state = [p \in Processes |-> register]
  /\ lock = Unlocked /\ stale = {}
  /\ update = [p \in Processes |-> Idle]
  /\ codes = [s \in Servers |-> {}]
  /\ given = {} /\ ended = {}
  /\ minted = 0 /\ writes = 0 /\ revokes = 0 /\ deaths = 0 /\ failures = 0

\* reload: the file, when something else has written it since.
Reloaded(p) == IF register.version = state[p].version THEN state[p] ELSE register

ClientsOf(content) == {content.clients[i].id : i \in DOMAIN content.clients}
Holding(content) == {content.tokens[i].client : i \in DOMAIN content.tokens}
ApprovalOf(content, id) ==
  LET found == {i \in DOMAIN content.clients : content.clients[i].id = id}
  IN IF found = {} THEN NoApproval ELSE content.clients[CHOOSE i \in found : TRUE].approval

Approve(clients, ids, approval) ==
  [i \in DOMAIN clients |->
     IF clients[i].id \in ids THEN [clients[i] EXCEPT !.approval = approval] ELSE clients[i]]

-----------------------------------------------------------------------------
(* What each update changes; a refused one throws before it changes anything *)

\* register: over the ceiling, the oldest client that holds no token makes
\* room; when that is the new one, it is refused.
RoomFor(content, client) ==
  LET clients == Append(content.clients, client)
      spare == {i \in DOMAIN clients : clients[i].id \notin Holding(content)}
      oldest == CHOOSE i \in spare : \A j \in spare : i <= j
  IN IF Len(clients) <= ClientSlots THEN clients
     ELSE IF oldest = Len(clients) THEN <<>> ELSE RemoveAt(clients, oldest)

LastTokens(tokens) == SubSeq(tokens, 1 + (IF Len(tokens) > TokenSlots THEN Len(tokens) - TokenSlots ELSE 0), Len(tokens))

Refused(u, content) ==
  CASE u.op = "register" -> RoomFor(content, [id |-> u.client, approval |-> NoApproval]) = <<>>
    [] u.op = "decide"   -> u.client \notin ClientsOf(content)
    [] u.op = "token"    -> ApprovalOf(content, u.client) # u.approval
    [] u.op = "revoke"   -> FALSE

\* A revoke keeps the tokens of the other clients.
Changed(u, content) ==
  CASE u.op = "register" ->
         [content EXCEPT !.clients = RoomFor(content, [id |-> u.client, approval |-> NoApproval])]
    [] u.op = "decide" ->
         [content EXCEPT !.clients = Approve(content.clients, {u.client}, u.approval)]
    [] u.op = "token" ->
         [content EXCEPT !.tokens =
            LastTokens(Append(content.tokens, [client |-> u.client, approval |-> u.approval]))]
    [] u.op = "revoke" ->
         [clients |-> Approve(content.clients, u.clients, NoApproval),
          tokens |-> Keeping(content.tokens,
                             {i \in DOMAIN content.tokens : content.tokens[i].client \notin u.clients})]

-----------------------------------------------------------------------------
(* Requests: what a process wants to update, waiting for the lock *)

Ask(p, u) == update[p] = Idle /\ update' = [update EXCEPT ![p] = u]

Register(s) ==
  /\ minted < MaxClients /\ minted' = minted + 1
  /\ Ask(s, Update("register", minted', NoApproval, {}))
  /\ UNCHANGED <<register, state, lock, stale, codes, given, ended, writes, revokes, deaths, failures>>

\* decide resolves the client first, and again under the lock. A denial
\* changes nothing.
Decide(s, client) ==
  /\ Cardinality(given) + Cardinality({p \in Servers : update[p].op = "decide"}) < MaxApprovals
  /\ client \in ClientsOf(Reloaded(s).content)
  /\ state' = [state EXCEPT ![s] = Reloaded(s)]
  /\ Ask(s, Update("decide", client, NoApproval, {}))
  /\ UNCHANGED <<register, lock, stale, codes, given, ended, minted, writes, revokes, deaths, failures>>

\* token: the code is gone whatever happens next; one that is wrong or past
\* its lifetime goes no further.
Token(s, code, good) ==
  /\ code \in codes[s] /\ update[s] = Idle
  /\ codes' = [codes EXCEPT ![s] = @ \ {code}]
  /\ IF good THEN Ask(s, Update("token", code.client, code.approval, {}))
             ELSE UNCHANGED update
  /\ UNCHANGED <<register, state, lock, stale, given, ended, minted, writes, revokes, deaths, failures>>

\* revoke: one client's, or every one there is.
Revoke(o, clients) ==
  /\ revokes < MaxRevokes /\ revokes' = revokes + 1
  /\ Ask(o, Update("revoke", 0, NoApproval, clients))
  /\ UNCHANGED <<register, state, lock, stale, codes, given, ended, minted, writes, deaths, failures>>

-----------------------------------------------------------------------------
(* update *)

Waiting(p) == update[p] # Idle /\ update[p].stage = "waiting"

TakeLock(p) ==
  /\ Waiting(p) /\ p \notin stale /\ lock = Unlocked
  /\ lock' = p
  /\ update' = [update EXCEPT ![p].stage = "locked"]
  /\ UNCHANGED <<register, state, stale, codes, given, ended, minted, writes, revokes, deaths, failures>>

\* The lock file is old, which only a process that died leaves ...
JudgeStale(p) ==
  /\ Waiting(p) /\ lock = Dead
  /\ stale' = stale \cup {p}
  /\ UNCHANGED <<register, state, lock, update, codes, given, ended, minted, writes, revokes, deaths, failures>>

\* ... and the file of that name is removed, whoever's it is by then.
RemoveStale(p) ==
  /\ p \in stale
  /\ stale' = stale \ {p} /\ lock' = Unlocked
  /\ UNCHANGED <<register, state, update, codes, given, ended, minted, writes, revokes, deaths, failures>>

\* Past its deadline a waiter gives up.
GiveUp(p) ==
  /\ Waiting(p) /\ lock # Unlocked
  /\ update' = [update EXCEPT ![p] = Idle] /\ stale' = stale \ {p}
  /\ UNCHANGED <<register, state, lock, codes, given, ended, minted, writes, revokes, deaths, failures>>

\* Reload, change, and the temporary file, whose version the copy takes.
Change(p) ==
  /\ update[p] # Idle /\ update[p].stage = "locked"
  /\ LET now == Reloaded(p)
         u == [update[p] EXCEPT
                 !.stage = "written", !.ends = given,
                 !.approval = IF update[p].op = "decide" THEN Cardinality(given) + 1 ELSE update[p].approval]
     IN IF Refused(u, now.content)
        THEN /\ state' = [state EXCEPT ![p] = now]
             /\ update' = [update EXCEPT ![p] = Idle] /\ lock' = Unlocked
             /\ UNCHANGED <<codes, given, writes, failures>>
        ELSE /\ IF u.op # "decide" THEN UNCHANGED <<codes, given>>
                ELSE LET code == [client |-> u.client, approval |-> u.approval]
                     IN codes' = [codes EXCEPT ![p] = @ \cup {code}] /\ given' = given \cup {code}
             /\ \/ /\ state' = [state EXCEPT ![p] = [content |-> Changed(u, now.content), version |-> writes + 1]]
                   /\ writes' = writes + 1
                   /\ update' = [update EXCEPT ![p] = u]
                   /\ UNCHANGED <<lock, failures>>
                \/ \* It cannot be written: the copy keeps the change.
                   /\ failures < MaxFailures /\ failures' = failures + 1
                   /\ state' = [state EXCEPT ![p] = [content |-> Changed(u, now.content), version |-> now.version]]
                   /\ update' = [update EXCEPT ![p] = Idle] /\ lock' = Unlocked
                   /\ UNCHANGED writes
  /\ UNCHANGED <<register, stale, ended, minted, revokes, deaths>>

\* The rename, and the lock file removed.
Rename(p) ==
  /\ update[p] # Idle /\ update[p].stage = "written"
  /\ register' = state[p]
  /\ ended' = IF update[p].op # "revoke" THEN ended
              ELSE ended \cup {a \in update[p].ends : a.client \in update[p].clients}
  /\ update' = [update EXCEPT ![p] = Idle] /\ lock' = Unlocked
  /\ UNCHANGED <<state, stale, codes, given, minted, writes, revokes, deaths, failures>>

\* A process ends, and one takes its place: its codes are gone. One that dies
\* inside an update leaves its lock file.
Restart(p) ==
  /\ \/ update[p] = Idle /\ UNCHANGED <<lock, deaths>>
     \/ /\ update[p] # Idle /\ update[p].stage # "waiting"
        /\ deaths < MaxDeaths /\ deaths' = deaths + 1 /\ lock' = Dead
  /\ state' = [state EXCEPT ![p] = register]
  /\ codes' = [s \in Servers |-> IF s = p THEN {} ELSE codes[s]]
  /\ update' = [update EXCEPT ![p] = Idle]
  /\ UNCHANGED <<register, stale, given, ended, minted, writes, revokes, failures>>

Next ==
  \/ \E s \in Servers : Register(s)
  \/ \E s \in Servers, client \in 1..MaxClients : Decide(s, client)
  \/ \E s \in Servers : \E code \in codes[s], good \in BOOLEAN : Token(s, code, good)
  \/ \E o \in Operators, clients \in {{c} : c \in 1..minted} \cup {1..minted} : Revoke(o, clients)
  \/ \E p \in Processes : TakeLock(p) \/ JudgeStale(p) \/ RemoveStale(p) \/ GiveUp(p)
                          \/ Change(p) \/ Rename(p) \/ Restart(p)

Spec == Init /\ [][Next]_oauthVars

-----------------------------------------------------------------------------
(* Properties *)

TypeOK ==
  /\ \A i \in DOMAIN register.content.clients :
       register.content.clients[i] \in [id : 1..MaxClients, approval : 0..MaxApprovals]
  /\ Len(register.content.clients) <= ClientSlots
  /\ Len(register.content.tokens) <= TokenSlots
  /\ lock \in Processes \cup {Unlocked, Dead} /\ stale \subseteq Processes

Tokens == {register.content.tokens[i] : i \in DOMAIN register.content.tokens}

\* What a finished revoke took back stays back: no token in the register is of
\* an approval that a revoke ended, however the revoke, redemptions,
\* registrations and restarts of other processes fell around it (token,
\* revoke, update).
RevokedStaysRevoked == \A t \in Tokens : t \notin ended

\* A registration, which anyone can send, never takes the slot of a client
\* that holds a token: whoever holds one is still registered, and approved at
\* least once (register, clientFor).
HoldersKeepTheirSlot ==
  \A t \in Tokens : t \in given /\ t.client \in ClientsOf(register.content)

\* Both, as long as no process has died inside an update: the takeover of the
\* lock such a process leaves is not exclusive.
RegisterSafe == deaths = 0 => RevokedStaysRevoked /\ HoldersKeepTheirSlot
=============================================================================
