---------------------------- MODULE PolicyRules -----------------------------
(***************************************************************************)
(* How policy decides a task (evaluatePolicy in packages/policy-core/src/  *)
(* index.ts): the request's own limits, then the grants the operator       *)
(* issued, then the rules, in an order, over what the operation is         *)
(* classified as. The operator makes the policy stricter one field at a    *)
(* time, and the same request is decided again.                            *)
(*                                                                         *)
(* Hosts, places, commands and grants are a few names each; which commands *)
(* are reads is CommandReads, and how grants are drawn is Grants.          *)
(***************************************************************************)
EXTENDS Naturals, FiniteSets

CONSTANTS
  NoName,    \* no host, no destination, no command
  MaxEdits   \* bound: fields the operator makes stricter

VARIABLES
  policy,    \* LocalPolicy, of the fields decisions read
  request,   \* the TaskRequest decided
  edits

policyVars == <<policy, request, edits>>

-----------------------------------------------------------------------------
(* Operations, and what classifyOperation makes of each *)

\* "named" is in allowedDomains, "other" only by `*`, "private" is an address.
Hosts == {"named", "other", "local", "private"}
Places == {"docs", "src"}
Scope == {"user", "mem1"}  \* a whole scope, and one record of it

Op(kind, actions, at, to, sends) ==
  [kind : {kind}, action : actions, at : at, to : to, sends : sends, carries : {NoName}]
Operations ==
  Op("file", {"read", "write", "delete"}, Places, {NoName}, {FALSE})
    \cup Op("file", {"move"}, Places, Places, {FALSE})
    \cup Op("terminal", {"run", "start"}, {"cat", "cat outside", "npm test", "npm install", "sh", "tools/cat"},
            {NoName}, {FALSE})
    \cup [kind : {"terminal"}, action : {"output", "send", "stop"}, at : {"job", NoName}, to : {NoName},
          sends : {FALSE}, carries : {NoName, "cat", "cat outside", "npm install"}]
    \cup Op("browser", {"navigate", "inspect", "click", "close"}, Hosts \cup {NoName}, {NoName}, {FALSE})
    \cup Op("memory", {"list", "put", "delete", "clear"}, {"mem1"}, {NoName}, {FALSE})
    \cup Op("memory", {"put"}, {"user"}, {"mem1"}, {FALSE})
    \cup Op("computer", {"inspect", "click"}, {"desktop"}, {NoName}, {FALSE})
    \cup Op("http", {"get", "post"}, Hosts, {NoName}, BOOLEAN)
    \cup Op("system", {"info"}, {"local-system"}, {NoName}, {FALSE})

ReadCommand == {"cat", "cat outside"}
Reads == [file |-> {"read"}, browser |-> {"navigate", "inspect"}, memory |-> {"list"},
          computer |-> {"inspect"}, system |-> {"info"}, http |-> {"get"}, terminal |-> {"output"}]
\* A call on a job may carry a command as well, and a stop is classified by it.
ByCommand == {"run", "start", "stop"}
CommandOf(op) == IF op.action = "stop" THEN op.carries ELSE op.at
Effect(op) ==
  CASE op.kind \in {"file", "memory"} /\ op.action \in {"delete", "clear"} -> "destructive"
    [] op.kind = "terminal" /\ op.action \in ByCommand ->
         IF CommandOf(op) \in ReadCommand THEN "read" ELSE "mutate"
    [] op.kind = "http" -> IF op.action = "get" /\ ~op.sends THEN "read" ELSE "mutate"
    [] OTHER -> IF op.action \in Reads[op.kind] THEN "read" ELSE "mutate"

TraitsOf(op) ==
  CASE op.kind \in {"browser", "http"} -> {"network"}
    [] op.kind = "terminal" /\ op.action \in ByCommand /\ CommandOf(op) = "npm install" ->
         {"package-install", "network"}
    [] OTHER -> {}

\* A read or a clear acts on the whole scope whatever id is sent, and a put
\* that supersedes a record hides that one as well.
TargetsOf(op) ==
  LET target == IF op.kind = "memory" /\ op.action \in {"list", "clear"} THEN "user" ELSE op.at
  IN {target} \cup (IF op.to = NoName THEN {} ELSE {op.to})

-----------------------------------------------------------------------------
(* The policy and the request *)

\* A grant covers effects on targets, for a caller; `live` and `funded` are
\* what its term and its meters say now.
Grants ==
  { [id |-> "all", effects |-> {"read", "mutate", "destructive"},
     covers |-> Places \cup Scope \cup Hosts \cup {"cat", "npm install", "job", "desktop"},
     caller |-> "agent", live |-> TRUE, funded |-> TRUE],
    [id |-> "docs", effects |-> {"read", "mutate"}, covers |-> {"docs", "mem1"},
     caller |-> "agent", live |-> TRUE, funded |-> TRUE],
    [id |-> "spent", effects |-> {"mutate"}, covers |-> {"src", "other"},
     caller |-> "agent", live |-> TRUE, funded |-> FALSE],
    [id |-> "lapsed", effects |-> {"mutate"}, covers |-> {"src", "user"},
     caller |-> "agent", live |-> FALSE, funded |-> TRUE],
    [id |-> "theirs", effects |-> {"read", "mutate"}, covers |-> {"src"},
     caller |-> "another", live |-> TRUE, funded |-> TRUE] }

Loosest ==
  [unhinged : BOOLEAN, enforced : BOOLEAN, grants : {{}, Grants},
   mutations : {"confirm"}, domains : {{"*", "named"}}, localhost : {"unset", "open"},
   denied : {{}}, commands : {{"cat", "npm"}}]

\* Of a request's evidence, what it has of each strength, and the host its
\* http_resource_matches check reads from.
Evidence == {{}, {"reported"}, {"semantic"}, {"semantic", "state"}}
Request ==
  [operation : Operations, constrained : {FALSE}, forbidden : {{}},
   evidence : Evidence, reconciles : BOOLEAN, probe : {NoName}]
    \cup [operation : Operations, constrained : BOOLEAN, forbidden : {{}, {"read"}, {"mutate"}},
          evidence : {{"reported"}}, reconciles : {FALSE}, probe : {NoName}]
    \cup [operation : {o \in Operations : Effect(o) = "read"}, constrained : {FALSE},
          forbidden : {{}}, evidence : {{}}, reconciles : {FALSE}, probe : Hosts \cup {"filled in"}]

Init == policy \in Loosest /\ request \in Request /\ edits = 0

\* The operator edits one field and starts the server again.
Stricter(p) ==
  {[p EXCEPT !.unhinged = FALSE], [p EXCEPT !.enforced = TRUE],
   [p EXCEPT !.mutations = "deny"], [p EXCEPT !.localhost = "closed"],
   \* Taking the last grant back would leave a policy that issues none.
   [p EXCEPT !.grants = {g \in @ : g.id = "docs"}],
   [p EXCEPT !.grants = {g \in @ : g.id # "all"}]}
  \cup {[p EXCEPT !.domains = @ \ {d}] : d \in p.domains}
  \cup {[p EXCEPT !.denied = @ \cup {t}] : t \in {"network", "package-install"}}
  \cup {[p EXCEPT !.commands = @ \ {c}] : c \in p.commands}
  \cup (IF p.grants = {} THEN {[p EXCEPT !.grants = Grants]} ELSE {})

Tighten ==
  /\ edits < MaxEdits /\ edits' = edits + 1
  /\ policy' \in Stricter(policy) \ {policy}
  /\ UNCHANGED request

Next == Tighten
Spec == Init /\ [][Next]_policyVars

-----------------------------------------------------------------------------
(* The rules *)

\* variant: the mode's default reversed
LocalhostByDefault(p) == p.localhost = "open" \/ (p.localhost = "unset" /\ p.enforced)

\* localhostAllowed: as the policy says, else only in developer mode.
LocalhostAllowed(p) == p.localhost = "open" \/ (p.localhost = "unset" /\ ~p.enforced)

UrlAllowed(p, host) ==
  IF host = "local" THEN LocalhostAllowed(p) ELSE {"*", host} \cap p.domains # {}

\* close names the tab it acts on and goes nowhere.
DomainAllowed(p, op) ==
  \/ op.kind \notin {"browser", "http"} \/ op.at = NoName \/ op.action = "close"
  \/ UrlAllowed(p, op.at)

\* Only navigate goes where its url says; a private address is the destination
\* guard's to refuse. A check whose host the result fills in names none.
UnlistedUrl(p, host) ==
  /\ host # "private"
  /\ ~UrlAllowed([p EXCEPT !.domains = @ \ {"*"}], host)
UnlistedHost(p, op) ==
  /\ op.at # NoName /\ (op.kind = "http" \/ (op.kind = "browser" /\ op.action = "navigate"))
  /\ UnlistedUrl(p, op.at)
UnlistedProbe(p, host) == host # NoName /\ (host = "filled in" \/ UnlistedUrl(p, host))

\* A shell never; a program with a path only by an entry with that path; of a
\* call on a job only that it names one.
CommandAllowed(p, op) ==
  CASE op.kind # "terminal" -> TRUE
    [] op.kind = "terminal" /\ op.action \notin {"run", "start"} -> op.at # NoName
    [] OTHER -> \/ op.at \in {"cat", "cat outside"} /\ "cat" \in p.commands
                \/ op.at \in {"npm test", "npm install"} /\ "npm" \in p.commands

\* variant: where a move goes is not asked
CoversTarget(g, op) ==
  Effect(op) \in g.effects /\ TargetsOf(op) \cap g.covers # {} /\ g.caller = "agent"

\* capabilityCheck: some grant covers the effect, all it changes and the
\* caller, has not lapsed, and can pay.
Covers(g, op) ==
  Effect(op) \in g.effects /\ TargetsOf(op) \subseteq g.covers /\ g.caller = "agent"
Granted(p, op) ==
  p.grants = {} \/ \E g \in p.grants : Covers(g, op) /\ g.live /\ g.funded

PageDriving == {"click", "close"}
ForbiddenBy(r) ==
  \/ Effect(r.operation) \in r.forbidden
  \/ Effect(r.operation) = "destructive" /\ "mutate" \in r.forbidden

Denied(p, r) ==
  LET op == r.operation
  IN \/ p.enforced /\ op.kind = "browser" /\ op.action \in PageDriving /\ op.at = NoName
     \/ ~Granted(p, op)
     \/ TraitsOf(op) \cap p.denied # {}
     \/ ~CommandAllowed(p, op)
     \/ ~DomainAllowed(p, op)
     \/ Effect(op) # "read" /\ r.evidence = {}
     \/ Effect(op) = "destructive" /\ "semantic" \in r.evidence /\ "state" \notin r.evidence

\* A read of a host nobody listed, or of a place outside the workspace, is
\* shown to a person first in enforced mode.
Unlisted(p, r) == UnlistedHost(p, r.operation) \/ UnlistedProbe(p, r.probe)
Outside(op) == op.kind = "terminal" /\ "cat outside" \in {op.at, op.carries}

\* evaluatePolicy
Decision(p, r) ==
  CASE r.constrained \/ ForbiddenBy(r) \/ (r.reconciles /\ "semantic" \in r.evidence) -> "deny"
    [] OTHER ->
         IF p.unhinged THEN "allow"
         ELSE IF Denied(p, r) THEN "deny"
         ELSE IF Effect(r.operation) = "read"
              THEN IF ~p.enforced \/ (~Unlisted(p, r) /\ ~Outside(r.operation)) THEN "allow" ELSE "confirm"
              ELSE IF p.mutations = "deny" THEN "deny" ELSE "confirm"

-----------------------------------------------------------------------------
(* Properties *)

TypeOK == policy.domains \subseteq {"*", "named"} /\ Decision(policy, request) \in {"deny", "confirm", "allow"}

Freedom == [deny |-> 0, confirm |-> 1, allow |-> 2]

\* A stricter policy never lets through what the one before stopped: leaving
\* unsafe-local, entering enforced mode, taking a host, a command or a grant
\* back, denying a trait or changes, or issuing the first grants, in any order
\* (evaluatePolicy).
NothingLoosens == Freedom[Decision(policy', request)] <= Freedom[Decision(policy, request)]
TighteningNeverLoosens == [][NothingLoosens]_policyVars

\* Stopping a job stops it, whatever the call carries (TerminalRuntime.execute).
StopsJob(op) == op.kind = "terminal" /\ op.action = "stop"

\* The limits a request sets itself hold in every mode, of what its operation is
\* classified as. Outside unsafe-local nothing runs unapproved that changes
\* anything, but for the stop of a job that carries a reading command, which
\* counts as a read; in enforced mode no read either that sends anything to a
\* host no one named; and with grants issued, whatever is not denied is within
\* one the caller holds, in all that it changes (evaluatePolicy,
\* capabilityCheck, classifyOperation).
NothingBeyondItsLimits ==
  LET decision == Decision(policy, request)
      op == request.operation
      sentTo == {request.probe} \cup (IF op.kind \in {"http", "browser"} /\ op.action # "inspect" THEN {op.at} ELSE {})
  IN decision # "deny" =>
       /\ Effect(op) \notin request.forbidden
       /\ ~(Effect(op) = "destructive" /\ "mutate" \in request.forbidden)
       /\ ~policy.unhinged =>
            /\ decision = "allow" =>
                 Effect(op) = "read" /\ (StopsJob(op) => op.carries \in ReadCommand /\ op.at # NoName)
            /\ decision = "allow" /\ policy.enforced =>
                 ~Outside(op) /\ sentTo \subseteq {NoName, "named", "private"} \cup (IF policy.localhost = "open" THEN {"local"} ELSE {})
            /\ policy.grants # {} =>
                 \E g \in policy.grants :
                   TargetsOf(op) \subseteq g.covers /\ g.caller = "agent" /\ g.live /\ g.funded
=============================================================================
