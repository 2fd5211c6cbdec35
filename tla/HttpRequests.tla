---------------------------- MODULE HttpRequests ----------------------------
(***************************************************************************)
(* One governed HTTP call (HttpRuntime.execute in packages/http-runtime/   *)
(* src/index.ts), with the check of where it goes (assertSafeDestination   *)
(* in packages/policy-core/src/network-policy.ts), the credentials it may  *)
(* carry (CredentialBroker) and, when a page makes it, the proxy that pins *)
(* its connections (packages/browser-runtime/src/pinning-proxy.ts).        *)
(*                                                                         *)
(* The name is resolved once more by whoever asks, at any time; the task   *)
(* may be aborted at any time; the connection, the far end and what it     *)
(* answers are external. What an answer holds, and the masking of a        *)
(* credential it echoes, is matching of text and left out. Which hosts a   *)
(* policy names is PolicyRules.                                            *)
(***************************************************************************)
EXTENDS Naturals, FiniteSets

CONSTANT MaxRebinds  \* bound: times the name's answers change

VARIABLES
  settings,  \* [unhinged, localhost], of the policy
  call,      \* the operation: [from, host, action, body]
  sources,   \* the credentials whose secret can be read
  answers,   \* what the name resolves to now
  rebinds,
  stage,     \* "checking", "brokering", "open" or "settled"
  pinned,    \* the addresses the socket may be given
  socket,    \* the address connected to, in a set, or {}
  carried,   \* credentials in the headers
  written,   \* how much of the request was handed to the connection
  received,  \* whether all of it reached the far end
  answered,  \* what of a response arrived: "none", "headers"
  aborted,   \* whether the task was aborted, and when: "no", "before", "after"
  outcome    \* "none", "failed", "unknown" or "result"

httpVars == <<settings, call, sources, answers, rebinds, stage, pinned, socket, carried,
              written, received, answered, aborted, outcome>>

-----------------------------------------------------------------------------
(* Addresses: how one is spelled, and the network it leads to *)

Addresses ==
  [form : {"v4", "mapped", "nat64"}, to : {"public", "private", "loopback"}]
    \cup [form : {"v6"}, to : {"public", "loopback"}] \cup [form : {"localNat64"}, to : {"private"}]
Literals == [public |-> [form |-> "v4", to |-> "public"],
             loopback |-> [form |-> "v6", to |-> "loopback"],
             translated |-> [form |-> "nat64", to |-> "private"]]

\* isPrivateAddress: a mapped or translated address is judged by the IPv4
\* address it carries; a local-use translation only reaches a private network.
IsPrivateAddress(a) == a.form = "localNat64" \/ a.to # "public"
IsLoopbackAddress(a) == a.form \in {"v4", "v6", "mapped"} /\ a.to = "loopback"

Refused(a) == IsPrivateAddress(a) /\ ~(settings.localhost /\ IsLoopbackAddress(a))

Names == {"api", "localhost"}
Hosts == Names \cup DOMAIN Literals

\* assertSafeDestination: all of a name's answers must pass, and they alone are
\* pinned. Unhinged, nothing is checked and whoever connects resolves again.
Resolved == IF call.host \in Names THEN answers ELSE {Literals[call.host]}
DestinationRefused ==
  ~settings.unhinged /\ \/ call.host = "localhost" /\ ~settings.localhost
                        \/ \E a \in Resolved : Refused(a)
\* variant: the socket resolves the name again
ReachableAgain == Resolved
Reachable == IF settings.unhinged THEN Resolved ELSE pinned

-----------------------------------------------------------------------------
(* Credentials, and what they are defined for *)

Credential == [key |-> [hosts |-> {"api"}, covers |-> {"get", "post"}],
               reader |-> [hosts |-> {"api", "loopback"}, covers |-> {"get"}]]
Credentials == DOMAIN Credential

\* headersFor: of those of the host, one that does not cover the operation, or
\* whose secret cannot be read, fails the call. A page's requests get none.
ForHost == IF call.from = "task" THEN {c \in Credentials : call.host \in Credential[c].hosts} ELSE {}
BrokerRefuses == \E c \in ForHost : call.action \notin Credential[c].covers \/ c \notin sources

-----------------------------------------------------------------------------
(* Actions *)

Init ==
  /\ settings \in [unhinged : BOOLEAN, localhost : BOOLEAN]
  /\ settings.unhinged => ~settings.localhost  \* which is then not looked at
  /\ call \in [from : {"task"}, host : Hosts, action : {"get", "post"}, body : BOOLEAN]
                \cup [from : {"page"}, host : Hosts, action : {"get"}, body : {FALSE}]
  /\ sources \in {Credentials, {"key"}} /\ (ForHost = {} => sources = Credentials)
  /\ answers \in UNION {{{a}, {a, Literals.public}} : a \in Addresses}
  /\ call.host \notin Names => answers = {Literals.public}  \* nobody is asked
  /\ rebinds = 0
  /\ stage = "checking" /\ outcome = "none"
  /\ pinned = {} /\ socket = {} /\ carried = {}
  /\ written = "none" /\ received = FALSE /\ answered = "none" /\ aborted = "no"

Rebind ==
  /\ rebinds < MaxRebinds /\ rebinds' = rebinds + 1
  /\ call.host \in Names /\ stage # "settled"
  /\ \E a \in Addresses : answers' = {a} /\ answers' # answers
  /\ UNCHANGED <<settings, call, sources, stage, pinned, socket, carried, written, received, answered,
                 aborted, outcome>>

Settle(how) ==
  /\ stage' = "settled" /\ outcome' = how
  /\ UNCHANGED <<settings, call, sources, answers, rebinds, pinned, carried>>
Unsent(how) == Settle(how) /\ UNCHANGED <<socket, written, received, answered, aborted>>

\* The destination check ends; an abort that came meanwhile is looked at here.
Checked ==
  /\ stage = "checking"
  /\ IF DestinationRefused \/ aborted # "no" THEN Unsent("failed")
     ELSE /\ stage' = IF call.from = "task" THEN "brokering" ELSE "open"
          /\ pinned' = Resolved
          /\ UNCHANGED <<settings, call, sources, answers, rebinds, socket, carried, written, received,
                         answered, aborted, outcome>>

\* The broker answers; then the abort is looked at again, the headers are
\* merged and the request is made, with its deadline and abort listener.
Brokered ==
  /\ stage = "brokering"
  /\ IF BrokerRefuses \/ aborted # "no" THEN Unsent("failed")
     ELSE /\ stage' = "open" /\ carried' = ForHost
          /\ UNCHANGED <<settings, call, sources, answers, rebinds, pinned, socket, written, received,
                         answered, aborted, outcome>>

Connect ==
  /\ stage = "open" /\ socket = {}
  /\ \E a \in Reachable : socket' = {a}
  /\ UNCHANGED <<settings, call, sources, answers, rebinds, stage, pinned, carried, written, received,
                 answered, aborted, outcome>>

\* The connection takes the request, a body in more than one piece.
Write ==
  /\ stage = "open" /\ socket # {} /\ written # "whole"
  /\ written' = IF call.body /\ written = "none" THEN "part" ELSE "whole"
  /\ UNCHANGED <<settings, call, sources, answers, rebinds, stage, pinned, socket, carried, received,
                 answered, aborted, outcome>>

\* What was written whole may arrive after the call was settled.
Arrive ==
  /\ written = "whole" /\ ~received /\ received' = TRUE
  /\ UNCHANGED <<settings, call, sources, answers, rebinds, stage, pinned, socket, carried, written,
                 answered, aborted, outcome>>

\* The far end answers, or refuses a body before all of it is sent.
Respond ==
  /\ stage = "open" /\ (received \/ written = "part")
  /\ answered = "none" /\ answered' = "headers"
  /\ UNCHANGED <<settings, call, sources, answers, rebinds, stage, pinned, socket, carried, written,
                 received, aborted, outcome>>

\* The body ends, or passes the size cap and is cut there. A redirect is a
\* result like another, and is not followed.
Finish == stage = "open" /\ answered = "headers" /\ Unsent("result")

\* The response breaks off: an error of its own, or a close before its end.
BreakOff == stage = "open" /\ answered = "headers" /\ Unsent("unknown")

\* `failed`: whether the request made it out decides what the failure says.
HowFailed == IF written = "whole" THEN "unknown" ELSE "failed"

\* No address accepts, the connection resets or closes without a response, or
\* the far end wants another protocol.
Lose == stage = "open" /\ answered = "none" /\ Unsent(HowFailed)

\* variant: only a silent far end times out
DeadlineIdle == stage = "open" /\ call.from = "task" /\ answered = "none" /\ Unsent(HowFailed)

\* `stop`: one deadline over the whole exchange, a response's arrival included.
\* The proxy sets a page's request none.
Deadline == stage = "open" /\ call.from = "task" /\ Unsent(HowFailed)

\* The task is aborted. Before the request is made it is only noted; a proxied
\* request of a page has no task.
Abort ==
  /\ call.from = "task" /\ aborted = "no" /\ stage # "settled"
  /\ IF stage = "open"
     THEN /\ Settle(HowFailed) /\ aborted' = "after"
          /\ UNCHANGED <<socket, written, received, answered>>
     ELSE /\ aborted' = "before"
          /\ UNCHANGED <<settings, call, sources, answers, rebinds, stage, pinned, socket, carried,
                         written, received, answered, outcome>>

Next ==
  \/ Rebind \/ Checked \/ Brokered \/ Connect \/ Write \/ Arrive \/ Respond
  \/ Finish \/ BreakOff \/ Lose \/ Deadline \/ Abort

\* A lookup and a read of a small file end, and a task's timer fires once set.
Fairness == WF_httpVars(Checked) /\ WF_httpVars(Brokered) /\ WF_httpVars(Deadline)

Spec == Init /\ [][Next]_httpVars /\ Fairness

-----------------------------------------------------------------------------
(* Properties *)

TypeOK ==
  /\ stage \in {"checking", "brokering", "open", "settled"}
  /\ (stage = "settled") = (outcome # "none")
  /\ outcome \in {"none", "failed", "unknown", "result"}
  /\ pinned \subseteq Addresses /\ Cardinality(socket) <= 1
  /\ carried \subseteq Credentials
  /\ written \in {"none", "part", "whole"} /\ received \in BOOLEAN
  /\ answered \in {"none", "headers"} /\ aborted \in {"no", "before", "after"}

\* A call that reports a plain failure never reached the far end whole, then or
\* later, so it may be made again; "unknown" is said only of one that was
\* written out or answered (failed in HttpRuntime.execute).
FailureTellsTheTruth ==
  /\ outcome = "failed" => ~received /\ written # "whole"
  /\ outcome = "unknown" => written = "whole" \/ answered = "headers"

\* No connection leads to a private network, whatever the name answered later
\* and however an address spells it (assertSafeDestination, pinnedLookup).
ConnectsWhereChecked ==
  ~settings.unhinged =>
    \A a \in socket : a.to = "public" \/ (settings.localhost /\ a.to = "loopback")

\* A secret leaves only for a host and an operation it is defined for, of a
\* call that some task makes (headersFor).
SecretsStayScoped ==
  \A c \in carried : /\ call.host \in Credential[c].hosts /\ call.action \in Credential[c].covers
                     /\ call.from = "task"

\* Aborted before the request was made, it is never made (execute's two looks
\* at the signal).
AbortedIsUnsent == aborted = "before" => written = "none" /\ socket = {}

\* Every call of a task ends, against a far end that never answers and one that
\* answers without end (stop).
EveryCallSettles == call.from = "task" => <>(stage = "settled")
=============================================================================
