-------------------------- MODULE Adapters_proofs --------------------------
(***************************************************************************)
(* Proofs about MCAdapters: that what a browser's or a computer's action   *)
(* reports as failed is one, that input reached only what was checked but  *)
(* for the one that is on its way as the page leaves, that a command's     *)
(* processes stay supervised, and that an HTTP call keeps its limits. Each *)
(* part has its own inductive invariant, for any tasks, addresses and      *)
(* bounds.                                                                 *)
(***************************************************************************)
EXTENDS MCAdapters, FiniteSetTheorems, WellFoundedInduction, SequenceTheorems, TLAPS

-----------------------------------------------------------------------------
(* HTTP: what was not made yet is unsent, and the socket is one of the     *)
(* addresses that passed.                                                  *)

HttpTypes ==
  /\ Http!TypeOK
  /\ settings \in [unhinged : BOOLEAN, localhost : BOOLEAN]
  /\ answers \subseteq Http!Addresses /\ socket \subseteq Http!Addresses
  /\ call.host \in Http!Hosts
\* Until it is made, and ever after an abort before that, nothing is written.
Unmade ==
  /\ stage \in {"checking", "brokering"} \/ aborted = "before" => written = "none" /\ socket = {}
  /\ stage = "open" => aborted = "no"
  /\ received => written = "whole"
PinnedPassed ==
  ~settings.unhinged => socket \subseteq pinned /\ \A a \in pinned : ~Http!Refused(a)
HttpInv ==
  HttpTypes /\ Unmade /\ PinnedPassed
    /\ Http!FailureTellsTheTruth /\ Http!SecretsStayScoped

LEMMA HttpCounts ==
  ASSUME NEW S
  PROVE  Http!Cardinality(S) = Cardinality(S)
  BY DEF Http!Cardinality, Cardinality

LEMMA HttpInit == Http!Init => HttpInv
<1> SUFFICES ASSUME Http!Init PROVE HttpInv
  OBVIOUS
<1>1. answers \subseteq Http!Addresses
  <2>1. PICK a \in Http!Addresses : answers \in {{a}, {a, Http!Literals.public}}
    BY DEF Http!Init
  <2>2. Http!Literals.public \in Http!Addresses
    BY DEF Http!Literals, Http!Addresses
  <2>. QED  BY <2>1, <2>2
<1>2. socket = {} /\ Http!Cardinality(socket) <= 1
  BY HttpCounts, FS_EmptySet DEF Http!Init
<1>3. HttpTypes
  BY <1>1, <1>2 DEF Http!Init, HttpTypes, Http!TypeOK
<1>4. Unmade /\ PinnedPassed
  BY DEF Http!Init, Unmade, PinnedPassed
<1>5. Http!FailureTellsTheTruth /\ Http!SecretsStayScoped
  BY DEF Http!Init, Http!FailureTellsTheTruth, Http!SecretsStayScoped
<1>. QED  BY <1>3, <1>4, <1>5 DEF HttpInv

\* An address that passed leads nowhere private.
LEMMA PassedIsSafe ==
  ASSUME NEW a \in Http!Addresses, ~Http!Refused(a)
  PROVE  a.to = "public" \/ (settings.localhost /\ a.to = "loopback")
BY DEF Http!Refused, Http!IsPrivateAddress, Http!IsLoopbackAddress, Http!Addresses

LEMMA ResolvedAreAddresses ==
  ASSUME answers \subseteq Http!Addresses, call.host \in Http!Hosts
  PROVE  Http!Resolved \subseteq Http!Addresses
BY DEF Http!Resolved, Http!Literals, Http!Addresses, Http!Hosts, Http!Names

\* What an outcome may say once nothing more is written.
LEMMA SettleKeeps ==
  ASSUME HttpInv, NEW how \in {"failed", "unknown", "result"}, Http!Settle(how), stage # "settled",
         UNCHANGED <<socket, written, received, answered>>,
         how = "failed" => written # "whole", how = "unknown" => written = "whole" \/ answered = "headers",
         aborted' \in {"no", "before", "after"}, aborted' = "before" => aborted = "before" \/ stage # "open"
  PROVE  HttpInv'
<1> USE DEF HttpInv, Http!Settle
<1>1. HttpTypes'
  BY DEF HttpTypes, Http!TypeOK
<1>2. Unmade'
  BY DEF Unmade, HttpTypes, Http!TypeOK
<1>3. PinnedPassed'
  BY DEF PinnedPassed, Http!Refused
<1>4. Http!FailureTellsTheTruth' /\ Http!SecretsStayScoped'
  BY DEF Http!FailureTellsTheTruth, Http!SecretsStayScoped, Unmade
<1>. QED  BY <1>1, <1>2, <1>3, <1>4

LEMMA HttpNext ==
  ASSUME HttpInv, [Http!Next]_httpPart
  PROVE  HttpInv'
<1> USE DEF HttpInv
<1>1. CASE Http!Rebind
  <2>1. /\ answers' \subseteq Http!Addresses
        /\ UNCHANGED <<settings, call, sources, stage, pinned, socket, carried, written, received, answered,
                       aborted, ended>>
    BY <1>1 DEF Http!Rebind
  <2>. QED
    BY <2>1 DEF HttpTypes, Http!TypeOK, Unmade, PinnedPassed, Http!Refused, Http!FailureTellsTheTruth,
                Http!SecretsStayScoped
<1>2. CASE Http!Checked
  <2>1. CASE Http!DestinationRefused \/ aborted # "no"
    <3>1. Http!Unsent("failed") /\ stage = "checking"
      BY <1>2, <2>1 DEF Http!Checked
    <3>. QED
      BY <3>1, SettleKeeps DEF Http!Unsent, HttpTypes, Http!TypeOK, Unmade, Http!SecretsStayScoped
  <2>2. CASE ~Http!DestinationRefused /\ aborted = "no"
    <3>1. /\ stage = "checking" /\ stage' \in {"brokering", "open"} /\ pinned' = Http!Resolved
          /\ UNCHANGED <<settings, call, sources, answers, rebinds, socket, carried, written, received,
                         answered, aborted, ended>>
      BY <1>2, <2>2 DEF Http!Checked
    <3>2. pinned' \subseteq Http!Addresses
      BY <3>1, ResolvedAreAddresses DEF HttpTypes
    <3>3. HttpTypes' /\ Unmade'
      BY <2>2, <3>1, <3>2 DEF HttpTypes, Http!TypeOK, Unmade
    <3>4. PinnedPassed'
      BY <2>2, <3>1 DEF PinnedPassed, Http!DestinationRefused, Http!Refused, Unmade
    <3>. QED
      BY <3>1, <3>3, <3>4 DEF Http!FailureTellsTheTruth, Http!SecretsStayScoped
  <2>. QED  BY <2>1, <2>2
<1>3. CASE Http!Brokered
  <2>1. CASE Http!BrokerRefuses \/ aborted # "no"
    <3>1. Http!Unsent("failed") /\ stage = "brokering"
      BY <1>3, <2>1 DEF Http!Brokered
    <3>. QED
      BY <3>1, SettleKeeps DEF Http!Unsent, HttpTypes, Http!TypeOK, Unmade, Http!SecretsStayScoped
  <2>2. CASE ~Http!BrokerRefuses /\ aborted = "no"
    <3>1. /\ stage = "brokering" /\ stage' = "open" /\ carried' = Http!ForHost
          /\ UNCHANGED <<settings, call, sources, answers, rebinds, pinned, socket, written, received,
                         answered, aborted, ended>>
      BY <1>3, <2>2 DEF Http!Brokered
    <3>2. /\ carried' \subseteq Http!Credentials
          /\ \A c \in carried' : /\ call.host \in Http!Credential[c].hosts
                               /\ call.action \in Http!Credential[c].covers /\ call.from = "task"
      BY <2>2, <3>1 DEF Http!ForHost, Http!BrokerRefuses
    <3>. QED
      BY <2>2, <3>1, <3>2 DEF HttpTypes, Http!TypeOK, Unmade, PinnedPassed, Http!Refused,
                              Http!FailureTellsTheTruth, Http!SecretsStayScoped
  <2>. QED  BY <2>1, <2>2
<1>4. CASE Http!Connect
  <2>1. PICK a \in Http!Reachable : socket' = {a}
    BY <1>4 DEF Http!Connect
  <2>2. /\ stage = "open"
        /\ UNCHANGED <<settings, call, sources, answers, rebinds, stage, pinned, carried, written, received,
                       answered, aborted, ended>>
    BY <1>4 DEF Http!Connect
  <2>3. a \in Http!Addresses /\ (~settings.unhinged => a \in pinned)
    BY ResolvedAreAddresses DEF Http!Reachable, HttpTypes, Http!TypeOK
  <2>4. Http!Cardinality(socket') <= 1
    <3>1. Cardinality({a}) = 1
      BY FS_Singleton
    <3>2. Http!Cardinality({a}) = Cardinality({a})
      BY HttpCounts
    <3>. QED  BY <2>1, <3>1, <3>2
  <2>5. HttpTypes'
    BY <2>1, <2>2, <2>3, <2>4 DEF HttpTypes, Http!TypeOK
  <2>6. PinnedPassed' /\ Unmade'
    BY <2>1, <2>2, <2>3 DEF PinnedPassed, Http!Refused, Unmade
  <2>. QED
    BY <2>2, <2>5, <2>6 DEF Http!FailureTellsTheTruth, Http!SecretsStayScoped
<1>5. CASE Http!Write \/ Http!Arrive \/ Http!Respond
  <2>1. UNCHANGED <<settings, call, sources, answers, rebinds, stage, pinned, socket, carried, aborted, ended>>
    BY <1>5 DEF Http!Write, Http!Arrive, Http!Respond
  <2>2. HttpTypes'
    BY <1>5, <2>1 DEF Http!Write, Http!Arrive, Http!Respond, HttpTypes, Http!TypeOK
  <2>3. Unmade'
    BY <1>5, <2>1 DEF Http!Write, Http!Arrive, Http!Respond, Unmade
  <2>4. PinnedPassed'
    BY <2>1 DEF PinnedPassed, Http!Refused
  <2>5. Http!FailureTellsTheTruth'
    BY <1>5, <2>1 DEF Http!Write, Http!Arrive, Http!Respond, Http!FailureTellsTheTruth, HttpTypes, Http!TypeOK
  <2>. QED  BY <2>1, <2>2, <2>3, <2>4, <2>5 DEF Http!SecretsStayScoped
<1>6. CASE Http!Finish
  BY <1>6, SettleKeeps DEF Http!Finish, Http!Unsent, HttpTypes, Http!TypeOK
<1>7. CASE Http!BreakOff
  BY <1>7, SettleKeeps DEF Http!BreakOff, Http!Unsent, HttpTypes, Http!TypeOK
<1>8. CASE Http!Lose \/ Http!Deadline
  BY <1>8, SettleKeeps DEF Http!Lose, Http!Deadline, Http!HowFailed, Http!Unsent, HttpTypes, Http!TypeOK
<1>9. CASE Http!Abort
  <2>1. CASE stage = "open"
    BY <1>9, <2>1, SettleKeeps DEF Http!Abort, Http!HowFailed, Http!SecretsStayScoped
  <2>2. CASE stage # "open"
    <3>1. /\ aborted' = "before" /\ stage \in {"checking", "brokering"}
          /\ UNCHANGED <<settings, call, sources, answers, rebinds, stage, pinned, socket, carried,
                         written, received, answered, ended>>
      BY <1>9, <2>2 DEF Http!Abort, HttpTypes, Http!TypeOK
    <3>. QED
      BY <3>1 DEF HttpTypes, Http!TypeOK, Unmade, PinnedPassed, Http!Refused,
                  Http!FailureTellsTheTruth, Http!SecretsStayScoped
  <2>. QED  BY <2>1, <2>2
<1>10. CASE UNCHANGED httpPart
  BY <1>10 DEF httpPart, HttpTypes, Http!TypeOK, Unmade, PinnedPassed, Http!Refused,
               Http!FailureTellsTheTruth, Http!SecretsStayScoped
<1>. QED  BY <1>1, <1>2, <1>3, <1>4, <1>5, <1>6, <1>7, <1>8, <1>9, <1>10 DEF Http!Next

LEMMA HttpHolds ==
  ASSUME HttpInv
  PROVE  /\ Http!TypeOK
         /\ Http!FailureTellsTheTruth /\ Http!ConnectsWhereChecked
         /\ Http!SecretsStayScoped /\ Http!AbortedIsUnsent
<1>1. Http!ConnectsWhereChecked
  BY PassedIsSafe DEF HttpInv, HttpTypes, PinnedPassed, Http!ConnectsWhereChecked
<1>. QED  BY <1>1 DEF HttpInv, HttpTypes, Unmade, Http!AbortedIsUnsent

-----------------------------------------------------------------------------
(* The browser: one action at a time for one task each, held to the        *)
(* document it was checked on.                                             *)

Steps ==
  {"pinning", "address", "surface", "finding", "ready", "acting", "sent", "focusing", "typing", "closing",
   "navigating", "secrets", "looking", "checking again", "capturing", "settling"}
Documents == Nat \cup {NoDocument}
Names == {o.named : o \in Offered}
\* What may be left to send; of these, what is left once the field was cleared.
Texts == {<<"keys", "keys">>, <<"keys", "keys", "click">>}
Lefts ==
  Texts \cup {<<>>, <<"click">>, <<"press">>, <<"set">>, <<"keys">>, <<"keys", "click">>,
              <<"clear", "keys", "keys">>, <<"clear", "keys", "keys", "click">>}
Queued == [task : Tasks, kind : Browser!Kinds, named : Names]
Running ==
  [task : Tasks, kind : Browser!Kinds, named : Names, at : Steps, sent : BOOLEAN, pin : Documents,
   found : Documents, left : Lefts, saw : BOOLEAN]
Idle == action = NoAction

BrowserTypes ==
  /\ page \in Browser!Document /\ navigations \in Nat /\ page.id = navigations
  /\ report \in [Tasks -> {"none", "asked", "done", "failed", "unknown"}]
  /\ queue \in Seq(Queued)
  /\ Idle \/ action \in Running

\* A task has one action: in the queue, running, or answered.
OneEach ==
  /\ \A i \in 1..Len(queue) : report[queue[i].task] = "asked"
  /\ \A i, j \in 1..Len(queue) : queue[i].task = queue[j].task => i = j
  /\ ~Idle => /\ report[action.task] = "asked"
              /\ \A i \in 1..Len(queue) : queue[i].task # action.task

\* A task that has something under way was begun: it is running or answered.
Begins(t) ==
  /\ t \in Tasks /\ report[t] # "none"
  /\ \A i \in 1..Len(queue) : queue[i].task # t

\* An input on its way was handed over in the document of its action's checks,
\* no console. A task has one at most, sent after all of its that landed, none
\* of them astray; only a field may be cleared twice.
Under(f, m) ==
  /\ m.left >= f.left /\ (m.left = f.left => f.input \in Browser!ThroughElement)
  /\ ~Browser!Astray(m)
InFlight ==
  /\ \A f \in flying :
       /\ Begins(f.task) /\ f.left \in Nat
       /\ f.pin \in Nat /\ f.pin <= navigations /\ f.sentTo = f.pin
       /\ f.pin = navigations => ~page.surface
  /\ \A f, g \in flying : f.task = g.task => f = g
  /\ \A f \in flying, m \in landed : f.task = m.task => Under(f, m)

\* The running action waits for what is on its way, and knows of what landed;
\* what went astray left the page it is pinned to.
Flies(f) ==
  action.at = "sent" /\ f.pin = action.pin /\ f.left = Len(action.left) /\ f.input = Head(action.left)
Reached(m) ==
  /\ action.sent /\ m.pin = action.pin
  /\ action.pin \in Nat /\ Browser!Astray(m) => action.pin # navigations
  /\ action.kind \in Browser!InputKinds /\ action.left # <<>> =>
       /\ m.left >= Len(action.left)
       /\ m.left = Len(action.left) => Head(action.left) \in Browser!ThroughElement
Current ==
  ~Idle => /\ \A f \in flying : f.task = action.task => Flies(f)
           /\ \A m \in landed : m.task = action.task => Reached(m)

Landings == \A m \in landed : Begins(m.task) /\ m.left \in Nat

\* A plain failure leaves at most one input, of a call that keeps no record.
Failures ==
  /\ \A f \in flying : report[f.task] = "failed" =>
       f.input \in Browser!Unlogged /\ \A m \in landed : m.task # f.task
  /\ Browser!FailedCompletedNothing

\* An action with input to send is pinned, and past its checks to a document
\* that is no console; one about to act has found its target there.
Checking == {"pinning", "address", "surface"}
Acting == {"acting", "sent", "focusing", "typing"}
Sending == {"finding", "ready"} \cup Acting
Formed ==
  /\ action.at \in Sending => action.kind \in Browser!InputKinds
  /\ action.at \in Checking \cup Sending /\ action.kind \in Browser!InputKinds => action.left # <<>>
  /\ action.at \in Checking => ~action.sent
  /\ action.left # <<>> /\ Head(action.left) = "keys" => action.sent
  /\ action.left # <<>> /\ Head(action.left) = "clear" => action.left = Browser!Inputs[action.kind]
  /\ action.at = "focusing" =>
       /\ Browser!Inputs[action.kind] # <<>> /\ Head(Browser!Inputs[action.kind]) = "clear"
       /\ action.left = Tail(Browser!Inputs[action.kind])
  /\ action.at = "closing" => action.kind = "close"
  /\ action.at = "capturing" => action.kind = "screenshot"
  /\ action.kind \notin Browser!InputKinds \/ action.at = "pinning" => action.pin = NoDocument
  /\ action.at = "pinning" => action.found = NoDocument
  /\ action.at \in {"ready", "acting"} => action.found # NoDocument
  /\ action.at \in Acting => action.found = action.pin
Placed ==
  /\ action.kind \in Browser!InputKinds /\ action.at # "pinning" =>
       /\ action.pin \in Nat /\ action.pin <= navigations
       /\ action.at \in Sending /\ action.pin = navigations => ~page.surface
       /\ action.found # NoDocument => action.pin <= action.found
  /\ action.found # NoDocument => action.found <= navigations
  /\ action.at = "checking again" /\ action.saw /\ action.found = navigations => page.secret
Pinned == Formed /\ Placed

BrowserInv ==
  /\ BrowserTypes /\ OneEach /\ InFlight /\ Landings /\ Current /\ Failures /\ (~Idle => Pinned)
  /\ Browser!InputOnCheckedPage /\ Browser!SecretsUnread

LEMMA KindFacts ==
  /\ Browser!Kinds = {"click", "press", "select", "type", "fill_form", "close", "inspect", "screenshot",
                      "wait", "navigate"}
  /\ Browser!InputKinds = {"click", "press", "select", "type", "fill_form"}
  /\ \A k \in Browser!Kinds : Browser!Inputs[k] \in Lefts
  /\ \A k \in Browser!Kinds : Browser!Inputs[k] # <<>> => Head(Browser!Inputs[k]) # "keys"
  /\ \A k \in Browser!InputKinds : Browser!Inputs[k] # <<>>
<1>1. Browser!Kinds = {"click", "press", "select", "type", "fill_form", "close", "inspect", "screenshot",
                       "wait", "navigate"}
  BY DEF Browser!Kinds, Browser!Inputs
<1>2. /\ Browser!Inputs["click"] = <<"click">> /\ Browser!Inputs["press"] = <<"press">>
      /\ Browser!Inputs["select"] = <<"set">> /\ Browser!Inputs["type"] = <<"clear", "keys", "keys">>
      /\ Browser!Inputs["fill_form"] = <<"clear", "keys", "keys", "click">>
      /\ \A k \in {"close", "inspect", "screenshot", "wait", "navigate"} : Browser!Inputs[k] = <<>>
  BY DEF Browser!Inputs
<1>3. /\ <<"click">> # <<>> /\ <<"press">> # <<>> /\ <<"set">> # <<>>
      /\ <<"clear", "keys", "keys">> # <<>> /\ <<"clear", "keys", "keys", "click">> # <<>>
  OBVIOUS
<1>4. Browser!InputKinds = {"click", "press", "select", "type", "fill_form"}
  BY <1>1, <1>2, <1>3 DEF Browser!InputKinds
<1>5. \A k \in Browser!Kinds : Browser!Inputs[k] \in Lefts
  BY <1>1, <1>2 DEF Lefts
<1>6. \A k \in Browser!Kinds : Browser!Inputs[k] # <<>> => Head(Browser!Inputs[k]) # "keys"
  BY <1>1, <1>2
<1>. QED  BY <1>1, <1>2, <1>3, <1>4, <1>5, <1>6

LEMMA LeftFacts ==
  /\ \A l \in Lefts : Len(l) \in Nat
  /\ \A l \in Lefts : l # <<>> =>
       /\ Head(l) \in {"click", "press", "set", "clear", "keys"}
       /\ Tail(l) \in Lefts /\ Len(Tail(l)) = Len(l) - 1 /\ Len(l) > 0
       /\ Head(l) = "clear" => Tail(l) \in Texts
  /\ \A l \in Texts : l \in Lefts /\ l # <<>> /\ Head(l) = "keys"
<1>1. /\ Tail(<<"click">>) = <<>> /\ Tail(<<"press">>) = <<>> /\ Tail(<<"set">>) = <<>>
      /\ Tail(<<"keys">>) = <<>> /\ Tail(<<"keys", "click">>) = <<"click">>
      /\ Tail(<<"keys", "keys">>) = <<"keys">> /\ Tail(<<"keys", "keys", "click">>) = <<"keys", "click">>
      /\ Tail(<<"clear", "keys", "keys">>) = <<"keys", "keys">>
      /\ Tail(<<"clear", "keys", "keys", "click">>) = <<"keys", "keys", "click">>
  OBVIOUS
<1>2. \A l \in Lefts : Len(l) \in Nat
  BY DEF Lefts, Texts
<1>3. \A l \in Lefts : l # <<>> =>
        Head(l) \in {"click", "press", "set", "clear", "keys"} /\ Len(Tail(l)) = Len(l) - 1 /\ Len(l) > 0
  BY <1>1 DEF Lefts, Texts
<1>4. \A l \in Lefts : l # <<>> => Tail(l) \in Lefts
  BY <1>1 DEF Lefts, Texts
<1>5. \A l \in Lefts : l # <<>> /\ Head(l) = "clear" => Tail(l) \in Texts
  <2> SUFFICES ASSUME NEW l \in Lefts, l # <<>>, Head(l) = "clear" PROVE Tail(l) \in Texts
    OBVIOUS
  <2>1. l \in {<<"clear", "keys", "keys">>, <<"clear", "keys", "keys", "click">>}
    <3>1. /\ Head(<<"click">>) = "click" /\ Head(<<"press">>) = "press" /\ Head(<<"set">>) = "set"
          /\ Head(<<"keys">>) = "keys" /\ Head(<<"keys", "click">>) = "keys"
          /\ Head(<<"keys", "keys">>) = "keys" /\ Head(<<"keys", "keys", "click">>) = "keys"
      OBVIOUS
    <3>. QED  BY <3>1 DEF Lefts, Texts
  <2>. QED  BY <1>1, <2>1 DEF Texts
<1>6. \A l \in Texts : l \in Lefts /\ l # <<>> /\ Head(l) = "keys"
  BY DEF Lefts, Texts
<1>. QED  BY <1>2, <1>3, <1>4, <1>5, <1>6

LEMMA OfferedKinds ==
  \A o \in Offered : o.kind \in Browser!Kinds /\ o.named \in Names
BY KindFacts DEF Offered, Names

LEMMA DocumentFacts ==
  /\ \A p \in Browser!NewDocument : p \in Browser!Document /\ p.id = 0
  /\ \A p \in Browser!NewDocument, n \in Nat :
       [p EXCEPT !.id = n] \in Browser!Document /\ [p EXCEPT !.id = n].id = n
  /\ \A p \in Browser!Document, a \in Locations :
       /\ [p EXCEPT !.address = a] \in Browser!Document /\ [p EXCEPT !.address = a].id = p.id
       /\ [p EXCEPT !.address = a].surface = p.surface /\ [p EXCEPT !.address = a].secret = p.secret
  /\ \A p \in Browser!Document :
       /\ [p EXCEPT !.target = ~@] \in Browser!Document /\ [p EXCEPT !.target = ~@].id = p.id
       /\ [p EXCEPT !.target = ~@].surface = p.surface /\ [p EXCEPT !.target = ~@].secret = p.secret
       /\ [p EXCEPT !.secret = TRUE] \in Browser!Document /\ [p EXCEPT !.secret = TRUE].id = p.id
       /\ [p EXCEPT !.secret = TRUE].surface = p.surface /\ [p EXCEPT !.secret = TRUE].secret = TRUE
<1>1. {0} \subseteq Nat /\ {FALSE} \subseteq BOOLEAN
  OBVIOUS
<1>2. \A p \in Browser!NewDocument : p \in Browser!Document /\ p.id = 0
  BY <1>1 DEF Browser!Document, Browser!NewDocument
<1>3. \A p \in Browser!Document, n \in Nat :
        [p EXCEPT !.id = n] \in Browser!Document /\ [p EXCEPT !.id = n].id = n
  BY DEF Browser!Document
<1>. QED  BY <1>2, <1>3 DEF Browser!Document

\* Everything queued is some task's.
LEMMA QueuedFacts ==
  ASSUME BrowserTypes
  PROVE  \A i \in 1..Len(queue) : queue[i] \in Queued /\ queue[i].task \in Tasks
<1>1. queue \in Seq(Queued)
  BY DEF BrowserTypes
<1>2. \A i \in 1..Len(queue) : queue[i] \in Queued
  BY <1>1
<1>. QED  BY <1>2 DEF Queued

LEMMA BrowserInit == Browser!Init => BrowserInv
<1> SUFFICES ASSUME Browser!Init PROVE BrowserInv
  OBVIOUS
<1>1. BrowserTypes
  <2>1. page \in Browser!Document /\ page.id = 0
    BY DocumentFacts DEF Browser!Init
  <2>2. <<>> \in Seq(Queued)
    OBVIOUS
  <2>. QED  BY <2>1, <2>2 DEF Browser!Init, BrowserTypes, Idle
<1>2. queue = <<>> /\ flying = {} /\ landed = {} /\ reads = {} /\ Idle
  BY DEF Browser!Init, Idle
<1>. QED
  BY <1>1, <1>2 DEF BrowserInv, OneEach, InFlight, Landings, Current, Failures, Browser!FailedCompletedNothing,
                    Browser!InputOnCheckedPage, Browser!SecretsUnread

\* What is known of the action a step is of.
LEMMA ActionFacts ==
  ASSUME BrowserInv, ~Idle
  PROVE  /\ action \in Running /\ Pinned /\ NoDocument \notin Nat
         /\ navigations \in Nat /\ page.id = navigations /\ page \in Browser!Document
         /\ action.pin \in Documents /\ action.found \in Documents /\ action.kind \in Browser!Kinds
         /\ action.sent \in BOOLEAN /\ action.saw \in BOOLEAN /\ action.task \in Tasks
         /\ action.left \in Lefts /\ action.at \in Steps
BY AdaptersAssumption DEF BrowserInv, BrowserTypes, Running, Browser!BrowserAssumption

LEMMA AtFacts ==
  ASSUME NEW s, Browser!At(s)
  PROVE  ~Idle /\ action.at = s
BY DEF Browser!At, Idle

\* A page that stays or is left disturbs nothing sent before.
LEMMA FlightKeeps ==
  ASSUME BrowserInv, UNCHANGED <<queue, report, flying, landed>>,
         navigations' \in Nat, navigations <= navigations',
         navigations' = navigations => page'.surface = page.surface
  PROVE  InFlight' /\ Landings' /\ Failures' /\ Browser!InputOnCheckedPage'
<1>1. InFlight'
  <2>1. navigations \in Nat
    BY DEF BrowserInv, BrowserTypes
  <2>2. \A f \in flying : f.pin \in Nat /\ f.pin <= navigations /\ (f.pin = navigations => ~page.surface)
    BY DEF BrowserInv, InFlight
  <2>3. \A f \in flying : f.pin <= navigations' /\ (f.pin = navigations' => ~page'.surface)
    BY <2>1, <2>2
  <2>. QED
    BY <2>3 DEF BrowserInv, InFlight, Begins, Under, Browser!Astray
<1>2. Landings'
  BY DEF BrowserInv, Landings, Begins
<1>3. Failures'
  BY DEF BrowserInv, Failures, Browser!FailedCompletedNothing
<1>. QED
  BY <1>1, <1>2, <1>3 DEF BrowserInv, Browser!InputOnCheckedPage, Browser!Astray

\* The running action goes on without a new input.
LEMMA StepKeeps ==
  ASSUME BrowserInv, ~Idle, action' \in Running, action'.task = action.task,
         UNCHANGED <<report, queue, flying, landed>>, navigations <= navigations',
         page' \in Browser!Document, navigations' \in Nat, page'.id = navigations',
         navigations' = navigations => page'.surface = page.surface,
         Pinned', Current', Browser!SecretsUnread'
  PROVE  BrowserInv'
<1>1. BrowserTypes'
  BY DEF BrowserInv, BrowserTypes
<1>2. OneEach'
  BY DEF BrowserInv, OneEach, Idle
<1>. QED  BY <1>1, <1>2, FlightKeeps DEF BrowserInv

\* At no wait for an input, the action has none on its way.
LEMMA GoesOn ==
  ASSUME BrowserInv, ~Idle, action.at # "sent", action'.task = action.task,
         action'.kind = action.kind, action'.left = action.left,
         action.sent => action'.sent /\ action'.pin = action.pin,
         UNCHANGED <<flying, landed>>, navigations' \in Nat, navigations <= navigations'
  PROVE  Current'
<1>1. \A f \in flying : f.task # action.task
  BY DEF BrowserInv, Current, Flies
<1>2. ASSUME NEW m \in landed, m.task = action.task PROVE Reached(m)'
  <2>1. Reached(m)
    BY <1>2 DEF BrowserInv, Current
  <2>2. action.pin \in Nat => action.pin <= navigations
    BY ActionFacts DEF Pinned, Formed, Placed
  <2>3. action.pin \in Nat /\ Browser!Astray(m) => action.pin # navigations'
    BY <2>1, <2>2, ActionFacts DEF Reached
  <2>. QED  BY <2>1, <2>3 DEF Reached, Browser!Astray
<1>. QED  BY <1>1, <1>2 DEF Current

\* It moves on with nothing sent and the page as it was.
LEMMA MoveKeeps ==
  ASSUME BrowserInv, ~Idle, action' \in Running, action'.task = action.task, action'.sent = action.sent,
         action'.kind = action.kind, action'.left = action.left, action.sent => action'.pin = action.pin,
         action.at # "sent", UNCHANGED report, Browser!KeepsTheRest, Pinned'
  PROVE  BrowserInv'
<1>1. /\ UNCHANGED <<queue, page, flying, landed, reads, navigations>>
      /\ page' \in Browser!Document /\ navigations' \in Nat /\ page'.id = navigations'
      /\ navigations <= navigations'
  BY ActionFacts DEF Browser!KeepsTheRest
<1>2. Browser!SecretsUnread'
  BY <1>1 DEF BrowserInv, Browser!SecretsUnread
<1>3. Current'
  BY <1>1, GoesOn
<1>. QED  BY <1>1, <1>2, <1>3, StepKeeps

\* It is answered: as failed only when at most one input of its task, of those
\* that keep no record, is on its way or has landed.
LEMMA AnswerKeeps ==
  ASSUME BrowserInv, ~Idle, NEW what \in {"done", "failed", "unknown"}, Browser!Answer(what),
         UNCHANGED <<queue, page, reads, navigations>>, flying' \subseteq flying,
         \A m \in landed' : m \in landed \/ (m.task = action.task /\ m.left \in Nat),
         \A f \in flying', m \in landed' : f.task = m.task => m \in landed,
         what = "failed" =>
           /\ \A f \in flying' : f.task = action.task =>
                f.input \in Browser!Unlogged /\ \A m \in landed' : m.task # action.task
           /\ \A m \in landed' : m.task = action.task => m.input \in Browser!Unlogged
           /\ \A l, m \in landed' : l.task = action.task /\ m.task = action.task => l = m,
         Browser!InputOnCheckedPage'
  PROVE  BrowserInv'
<1>1. /\ report' = [report EXCEPT ![action.task] = what] /\ Idle'
      /\ action.task \in Tasks /\ report \in [Tasks -> {"none", "asked", "done", "failed", "unknown"}]
  BY DEF Browser!Answer, BrowserInv, BrowserTypes, Running, Idle
<1>2. BrowserTypes'
  BY <1>1 DEF BrowserInv, BrowserTypes
<1>3. OneEach'
  <2>1. \A i \in 1..Len(queue) : queue[i].task # action.task /\ queue[i].task \in Tasks
    BY QueuedFacts DEF BrowserInv, OneEach
  <2>2. \A i \in 1..Len(queue) : report'[queue[i].task] = report[queue[i].task]
    BY <1>1, <2>1
  <2>. QED  BY <1>1, <2>2 DEF BrowserInv, OneEach, Idle
<1>4. ASSUME NEW t, Begins(t) \/ t = action.task PROVE Begins(t)'
  BY <1>1, <1>4 DEF Begins, BrowserInv, OneEach
<1>5. Landings'
  BY <1>4 DEF BrowserInv, Landings
<1>6. InFlight'
  BY <1>4 DEF BrowserInv, InFlight, Under, Browser!Astray
<1>7. Failures'
  <2>1. ASSUME NEW f \in flying', report'[f.task] = "failed"
        PROVE  f.input \in Browser!Unlogged /\ \A m \in landed' : m.task # f.task
    <3>1. CASE f.task = action.task
      BY <1>1, <2>1, <3>1
    <3>2. CASE f.task # action.task
      <4>1. f \in flying /\ report[f.task] = "failed" /\ f.task \in Tasks
        BY <1>1, <2>1, <3>2 DEF BrowserInv, InFlight, Begins
      <4>2. f.input \in Browser!Unlogged /\ \A m \in landed : m.task # f.task
        BY <4>1 DEF BrowserInv, Failures
      <4>. QED  BY <3>2, <4>2
    <3>. QED  BY <3>1, <3>2
  <2>2. ASSUME NEW l \in landed', report'[l.task] = "failed"
        PROVE  l.input \in Browser!Unlogged /\ \A m \in landed' : m.task = l.task => m = l
    <3>1. CASE l.task = action.task
      BY <1>1, <2>2, <3>1
    <3>2. CASE l.task # action.task
      <4>1. l \in landed /\ report[l.task] = "failed"
        BY <1>1, <2>2, <3>2 DEF BrowserInv, Landings, Begins
      <4>2. l.input \in Browser!Unlogged /\ \A m \in landed : m.task = l.task => m = l
        BY <4>1 DEF BrowserInv, Failures, Browser!FailedCompletedNothing
      <4>. QED  BY <3>2, <4>2
    <3>. QED  BY <3>1, <3>2
  <2>. QED  BY <2>1, <2>2 DEF Failures, Browser!FailedCompletedNothing
<1>8. Current' /\ Browser!SecretsUnread'
  BY <1>1 DEF Current, BrowserInv, Browser!SecretsUnread
<1>. QED  BY <1>1, <1>2, <1>3, <1>5, <1>6, <1>7, <1>8 DEF BrowserInv

\* Unless something was sent, or a click is under way, nothing has landed and
\* only an input that keeps no record may.
LEMMA UnsentFacts ==
  ASSUME BrowserInv, ~Idle, ~(action.sent \/ Browser!Performed)
  PROVE  /\ \A m \in landed : m.task # action.task
         /\ \A f \in flying : f.task = action.task => f.input \in Browser!Unlogged
<1>1. \A m \in landed : m.task # action.task
  BY DEF BrowserInv, Current, Reached
<1>2. ASSUME NEW f \in flying, f.task = action.task PROVE f.input \in Browser!Unlogged
  <2>1. action.at = "sent" /\ f.input = Head(action.left)
    BY <1>2 DEF BrowserInv, Current, Flies
  <2>2. action.left # <<>> /\ Head(action.left) \in {"click", "press", "set", "clear", "keys"}
    <3>1. action.left \in Lefts /\ action.left # <<>>
      BY <2>1, ActionFacts DEF Pinned, Formed, Sending, Acting
    <3>. QED  BY <3>1, LeftFacts
  <2>3. Head(action.left) # "click" /\ Head(action.left) # "keys"
    BY <2>1, <2>2, ActionFacts DEF Browser!Performed, Browser!At, Idle, Pinned, Formed
  <2>. QED  BY <2>1, <2>2, <2>3 DEF Browser!Unlogged
<1>. QED  BY <1>1, <1>2

\* A failure tells what was sent.
LEMMA FailKeeps ==
  ASSUME BrowserInv, ~Idle, Browser!Fail, UNCHANGED <<queue, page, flying, landed, reads, navigations>>
  PROVE  BrowserInv'
<1>1. Browser!InputOnCheckedPage'
  BY DEF BrowserInv, Browser!InputOnCheckedPage, Browser!Astray
<1>2. CASE action.sent \/ Browser!Performed
  <2>1. Browser!Answer("unknown")
    BY <1>2 DEF Browser!Fail, Browser!FailWith
  <2>. QED  BY <1>1, <2>1, AnswerKeeps
<1>3. CASE ~(action.sent \/ Browser!Performed)
  <2>1. Browser!Answer("failed")
    BY <1>3 DEF Browser!Fail, Browser!FailWith
  <2>. QED  BY <1>1, <1>3, <2>1, AnswerKeeps, UnsentFacts
<1>. QED  BY <1>2, <1>3

LEMMA GoesToFacts ==
  ASSUME action \in Running, NEW s \in Steps, Browser!GoesTo(s)
  PROVE  /\ action' \in Running /\ action'.at = s /\ UNCHANGED report
         /\ action'.task = action.task /\ action'.kind = action.kind /\ action'.named = action.named
         /\ action'.sent = action.sent /\ action'.pin = action.pin /\ action'.found = action.found
         /\ action'.left = action.left /\ action'.saw = action.saw
BY DEF Browser!GoesTo, Running

\* The page by itself: a document it leaves, it does not come back to.
LEMMA PageKeeps ==
  ASSUME BrowserInv, Browser!PageNavigates \/ Browser!PageChanges
  PROVE  BrowserInv'
<1>1. /\ UNCHANGED <<queue, action, report, flying, landed, reads>>
      /\ page' \in Browser!Document /\ navigations' \in Nat /\ page'.id = navigations'
      /\ \/ navigations' = navigations + 1
         \/ navigations' = navigations /\ page'.surface = page.surface /\ (page.secret => page'.secret)
  <2>1. CASE Browser!PageNavigates
    <3>1. PICK p \in Browser!NewDocument : Browser!Goes(p)
      BY <2>1 DEF Browser!PageNavigates
    <3>2. navigations' \in Nat /\ navigations' = navigations + 1 /\ page' = [p EXCEPT !.id = navigations']
      BY <3>1 DEF Browser!Goes, BrowserInv, BrowserTypes
    <3>3. UNCHANGED <<queue, action, report, flying, landed, reads>>
      BY <2>1 DEF Browser!PageNavigates
    <3>. QED  BY <3>2, <3>3, DocumentFacts
  <2>2. CASE Browser!PageChanges
    <3>1. CASE \E a \in Locations : page' = [page EXCEPT !.address = a]
      BY <2>2, <3>1, DocumentFacts DEF Browser!PageChanges, BrowserInv, BrowserTypes
    <3>2. CASE page' \in {[page EXCEPT !.target = ~@], [page EXCEPT !.secret = TRUE]}
      BY <2>2, <3>2, DocumentFacts DEF Browser!PageChanges, BrowserInv, BrowserTypes
    <3>. QED  BY <2>2, <3>1, <3>2 DEF Browser!PageChanges
  <2>. QED  BY <2>1, <2>2
<1>2. /\ navigations \in Nat /\ navigations <= navigations'
      /\ navigations' = navigations => page'.surface = page.surface
  BY <1>1 DEF BrowserInv, BrowserTypes
<1>3. Browser!SecretsUnread'
  BY <1>1 DEF BrowserInv, Browser!SecretsUnread
<1>4. CASE Idle
  <2>1. Idle'
    BY <1>1, <1>4 DEF Idle
  <2>2. BrowserTypes' /\ OneEach'
    BY <1>1, <2>1 DEF BrowserInv, BrowserTypes, OneEach
  <2>3. Current'
    BY <2>1 DEF Current
  <2>. QED
    BY <1>1, <1>2, <1>3, <2>1, <2>2, <2>3, FlightKeeps DEF BrowserInv
<1>5. CASE ~Idle
  <2>1. /\ Pinned /\ action' = action /\ NoDocument \notin Nat /\ navigations \in Nat
        /\ action.pin \in Documents /\ action.found \in Documents
    BY <1>1, <1>5, ActionFacts
  <2>2. Pinned'
    <3>1. Formed'
      BY <2>1 DEF Pinned, Formed
    <3>2. CASE navigations' = navigations + 1
      <4>1. \A d \in Documents : d # NoDocument /\ d <= navigations => d <= navigations' /\ d # navigations'
        BY <2>1, <3>2 DEF Documents
      <4>2. /\ action.pin # NoDocument => action.pin <= navigations /\ action.pin \in Nat
            /\ action.found # NoDocument => action.found <= navigations /\ action.found \in Nat
        BY <2>1 DEF Pinned, Formed, Placed, Documents
      <4>3. /\ action.pin # NoDocument => action.pin # navigations' /\ action.pin <= navigations'
            /\ action.found # NoDocument => action.found # navigations' /\ action.found <= navigations'
        BY <2>1, <4>1, <4>2
      <4>4. NoDocument # navigations' /\ action.found # navigations'
        BY <1>1, <2>1, <4>3
      <4>5. action.pin \in Nat => action.pin # navigations' /\ action.pin <= navigations'
        BY <2>1, <4>3
      <4>. QED  BY <2>1, <3>1, <4>3, <4>4, <4>5, Zenon DEF Pinned, Placed
    <3>3. CASE navigations' = navigations /\ page'.surface = page.surface /\ (page.secret => page'.secret)
      BY <2>1, <3>1, <3>3 DEF Pinned, Placed
    <3>. QED  BY <1>1, <3>2, <3>3
  <2>3. Current'
    <3>1. \A f \in flying : f.task = action.task => Flies(f)'
      BY <1>1, <1>5, <2>1 DEF BrowserInv, Current, Flies
    <3>2. ASSUME NEW m \in landed, m.task = action.task PROVE Reached(m)'
      <4>1. Reached(m)
        BY <1>5, <3>2 DEF BrowserInv, Current
      <4>2. action.pin \in Nat => action.pin <= navigations
        BY <2>1 DEF Pinned, Formed, Placed
      <4>3. action.pin \in Nat /\ Browser!Astray(m) => action.pin # navigations'
        BY <1>2, <2>1, <4>1, <4>2 DEF Reached
      <4>. QED  BY <1>1, <2>1, <4>1, <4>3 DEF Reached, Browser!Astray
    <3>. QED  BY <1>1, <2>1, <3>1, <3>2 DEF Current
  <2>. QED  BY <1>1, <1>2, <1>3, <1>5, <2>1, <2>2, <2>3, StepKeeps DEF BrowserInv, BrowserTypes
<1>. QED  BY <1>4, <1>5

LEMMA SubmitKeeps ==
  ASSUME BrowserInv, NEW t \in Tasks, NEW asked \in Offered, Browser!Submit(t, asked)
  PROVE  BrowserInv'
<1> DEFINE new == [task |-> t, kind |-> asked.kind, named |-> asked.named]
           n == Len(queue)
<1>1. /\ report[t] = "none" /\ report' = [report EXCEPT ![t] = "asked"] /\ queue' = Append(queue, new)
      /\ UNCHANGED <<action, page, flying, landed, reads, navigations>>
  BY DEF Browser!Submit
<1>2. new \in Queued /\ queue \in Seq(Queued) /\ n \in Nat
  BY OfferedKinds DEF Queued, BrowserInv, BrowserTypes
<1>3. /\ queue' \in Seq(Queued) /\ Len(queue') = n + 1
      /\ \A i \in 1..n : queue'[i] = queue[i] /\ queue[i].task \in Tasks
      /\ queue'[n + 1] = new /\ new.task = t
  <2>1. \A i \in 1..n : queue[i] \in Queued
    BY <1>2
  <2> HIDE DEF new
  <2>2. queue' \in Seq(Queued) /\ Len(queue') = n + 1 /\ queue'[n + 1] = new
        /\ \A i \in 1..n : queue'[i] = queue[i]
    BY <1>1, <1>2, AppendProperties
  <2>. QED  BY <2>1, <2>2 DEF new, Queued
<1>4. BrowserTypes'
  BY <1>1, <1>3 DEF BrowserInv, BrowserTypes, Idle
<1>5. \A i \in 1..n : queue[i].task # t
  BY <1>1 DEF BrowserInv, OneEach
<1>6. OneEach'
  <2>1. /\ ~Idle => action.task \in Tasks /\ action.task # t
        /\ report \in [Tasks -> {"none", "asked", "done", "failed", "unknown"}]
    BY <1>1 DEF BrowserInv, OneEach, BrowserTypes, Running
  <2>2. \A i \in 1..(n + 1) : report'[queue'[i].task] = "asked"
    <3> SUFFICES ASSUME NEW i \in 1..(n + 1) PROVE report'[queue'[i].task] = "asked"
      OBVIOUS
    <3>1. CASE i = n + 1
      BY <1>1, <1>3, <2>1, <3>1
    <3>2. CASE i # n + 1
      <4>1. i \in 1..n
        BY <1>2, <3>2
      <4>. QED  BY <1>1, <1>3, <1>5, <2>1, <4>1 DEF BrowserInv, OneEach
    <3>. QED  BY <3>1, <3>2
  <2>3. \A i, j \in 1..(n + 1) : queue'[i].task = queue'[j].task => i = j
    <3>1. \A i \in 1..(n + 1) : i \in 1..n \/ i = n + 1
      BY <1>2
    <3>. QED  BY <1>2, <1>3, <1>5, <3>1 DEF BrowserInv, OneEach
  <2>4. ~Idle' => report'[action'.task] = "asked" /\ \A i \in 1..(n + 1) : queue'[i].task # action'.task
    <3>1. \A i \in 1..(n + 1) : i \in 1..n \/ i = n + 1
      BY <1>2
    <3>. QED  BY <1>1, <1>3, <2>1, <3>1 DEF BrowserInv, OneEach, Idle
  <2>. QED  BY <1>3, <2>2, <2>3, <2>4 DEF OneEach
<1>7. ASSUME NEW u, Begins(u) PROVE Begins(u)' /\ report'[u] = report[u]
  <2>1. u \in Tasks /\ report[u] # "none" /\ \A i \in 1..n : queue[i].task # u
    BY <1>7 DEF Begins
  <2>2. u # t /\ report'[u] = report[u]
    BY <1>1, <2>1 DEF BrowserInv, BrowserTypes
  <2>3. \A i \in 1..(n + 1) : i \in 1..n \/ i = n + 1
    BY <1>2
  <2>. QED  BY <1>3, <2>1, <2>2, <2>3 DEF Begins
<1>8. InFlight' /\ Landings' /\ Failures'
  <2>1. InFlight'
    BY <1>1, <1>7 DEF BrowserInv, InFlight, Under, Browser!Astray
  <2>2. Landings'
    BY <1>1, <1>7 DEF BrowserInv, Landings
  <2>3. \A f \in flying : report'[f.task] = report[f.task]
    BY <1>7 DEF BrowserInv, InFlight
  <2>4. \A m \in landed : report'[m.task] = report[m.task]
    BY <1>7 DEF BrowserInv, Landings
  <2>5. Failures'
    BY <1>1, <2>3, <2>4 DEF BrowserInv, Failures, Browser!FailedCompletedNothing
  <2>. QED  BY <2>1, <2>2, <2>5
<1>9. (~Idle => Pinned)' /\ Current' /\ Browser!InputOnCheckedPage' /\ Browser!SecretsUnread'
  <2>1. (~Idle => Pinned)'
    BY <1>1 DEF BrowserInv, Pinned, Formed, Placed, Idle
  <2>2. Current'
    BY <1>1 DEF BrowserInv, Current, Idle, Flies, Reached, Browser!Astray
  <2>. QED  BY <1>1, <2>1, <2>2 DEF BrowserInv, Browser!InputOnCheckedPage, Browser!SecretsUnread, Browser!Astray
<1>. QED  BY <1>4, <1>6, <1>8, <1>9 DEF BrowserInv

LEMMA BeginKeeps ==
  ASSUME BrowserInv, Browser!Begin
  PROVE  BrowserInv'
<1> DEFINE head == Head(queue)
           n == Len(queue)
<1>1. /\ Idle /\ queue # <<>> /\ queue' = Tail(queue)
      /\ UNCHANGED <<page, flying, landed, reads, navigations>>
  BY DEF Browser!Begin, Idle
<1>2. queue \in Seq(Queued) /\ n \in Nat /\ report \in [Tasks -> {"none", "asked", "done", "failed", "unknown"}]
  BY DEF BrowserInv, BrowserTypes
<1>3. /\ n > 0 /\ head = queue[1] /\ head \in Queued
      /\ queue' \in Seq(Queued) /\ Len(queue') = n - 1
      /\ \A i \in 1..(n - 1) : i + 1 \in 1..n /\ queue'[i] = queue[i + 1]
  BY <1>1, <1>2, HeadTailProperties, EmptySeq
<1>4. /\ head.task \in Tasks /\ report[head.task] = "asked"
      /\ \A i \in 1..(n - 1) : queue'[i].task # head.task /\ queue'[i].task \in Tasks
                               /\ report[queue'[i].task] = "asked"
      /\ \A i, j \in 1..(n - 1) : queue'[i].task = queue'[j].task => i = j
      /\ \A u : Begins(u) => u # head.task
  <2>1. 1 \in 1..n /\ \A i \in 1..n : queue[i] \in Queued
    BY <1>2, <1>3
  <2>2. head.task \in Tasks /\ report[head.task] = "asked"
    BY <1>3, <2>1 DEF BrowserInv, OneEach, Queued
  <2>3. \A i \in 1..(n - 1) : queue'[i].task # head.task /\ queue'[i].task \in Tasks
                              /\ report[queue'[i].task] = "asked"
    <3> SUFFICES ASSUME NEW i \in 1..(n - 1)
                 PROVE queue'[i].task # head.task /\ queue'[i].task \in Tasks /\ report[queue'[i].task] = "asked"
      OBVIOUS
    <3>1. i + 1 \in 1..n /\ queue'[i] = queue[i + 1] /\ i + 1 # 1
      BY <1>2, <1>3
    <3>. QED  BY <1>3, <2>1, <3>1, QueuedFacts DEF BrowserInv, OneEach
  <2>4. \A i, j \in 1..(n - 1) : queue'[i].task = queue'[j].task => i = j
    <3> SUFFICES ASSUME NEW i \in 1..(n - 1), NEW j \in 1..(n - 1), queue'[i].task = queue'[j].task PROVE i = j
      OBVIOUS
    <3>1. i + 1 = j + 1
      BY <1>3 DEF BrowserInv, OneEach
    <3>. QED  BY <1>2, <3>1
  <2>5. \A u : Begins(u) => u # head.task
    BY <1>3, <2>1 DEF Begins
  <2>. QED  BY <2>2, <2>3, <2>4, <2>5
<1>5. ASSUME NEW u, Begins(u), report' = report \/ report' = [report EXCEPT ![head.task] = "failed"]
      PROVE  Begins(u)' /\ report'[u] = report[u] /\ u # head.task
  <2>1. \A i \in 1..(n - 1) : queue'[i].task # u
    BY <1>3, <1>5 DEF Begins
  <2>2. u \in Tasks /\ report[u] # "none" /\ u # head.task
    BY <1>4, <1>5 DEF Begins
  <2>. QED  BY <1>2, <1>3, <1>5, <2>1, <2>2 DEF Begins
<1>6. ASSUME report' = report \/ report' = [report EXCEPT ![head.task] = "failed"]
      PROVE  /\ InFlight' /\ Landings' /\ Failures'
             /\ \A f \in flying : f.task # head.task
             /\ \A m \in landed : m.task # head.task
  <2>1. \A f \in flying : Begins(f.task)' /\ report'[f.task] = report[f.task] /\ f.task # head.task
    BY <1>5, <1>6 DEF BrowserInv, InFlight
  <2>2. \A m \in landed : Begins(m.task)' /\ report'[m.task] = report[m.task] /\ m.task # head.task
    BY <1>5, <1>6 DEF BrowserInv, Landings
  <2>3. InFlight'
    BY <1>1, <2>1 DEF BrowserInv, InFlight, Under, Browser!Astray
  <2>4. Landings'
    BY <1>1, <2>2 DEF BrowserInv, Landings
  <2>5. Failures'
    BY <1>1, <2>1, <2>2 DEF BrowserInv, Failures, Browser!FailedCompletedNothing
  <2>. QED  BY <2>1, <2>2, <2>3, <2>4, <2>5
<1>7. /\ Browser!InputOnCheckedPage' /\ Browser!SecretsUnread'
      /\ page' \in Browser!Document /\ navigations' \in Nat /\ page'.id = navigations'
  BY <1>1 DEF BrowserInv, BrowserTypes, Browser!InputOnCheckedPage, Browser!SecretsUnread, Browser!Astray
<1>8. CASE action' = Browser!Begun(head) /\ UNCHANGED report
  <2>1. /\ action' \in Running /\ action'.task = head.task /\ action'.at = "pinning"
        /\ action'.pin = NoDocument /\ action'.found = NoDocument /\ ~action'.sent
        /\ action'.kind = head.kind /\ action'.left = Browser!Inputs[head.kind] /\ head.kind \in Browser!Kinds
    BY <1>3, <1>8, KindFacts DEF Browser!Begun, Running, Queued, Steps, Documents
  <2>2. BrowserTypes'
    BY <1>3, <1>7, <1>8, <2>1 DEF BrowserInv, BrowserTypes
  <2>3. OneEach'
    BY <1>3, <1>4, <1>8, <2>1 DEF OneEach
  <2>4. Current'
    BY <1>1, <1>6, <1>8, <2>1 DEF Current
  <2>5. Pinned'
    BY <2>1, KindFacts DEF Pinned, Formed, Placed, Sending, Acting
  <2>. QED  BY <1>6, <1>7, <1>8, <2>2, <2>3, <2>4, <2>5 DEF BrowserInv
<1>9. CASE report' = [report EXCEPT ![head.task] = "failed"] /\ UNCHANGED action
  <2>1. Idle'
    BY <1>1, <1>9 DEF Idle
  <2>2. BrowserTypes'
    BY <1>2, <1>3, <1>7, <1>9, <2>1 DEF BrowserInv, BrowserTypes
  <2>3. OneEach'
    BY <1>2, <1>3, <1>4, <1>9, <2>1 DEF OneEach
  <2>4. Current'
    BY <2>1 DEF Current
  <2>. QED  BY <1>6, <1>7, <1>9, <2>1, <2>2, <2>3, <2>4 DEF BrowserInv
<1>. QED  BY <1>8, <1>9 DEF Browser!Begin

\* A step that only moves on to s, where it hands nothing over.
LEMMA GoesKeeps ==
  ASSUME BrowserInv, ~Idle, NEW s \in Steps, Browser!GoesTo(s), Browser!KeepsTheRest, action.at # "sent",
         s \notin {"pinning", "address", "sent", "focusing", "typing", "checking again"},
         s \in Sending => action.kind \in Browser!InputKinds,
         action.at \in Checking \cup Sending \/ s \notin Sending,
         action.at # "pinning",
         s = "surface" => action.at = "address",
         s = "closing" => action.kind = "close",
         s = "capturing" => action.kind = "screenshot",
         s \in Sending /\ action.pin = navigations => ~page.surface,
         s \in {"ready", "acting"} => action.found # NoDocument,
         s = "acting" => action.found = action.pin
  PROVE  BrowserInv'
<1>1. /\ action' \in Running /\ action'.at = s /\ UNCHANGED report
      /\ action'.task = action.task /\ action'.kind = action.kind /\ action'.named = action.named
      /\ action'.sent = action.sent /\ action'.pin = action.pin /\ action'.found = action.found
      /\ action'.left = action.left /\ action'.saw = action.saw
  BY ActionFacts, GoesToFacts
<1>2. UNCHANGED <<page, navigations>>
  BY DEF Browser!KeepsTheRest
<1>3. Formed'
  BY <1>1, <1>2, ActionFacts DEF Pinned, Formed, Checking, Sending, Acting
<1>4. Placed'
  BY <1>1, <1>2, ActionFacts DEF Pinned, Placed
<1>. QED  BY <1>1, <1>3, <1>4, MoveKeeps DEF Pinned

LEMMA PinKeeps == BrowserInv /\ Browser!Pin => BrowserInv'
<1> SUFFICES ASSUME BrowserInv, Browser!Pin PROVE BrowserInv'
  OBVIOUS
<1>1. ~Idle /\ action.at = "pinning"
  BY AtFacts DEF Browser!Pin
<1>2. /\ action' = [action EXCEPT !.at = "address",
                                   !.pin = IF action.kind \in Browser!InputKinds THEN page.id ELSE @]
      /\ UNCHANGED report /\ Browser!KeepsTheRest /\ UNCHANGED <<page, navigations>>
  BY DEF Browser!Pin, Browser!KeepsTheRest
<1>3. /\ action' \in Running /\ action'.task = action.task /\ action'.sent = action.sent
      /\ action'.at = "address" /\ action'.kind = action.kind /\ action'.found = action.found
      /\ action'.left = action.left
      /\ action'.pin = IF action.kind \in Browser!InputKinds THEN page.id ELSE action.pin
  BY <1>1, <1>2, ActionFacts DEF Running, Documents, Steps
<1>4. Formed' /\ ~action.sent
  BY <1>1, <1>2, <1>3, ActionFacts DEF Pinned, Formed, Sending, Acting, Checking
<1>5. Placed'
  BY <1>1, <1>2, <1>3, ActionFacts DEF Pinned, Formed, Placed, Sending, Acting, Checking
<1>. QED  BY <1>1, <1>2, <1>3, <1>4, <1>5, MoveKeeps DEF Pinned

LEMMA ChecksKeep == BrowserInv /\ (Browser!CheckAddress \/ Browser!CheckSurface) => BrowserInv'
<1> SUFFICES ASSUME BrowserInv, Browser!CheckAddress \/ Browser!CheckSurface PROVE BrowserInv'
  OBVIOUS
<1>1. ~Idle /\ action.at \in {"address", "surface"} /\ Browser!KeepsTheRest
  BY AtFacts DEF Browser!CheckAddress, Browser!CheckSurface
<1>2. UNCHANGED <<queue, page, flying, landed, reads, navigations>>
  BY <1>1 DEF Browser!KeepsTheRest
<1>3. CASE Browser!Fail
  BY <1>1, <1>2, <1>3, FailKeeps
<1>4. CASE Browser!CheckAddress /\ Browser!GoesTo("surface")
  <2>1. action.at = "address"
    BY <1>4, AtFacts DEF Browser!CheckAddress
  <2>. QED  BY <1>1, <1>4, <2>1, GoesKeeps DEF Steps, Sending, Acting
<1>5. CASE Browser!CheckSurface /\ ~Browser!Fail
  <2>1. /\ action.kind \in Browser!InputKinds => ~page.surface
        /\ Browser!GoesTo(CASE action.kind \in Browser!InputKinds -> "finding"
                            [] action.kind = "close" -> "closing"
                            [] action.kind = "navigate" -> "navigating"
                            [] OTHER -> "secrets")
    BY <1>5 DEF Browser!CheckSurface
  <2>2. CASE action.kind \in Browser!InputKinds
    <3>1. Browser!GoesTo("finding")
      BY <2>1, <2>2, KindFacts
    <3>. QED  BY <1>1, <2>1, <2>2, <3>1, GoesKeeps DEF Steps, Sending, Acting, Checking
  <2>3. CASE action.kind \notin Browser!InputKinds
    <3>1. PICK s \in {"closing", "navigating", "secrets"} :
            Browser!GoesTo(s) /\ (s = "closing" => action.kind = "close")
      BY <2>1, <2>3
    <3>. QED  BY <1>1, <2>3, <3>1, GoesKeeps DEF Steps, Sending, Acting
  <2>. QED  BY <2>2, <2>3
<1>. QED  BY <1>3, <1>4, <1>5 DEF Browser!CheckAddress

LEMMA AnswersKeep == BrowserInv /\ (Browser!Abandon \/ Browser!Finish) => BrowserInv'
<1> SUFFICES ASSUME BrowserInv, Browser!Abandon \/ Browser!Finish PROVE BrowserInv'
  OBVIOUS
<1>1. CASE Browser!Abandon
  BY <1>1, FailKeeps DEF Browser!Abandon, Browser!KeepsTheRest, Idle
<1>2. CASE Browser!Finish
  <2>1. ~Idle /\ Browser!Answer("done") /\ UNCHANGED <<queue, page, flying, landed, reads, navigations>>
    BY <1>2, AtFacts DEF Browser!Finish, Browser!KeepsTheRest
  <2>2. Browser!InputOnCheckedPage'
    BY <2>1 DEF BrowserInv, Browser!InputOnCheckedPage, Browser!Astray
  <2>. QED  BY <2>1, <2>2, AnswerKeeps
<1>. QED  BY <1>1, <1>2

LEMMA FindKeeps == BrowserInv /\ Browser!Find => BrowserInv'
<1> SUFFICES ASSUME BrowserInv, Browser!Find PROVE BrowserInv'
  OBVIOUS
<1>1. /\ ~Idle /\ action.at = "finding" /\ Browser!KeepsTheRest
      /\ UNCHANGED <<queue, page, flying, landed, reads, navigations>>
  BY AtFacts DEF Browser!Find, Browser!KeepsTheRest
<1>2. CASE Browser!Fail
  BY <1>1, <1>2, FailKeeps
<1>3. CASE action' = [action EXCEPT !.found = page.id, !.at = "ready"] /\ UNCHANGED report
  <2>1. /\ action' \in Running /\ action'.task = action.task /\ action'.sent = action.sent
        /\ action'.at = "ready" /\ action'.kind = action.kind /\ action'.found = page.id
        /\ action'.left = action.left /\ action'.pin = action.pin
    BY <1>1, <1>3, ActionFacts DEF Running, Documents, Steps
  <2>2. Formed'
    BY <1>1, <2>1, ActionFacts DEF Pinned, Formed, Sending, Acting, Checking
  <2>3. Placed'
    BY <1>1, <2>1, ActionFacts DEF Pinned, Formed, Placed, Sending
  <2>. QED  BY <1>1, <1>3, <2>1, <2>2, <2>3, MoveKeeps DEF Pinned
<1>. QED  BY <1>2, <1>3 DEF Browser!Find

\* Where nothing has moved, the target was found where the action is pinned.
LEMMA ReadyKeeps == BrowserInv /\ Browser!Ready => BrowserInv'
<1> SUFFICES ASSUME BrowserInv, Browser!Ready PROVE BrowserInv'
  OBVIOUS
<1>1. /\ ~Idle /\ action.at = "ready" /\ Browser!KeepsTheRest
      /\ UNCHANGED <<queue, page, flying, landed, reads, navigations>>
  BY AtFacts DEF Browser!Ready, Browser!KeepsTheRest
<1>2. CASE Browser!Moved
  BY <1>1, <1>2, FailKeeps DEF Browser!Ready
<1>3. CASE ~Browser!Moved
  <2>1. action.pin = navigations /\ action.kind \in Browser!InputKinds /\ ~page.surface
    BY <1>1, <1>3, ActionFacts DEF Browser!Moved, Pinned, Formed, Placed, Sending
  <2>2. action.found \in Nat /\ action.pin <= action.found /\ action.found <= navigations
    BY <1>1, <2>1, ActionFacts DEF Pinned, Formed, Placed, Documents
  <2>3. action.found = action.pin /\ action.found # NoDocument
    <3>1. navigations \in Nat /\ NoDocument \notin Nat
      BY <1>1, ActionFacts
    <3>. QED  BY <2>1, <2>2, <3>1
  <2>. QED  BY <1>1, <1>3, <2>1, <2>3, GoesKeeps DEF Browser!Ready, Steps, Sending, Acting
<1>. QED  BY <1>2, <1>3

\* An element that is gone is looked for again with nothing on its way.
LEMMA AgainFacts ==
  ASSUME BrowserInv, ~Idle, action.at \in Sending, NEW s \in BOOLEAN, NEW l \in Lefts,
         Browser!Again(s, l), l # <<>>, Head(l) = "keys" => s, Head(l) = "clear" => l = Browser!Inputs[action.kind],
         UNCHANGED <<page, navigations>>
  PROVE  /\ action' \in Running /\ action'.task = action.task /\ action'.kind = action.kind
         /\ action'.pin = action.pin /\ action'.left = l /\ action'.sent = s /\ action'.at = "finding"
         /\ UNCHANGED report /\ Pinned'
<1>1. /\ action' \in Running /\ action'.task = action.task /\ action'.kind = action.kind
      /\ action'.pin = action.pin /\ action'.left = l /\ action'.sent = s /\ action'.at = "finding"
      /\ action'.found = action.found /\ UNCHANGED report
  BY ActionFacts DEF Browser!Again, Running, Steps
<1>2. Formed'
  BY <1>1, ActionFacts DEF Pinned, Formed, Checking, Sending, Acting
<1>3. Placed'
  BY <1>1, ActionFacts DEF Pinned, Formed, Placed, Sending, Acting
<1>. QED  BY <1>1, <1>2, <1>3 DEF Pinned

LEMMA UndeliveredKeeps == BrowserInv /\ Browser!Undelivered => BrowserInv'
<1> SUFFICES ASSUME BrowserInv, Browser!Undelivered PROVE BrowserInv'
  OBVIOUS
<1>1. /\ ~Idle /\ action.at = "acting" /\ Browser!KeepsTheRest
      /\ UNCHANGED <<queue, page, flying, landed, reads, navigations>>
  BY AtFacts DEF Browser!Undelivered, Browser!KeepsTheRest
<1>2. CASE Browser!Moved
  BY <1>1, <1>2, FailKeeps DEF Browser!Undelivered
<1>3. CASE ~Browser!Moved
  <2>1. Browser!Again(action.sent, action.left)
    BY <1>3 DEF Browser!Undelivered
  <2>2. /\ action.at \in Sending /\ action.left \in Lefts /\ action.left # <<>> /\ action.sent \in BOOLEAN
        /\ Head(action.left) = "keys" => action.sent
        /\ Head(action.left) = "clear" => action.left = Browser!Inputs[action.kind]
    BY <1>1, ActionFacts DEF Pinned, Formed, Sending, Acting
  <2>. QED  BY <1>1, <2>1, <2>2, AgainFacts, MoveKeeps
<1>. QED  BY <1>2, <1>3

\* What is handed over is so in the document the action is pinned to.
LEMMA HandedKeeps ==
  ASSUME BrowserInv, ~Idle, action.at \in {"acting", "focusing", "typing"}, page.id = action.pin,
         Browser!Handed, Browser!GoesTo("sent"), UNCHANGED <<queue, page, landed, reads, navigations>>
  PROVE  BrowserInv'
<1> DEFINE new == [task |-> action.task, pin |-> action.pin, sentTo |-> page.id,
                   input |-> Head(action.left), left |-> Len(action.left)]
<1>1. /\ flying' = flying \cup {new}
      /\ new.task = action.task /\ new.pin = action.pin /\ new.sentTo = page.id
      /\ new.input = Head(action.left) /\ new.left = Len(action.left)
  BY DEF Browser!Handed
<1> HIDE DEF new
<1>2. /\ action' \in Running /\ action'.at = "sent" /\ UNCHANGED report
      /\ action'.task = action.task /\ action'.kind = action.kind
      /\ action'.sent = action.sent /\ action'.pin = action.pin /\ action'.found = action.found
      /\ action'.left = action.left
  BY ActionFacts, GoesToFacts DEF Steps
<1>3. /\ action.pin \in Nat /\ action.pin = navigations /\ ~page.surface /\ action.left # <<>>
      /\ action.kind \in Browser!InputKinds /\ Len(action.left) \in Nat /\ action.found = action.pin
  <2>1. action.kind \in Browser!InputKinds /\ action.left # <<>> /\ action.left \in Lefts
        /\ action.found = action.pin
    BY ActionFacts DEF Pinned, Formed, Sending, Acting
  <2>. QED  BY <2>1, ActionFacts, LeftFacts DEF Pinned, Placed, Sending, Acting
<1>4. \A f \in flying : f.task # action.task
  BY DEF BrowserInv, Current, Flies
<1>5. Begins(action.task)
  BY ActionFacts DEF BrowserInv, OneEach, Begins
<1>6. ASSUME NEW m \in landed, m.task = action.task PROVE Reached(m) /\ Under(new, m)
  <2>1. Reached(m)
    BY <1>6 DEF BrowserInv, Current
  <2>. QED  BY <1>1, <1>3, <2>1 DEF Reached, Under
<1>7. InFlight'
  <2>1. \A f \in flying' : f \in flying \/ f = new
    BY <1>1
  <2>2. ASSUME NEW f \in flying'
        PROVE  /\ Begins(f.task)' /\ f.left \in Nat
               /\ f.pin \in Nat /\ f.pin <= navigations' /\ f.sentTo = f.pin
               /\ f.pin = navigations' => ~page'.surface
    <3>1. CASE f \in flying
      BY <1>2, <3>1 DEF BrowserInv, InFlight, Begins
    <3>2. CASE f = new
      BY <1>1, <1>2, <1>3, <1>5, <3>2 DEF Begins
    <3>. QED  BY <2>1, <3>1, <3>2
  <2>3. \A f, g \in flying' : f.task = g.task => f = g
    BY <1>1, <1>4, <2>1 DEF BrowserInv, InFlight
  <2>4. \A f \in flying', m \in landed : f.task = m.task => Under(f, m)
    BY <1>1, <1>6, <2>1 DEF BrowserInv, InFlight
  <2>. QED  BY <2>2, <2>3, <2>4 DEF InFlight, Under, Browser!Astray
<1>8. Current'
  <2>1. \A f \in flying' : f.task = action.task => Flies(f)'
    BY <1>1, <1>2, <1>4 DEF Flies
  <2>2. \A m \in landed : m.task = action.task => Reached(m)'
    BY <1>2, <1>6 DEF Reached, Browser!Astray
  <2>. QED  BY <1>2, <2>1, <2>2 DEF Current
<1>9. Pinned'
  <2>1. Formed'
    BY <1>2, <1>3, ActionFacts DEF Pinned, Formed, Checking, Sending, Acting
  <2>2. Placed'
    BY <1>2, <1>3, ActionFacts DEF Pinned, Placed
  <2>. QED  BY <2>1, <2>2 DEF Pinned
<1>10. Failures' /\ Landings'
  <2>1. report[action.task] = "asked"
    BY DEF BrowserInv, OneEach
  <2>2. Failures'
    BY <1>1, <1>2, <2>1 DEF BrowserInv, Failures, Browser!FailedCompletedNothing
  <2>. QED  BY <1>2, <2>2 DEF BrowserInv, Landings, Begins
<1>11. BrowserTypes' /\ OneEach'
  BY <1>2, ActionFacts DEF BrowserInv, BrowserTypes, OneEach, Idle
<1>12. Browser!InputOnCheckedPage' /\ Browser!SecretsUnread'
  BY DEF BrowserInv, Browser!InputOnCheckedPage, Browser!SecretsUnread, Browser!Astray
<1>. QED  BY <1>7, <1>8, <1>9, <1>10, <1>11, <1>12 DEF BrowserInv

\* A field found gone before its text is cleared once more.
LEMMA FocusAgain ==
  ASSUME BrowserInv, ~Idle, action.at = "focusing", UNCHANGED <<queue, page, flying, landed, reads, navigations>>,
         Browser!Again(action.sent, Browser!Inputs[action.kind])
  PROVE  BrowserInv'
<1> DEFINE all == Browser!Inputs[action.kind]
<1>1. /\ all # <<>> /\ Head(all) = "clear" /\ action.left = Tail(all) /\ all \in Lefts
      /\ action.kind \in Browser!InputKinds /\ action.sent \in BOOLEAN
  BY KindFacts, ActionFacts DEF Pinned, Formed, Sending, Acting
<1>2. Len(all) \in Nat /\ Len(action.left) = Len(all) - 1 /\ action.left # <<>> /\ Head(action.left) = "keys"
  <2>. HIDE DEF all
  <2>1. Len(all) \in Nat
    BY <1>1, LeftFacts
  <2>2. Len(Tail(all)) = Len(all) - 1 /\ Tail(all) \in Texts
    BY <1>1, LeftFacts
  <2>3. Tail(all) # <<>> /\ Head(Tail(all)) = "keys"
    BY <2>2, LeftFacts
  <2>. QED  BY <1>1, <2>1, <2>2, <2>3
<1>3. /\ action' \in Running /\ action'.task = action.task /\ action'.kind = action.kind
      /\ action'.pin = action.pin /\ action'.left = all /\ action'.sent = action.sent /\ action'.at = "finding"
      /\ UNCHANGED report /\ Pinned'
  BY <1>1, AgainFacts DEF Sending, Acting
<1>4. \A f \in flying : f.task # action.task
  BY DEF BrowserInv, Current, Flies
<1>5. ASSUME NEW m \in landed, m.task = action.task PROVE Reached(m)'
  <2>1. Reached(m) /\ m.left \in Nat
    BY <1>5 DEF BrowserInv, Current, Landings
  <2>2. m.left >= Len(action.left) /\ m.left # Len(action.left)
    BY <1>1, <1>2, <2>1 DEF Reached, Browser!ThroughElement
  <2>3. m.left >= Len(all)
    BY <1>2, <2>1, <2>2
  <2>. QED  BY <1>1, <1>3, <2>1, <2>3 DEF Reached, Browser!Astray, Browser!ThroughElement
<1>6. Current'
  BY <1>3, <1>4, <1>5 DEF Current
<1>7. Browser!SecretsUnread'
  BY DEF BrowserInv, Browser!SecretsUnread
<1>. QED  BY <1>3, <1>6, <1>7, ActionFacts, StepKeeps

LEMMA SendKeeps == BrowserInv /\ (Browser!Send \/ Browser!Key \/ Browser!Focus) => BrowserInv'
<1> SUFFICES ASSUME BrowserInv, Browser!Send \/ Browser!Key \/ Browser!Focus PROVE BrowserInv'
  OBVIOUS
<1>1. ASSUME Browser!Attached, action.at \in Acting, ~Idle PROVE page.id = action.pin
  BY <1>1, ActionFacts DEF Browser!Attached, Pinned, Formed
<1>2. CASE Browser!Send
  <2>1. /\ ~Idle /\ action.at = "acting" /\ Browser!Attached /\ Browser!Handed /\ Browser!GoesTo("sent")
        /\ UNCHANGED <<queue, page, landed, reads, navigations>>
    BY <1>2, AtFacts DEF Browser!Send
  <2>. QED  BY <1>1, <2>1, HandedKeeps DEF Acting
<1>3. CASE Browser!Key
  <2>1. ~Idle /\ action.at = "typing" /\ UNCHANGED <<queue, page, landed, reads, navigations>>
    BY <1>3, AtFacts DEF Browser!Key
  <2>2. CASE page.id = action.pin
    BY <1>3, <2>1, <2>2, HandedKeeps DEF Browser!Key
  <2>3. CASE page.id # action.pin
    BY <1>3, <2>1, <2>3, FailKeeps DEF Browser!Key
  <2>. QED  BY <2>2, <2>3
<1>4. CASE Browser!Focus
  <2>1. ~Idle /\ action.at = "focusing" /\ UNCHANGED <<queue, page, landed, reads, navigations>>
    BY <1>4, AtFacts DEF Browser!Focus
  <2>2. CASE Browser!Attached
    BY <1>1, <1>4, <2>1, <2>2, HandedKeeps DEF Browser!Focus, Acting
  <2>3. CASE ~Browser!Attached /\ Browser!Moved
    BY <1>4, <2>1, <2>3, FailKeeps DEF Browser!Focus
  <2>4. CASE ~Browser!Attached /\ ~Browser!Moved
    BY <1>4, <2>1, <2>4, FocusAgain DEF Browser!Focus
  <2>. QED  BY <2>2, <2>3, <2>4
<1>. QED  BY <1>2, <1>3, <1>4

LEMMA TailFacts ==
  \A l \in Lefts : l # <<>> /\ Tail(l) # <<>> => Head(Tail(l)) \in {"keys", "click"}
<1>1. /\ Tail(<<"click">>) = <<>> /\ Tail(<<"press">>) = <<>> /\ Tail(<<"set">>) = <<>>
      /\ Tail(<<"keys">>) = <<>> /\ Tail(<<"keys", "click">>) = <<"click">>
      /\ Tail(<<"keys", "keys">>) = <<"keys">> /\ Tail(<<"keys", "keys", "click">>) = <<"keys", "click">>
      /\ Tail(<<"clear", "keys", "keys">>) = <<"keys", "keys">>
      /\ Tail(<<"clear", "keys", "keys", "click">>) = <<"keys", "keys", "click">>
  OBVIOUS
<1>2. /\ Head(<<"click">>) = "click" /\ Head(<<"keys">>) = "keys" /\ Head(<<"keys", "click">>) = "keys"
      /\ Head(<<"keys", "keys">>) = "keys" /\ Head(<<"keys", "keys", "click">>) = "keys"
  OBVIOUS
<1>. QED  BY <1>1, <1>2 DEF Lefts, Texts

\* What an input does that reaches its page or is lost, but for its answer.
Arrives(f) ==
  /\ f \in flying /\ flying' = flying \ {f}
  /\ UNCHANGED <<queue, page, reads, navigations>>
  /\ \/ UNCHANGED landed
     \/ /\ page.id # f.pin => f.input \notin Browser!ThroughElement
        /\ landed' = landed \cup {[task |-> f.task, pin |-> f.pin, sentTo |-> f.sentTo, input |-> f.input,
                                   left |-> f.left, document |-> page.id, surface |-> page.surface]}

\* What lands is known by the input that was on its way; its task has no other.
LEMMA ArriveFacts ==
  ASSUME BrowserInv, NEW f, Arrives(f)
  PROVE  /\ flying' \subseteq flying /\ \A g \in flying' : g.task # f.task
         /\ \A m \in landed' : \/ m \in landed
                               \/ /\ m.task = f.task /\ m.left = f.left /\ m.left \in Nat /\ m.pin = f.pin
                                  /\ m.input = f.input
                                  /\ Browser!Astray(m) => f.pin # navigations
         /\ \A l, m \in landed' : l \in landed \/ m \in landed \/ l = m
         /\ Browser!InputOnCheckedPage'
<1> DEFINE new == [task |-> f.task, pin |-> f.pin, sentTo |-> f.sentTo, input |-> f.input,
                   left |-> f.left, document |-> page.id, surface |-> page.surface]
<1>1. /\ new.task = f.task /\ new.pin = f.pin /\ new.sentTo = f.sentTo /\ new.input = f.input
      /\ new.left = f.left /\ new.document = page.id /\ new.surface = page.surface
  OBVIOUS
<1>2. \/ UNCHANGED landed
      \/ (page.id # f.pin => f.input \notin Browser!ThroughElement) /\ landed' = landed \cup {new}
  BY DEF Arrives
<1> HIDE DEF new
<1>3. /\ f \in flying /\ flying' \subseteq flying /\ page' = page /\ navigations' = navigations
      /\ f.left \in Nat /\ f.pin \in Nat /\ f.sentTo = f.pin /\ (f.pin = navigations => ~page.surface)
      /\ page.id = navigations /\ navigations \in Nat
  BY DEF Arrives, BrowserInv, InFlight, BrowserTypes
<1>4. \A g \in flying' : g.task # f.task
  BY DEF Arrives, BrowserInv, InFlight
<1>5. Browser!Astray(new) => f.pin # navigations
  BY <1>1, <1>3 DEF Browser!Astray
<1>6. \A m \in landed : m.task = f.task => Under(f, m) /\ m.left \in Nat
  BY <1>3 DEF BrowserInv, InFlight, Landings
<1>7. Browser!InputOnCheckedPage'
  <2>1. ASSUME NEW l \in landed', l.pin # NoDocument
        PROVE  /\ l.sentTo = l.pin
               /\ Browser!Astray(l) => /\ l.input \notin Browser!ThroughElement
                                       /\ \A m \in landed' : m.task = l.task /\ m # l => m.left > l.left
    <3>1. CASE l \in landed
      <4>1. /\ l.sentTo = l.pin
            /\ Browser!Astray(l) => /\ l.input \notin Browser!ThroughElement
                                    /\ \A m \in landed : m.task = l.task /\ m # l => m.left > l.left
        BY <2>1, <3>1 DEF BrowserInv, Browser!InputOnCheckedPage
      <4>2. Browser!Astray(l) => l.task # f.task
        BY <1>6, <3>1 DEF Under
      <4>. QED  BY <1>1, <1>2, <4>1, <4>2
    <3>2. CASE l = new /\ landed' = landed \cup {new} /\ (page.id # f.pin => f.input \notin Browser!ThroughElement)
      <4>1. SUFFICES ASSUME Browser!Astray(l)
                     PROVE  /\ l.input \notin Browser!ThroughElement
                            /\ \A m \in landed' : m.task = l.task /\ m # l => m.left > l.left
        BY <1>1, <1>3, <3>2
      <4>2. f.input \notin Browser!ThroughElement
        BY <1>3, <1>5, <3>2, <4>1
      <4>3. \A m \in landed : m.task = f.task => m.left > f.left
        BY <1>3, <1>6, <4>2 DEF Under
      <4>. QED  BY <1>1, <3>2, <4>2, <4>3
    <3>. QED  BY <1>2, <2>1, <3>1, <3>2
  <2>. QED  BY <2>1 DEF Browser!InputOnCheckedPage, Browser!Astray
<1>. QED  BY <1>1, <1>2, <1>3, <1>4, <1>5, <1>7

\* The action goes on, or none waited for what arrived.
LEMMA ArriveKeepsOn ==
  ASSUME BrowserInv, NEW f, Arrives(f), UNCHANGED report,
         Idle' \/ (~Idle /\ action' \in Running /\ action'.task = action.task /\ Pinned'), Current'
  PROVE  BrowserInv'
<1>1. /\ Browser!InputOnCheckedPage' /\ flying' \subseteq flying
      /\ UNCHANGED <<queue, page, reads, navigations, report>> /\ f \in flying
  BY ArriveFacts DEF Arrives
<1>2. BrowserTypes' /\ OneEach' /\ Browser!SecretsUnread'
  BY <1>1 DEF BrowserInv, BrowserTypes, OneEach, Idle, Browser!SecretsUnread
<1>3. \A m \in landed' : m \in landed \/ m.task = f.task
  BY ArriveFacts
<1>4. InFlight'
  BY <1>1, <1>3, ArriveFacts DEF BrowserInv, InFlight, Begins, Under, Browser!Astray
<1>5. Landings'
  BY <1>1, ArriveFacts DEF BrowserInv, Landings, InFlight, Begins
<1>6. Failures'
  <2>1. report[f.task] = "failed" => f.input \in Browser!Unlogged /\ \A m \in landed : m.task # f.task
    BY <1>1 DEF BrowserInv, Failures
  <2>2. ASSUME NEW g \in flying', report[g.task] = "failed"
        PROVE  g.input \in Browser!Unlogged /\ \A m \in landed' : m.task # g.task
    BY <1>1, <1>3, <2>2, ArriveFacts DEF BrowserInv, Failures
  <2>3. ASSUME NEW l \in landed', report[l.task] = "failed"
        PROVE  l.input \in Browser!Unlogged /\ \A m \in landed' : m.task = l.task => m = l
    <3>1. CASE l.task = f.task
      <4>1. \A m \in landed' : m.task = f.task => m \notin landed /\ m.input = f.input
        BY <2>1, <2>3, <3>1, ArriveFacts
      <4>. QED  BY <2>1, <2>3, <3>1, <4>1, ArriveFacts
    <3>2. CASE l.task # f.task
      <4>1. l \in landed
        BY <1>3, <3>2
      <4>. QED  BY <1>3, <2>3, <3>2, <4>1 DEF BrowserInv, Failures, Browser!FailedCompletedNothing
    <3>. QED  BY <3>1, <3>2
  <2>. QED  BY <1>1, <2>2, <2>3 DEF Failures, Browser!FailedCompletedNothing
<1>7. (~Idle => Pinned)'
  OBVIOUS
<1>. QED  BY <1>1, <1>2, <1>4, <1>5, <1>6, <1>7 DEF BrowserInv

\* What the running action waits for is as the action is.
LEMMA WaitingFacts ==
  ASSUME BrowserInv, NEW f, Arrives(f), Browser!Waiting(f)
  PROVE  /\ ~Idle /\ action.at = "sent" /\ action.task = f.task /\ f.pin = action.pin
         /\ f.left = Len(action.left) /\ f.input = Head(action.left)
         /\ action.left \in Lefts /\ action.left # <<>> /\ action.kind \in Browser!InputKinds
         /\ action.pin \in Nat /\ action.found = action.pin
         /\ \A m \in landed : m.task = action.task => Reached(m) /\ Under(f, m)
<1>1. ~Idle /\ action.at = "sent" /\ action.task = f.task /\ f \in flying
  BY AtFacts DEF Browser!Waiting, Arrives
<1>2. Flies(f)
  BY <1>1 DEF BrowserInv, Current
<1>3. /\ action.left \in Lefts /\ action.left # <<>> /\ action.kind \in Browser!InputKinds
      /\ action.pin \in Nat /\ action.found = action.pin
  BY <1>1, ActionFacts DEF Pinned, Formed, Placed, Sending, Acting
<1>. QED  BY <1>1, <1>2, <1>3 DEF Flies, BrowserInv, Current, InFlight

\* One nobody waits for any more is of another task than the running action's.
LEMMA LateKeeps ==
  ASSUME BrowserInv, NEW f, Arrives(f), ~Browser!Waiting(f), UNCHANGED <<action, report>>
  PROVE  BrowserInv'
<1>1. ~Idle => action.task # f.task
  BY DEF Arrives, BrowserInv, Current, Flies, Browser!Waiting, Browser!At, Idle
<1>2. Current'
  <2>1. \A g \in flying' : ~Idle /\ g.task = action.task => Flies(g)'
    BY ArriveFacts DEF BrowserInv, Current, Flies
  <2>2. ASSUME NEW m \in landed', ~Idle, m.task = action.task PROVE Reached(m)'
    <3>1. m \in landed
      BY <1>1, <2>2, ArriveFacts
    <3>. QED  BY <2>2, <3>1 DEF BrowserInv, Current, Reached, Browser!Astray, Arrives
  <2>. QED  BY <2>1, <2>2 DEF Current, Idle
<1>3. ~Idle => ~Idle' /\ action' \in Running /\ Pinned'
  BY ActionFacts DEF Idle, Pinned, Formed, Placed, Arrives
<1>4. Idle => Idle'
  BY DEF Idle
<1>. QED  BY <1>2, <1>3, <1>4, ArriveKeepsOn

\* One that fails the action that waits for it.
LEMMA ArriveFails ==
  ASSUME BrowserInv, NEW f, Arrives(f), Browser!Waiting(f), Browser!Fail
  PROVE  BrowserInv'
<1>1. /\ ~Idle /\ action.task = f.task /\ UNCHANGED <<queue, page, reads, navigations>>
      /\ flying' \subseteq flying /\ \A g \in flying' : g.task # action.task
      /\ \A m \in landed' : m \in landed \/ (m.task = action.task /\ m.left \in Nat /\ m.input = f.input)
      /\ \A l, m \in landed' : l \in landed \/ m \in landed \/ l = m
      /\ Browser!InputOnCheckedPage' /\ f \in flying
  BY ArriveFacts, WaitingFacts DEF Arrives
<1>2. \A g \in flying', m \in landed' : g.task = m.task => m \in landed
  BY <1>1
<1>3. CASE action.sent \/ Browser!Performed
  <2>1. Browser!Answer("unknown")
    BY <1>3 DEF Browser!Fail, Browser!FailWith
  <2>. QED  BY <1>1, <1>2, <2>1, AnswerKeeps
<1>4. CASE ~(action.sent \/ Browser!Performed)
  <2>1. Browser!Answer("failed")
    BY <1>4 DEF Browser!Fail, Browser!FailWith
  <2>2. (\A m \in landed : m.task # action.task) /\ f.input \in Browser!Unlogged
    BY <1>1, <1>4, UnsentFacts
  <2>3. /\ \A m \in landed' : m.task = action.task => m.input \in Browser!Unlogged
        /\ \A l, m \in landed' : l.task = action.task /\ m.task = action.task => l = m
    BY <1>1, <2>2
  <2>. QED  BY <1>1, <1>2, <2>1, <2>3, AnswerKeeps
<1>. QED  BY <1>3, <1>4

\* One that returned: on to the next input.
LEMMA ArriveSent ==
  ASSUME BrowserInv, NEW f, Arrives(f), Browser!Waiting(f), UNCHANGED report,
         action' = Browser!Sent(Tail(action.left))
  PROVE  BrowserInv'
<1> DEFINE rest == Tail(action.left)
<1>1. /\ ~Idle /\ action.at = "sent" /\ action.task = f.task /\ f.pin = action.pin
      /\ f.left = Len(action.left) /\ f.input = Head(action.left)
      /\ action.left \in Lefts /\ action.left # <<>> /\ action.kind \in Browser!InputKinds
      /\ action.pin \in Nat /\ action.found = action.pin
      /\ \A m \in landed : m.task = action.task => Reached(m) /\ Under(f, m)
      /\ UNCHANGED <<page, navigations>>
  BY WaitingFacts DEF Arrives
<1>2. /\ rest \in Lefts /\ Len(rest) = Len(action.left) - 1 /\ Len(action.left) \in Nat
      /\ rest # <<>> => Head(rest) \in {"keys", "click"}
  BY <1>1, LeftFacts, TailFacts
<1>3. /\ action' \in Running /\ action'.task = action.task /\ action'.kind = action.kind
      /\ action'.pin = action.pin /\ action'.left = rest /\ action'.sent = TRUE
      /\ action'.found \in {NoDocument, action.found}
      /\ action'.at \in {"settling", "finding", "focusing", "typing"}
      /\ action'.at = "settling" <=> rest = <<>>
      /\ action'.at \in {"focusing", "typing"} => action'.found = action.found
      /\ action'.at = "focusing" => Head(action.left) = "clear"
  <2>1. action' = [action EXCEPT !.sent = TRUE, !.left = rest,
                     !.found = IF rest # <<>> /\ Head(rest) = "click" THEN NoDocument ELSE @,
                     !.at = CASE rest = <<>> -> "settling"
                              [] rest # <<>> /\ Head(rest) = "click" -> "finding"
                              [] OTHER -> IF Head(action.left) = "clear" THEN "focusing" ELSE "typing"]
    BY DEF Browser!Sent
  <2> HIDE DEF rest
  <2>2. PICK d \in {NoDocument, action.found}, s \in {"settling", "finding", "focusing", "typing"} :
          /\ action' = [action EXCEPT !.sent = TRUE, !.left = rest, !.found = d, !.at = s]
          /\ s = "settling" <=> rest = <<>>
          /\ s \in {"focusing", "typing"} => d = action.found
          /\ s = "focusing" => Head(action.left) = "clear"
    BY <2>1
  <2>3. d \in Documents /\ s \in Steps
    BY <1>1, ActionFacts DEF Documents, Steps
  <2>. QED  BY <1>1, <1>2, <2>2, <2>3, ActionFacts DEF Running
<1> HIDE DEF rest
<1>4. Formed'
  <2>1. action'.at = "focusing" =>
          /\ Browser!Inputs[action.kind] # <<>> /\ Head(Browser!Inputs[action.kind]) = "clear"
          /\ action'.left = Tail(Browser!Inputs[action.kind])
    BY <1>1, <1>3, ActionFacts DEF Pinned, Formed, rest
  <2>. QED  BY <1>1, <1>2, <1>3, <2>1, ActionFacts DEF Formed, Checking, Sending, Acting
<1>5. Placed'
  BY <1>1, <1>3, ActionFacts DEF Pinned, Placed, Sending, Acting
<1>6. Current'
  <2>1. \A g \in flying' : g.task # action'.task
    BY <1>1, <1>3, ArriveFacts
  <2>2. ASSUME NEW m \in landed', m.task = action'.task PROVE Reached(m)'
    <3>1. m.pin = action.pin /\ m.left \in Nat /\ m.left >= Len(action.left)
          /\ (Browser!Astray(m) => action.pin # navigations)
      <4>1. CASE m \in landed
        BY <1>1, <1>3, <2>2, <4>1 DEF Reached, Under, BrowserInv, Landings
      <4>2. CASE m \notin landed
        BY <1>1, <1>2, <4>2, ArriveFacts
      <4>. QED  BY <4>1, <4>2
    <3>. QED  BY <1>1, <1>2, <1>3, <3>1 DEF Reached, Browser!Astray
  <2>. QED  BY <2>1, <2>2 DEF Current
<1>. QED  BY <1>1, <1>3, <1>4, <1>5, <1>6, ArriveKeepsOn DEF Pinned

\* One whose element went away: it is looked for again.
LEMMA ArriveAgain ==
  ASSUME BrowserInv, NEW f, Arrives(f), Browser!Waiting(f), UNCHANGED landed,
         Browser!Again(action.sent \/ Browser!Performed, action.left)
  PROVE  BrowserInv'
<1>1. /\ ~Idle /\ action.at = "sent" /\ action.left \in Lefts /\ action.left # <<>>
      /\ action.task = f.task /\ UNCHANGED <<page, navigations>>
  BY WaitingFacts DEF Arrives
<1> DEFINE s == action.sent \/ Browser!Performed
<1>2. s \in BOOLEAN /\ (action.sent => s)
  OBVIOUS
<1>3. /\ Head(action.left) = "keys" => action.sent
      /\ Head(action.left) = "clear" => action.left = Browser!Inputs[action.kind]
  BY <1>1, ActionFacts DEF Pinned, Formed
<1> HIDE DEF s
<1>4. /\ action' \in Running /\ action'.task = action.task /\ action'.kind = action.kind
      /\ action'.pin = action.pin /\ action'.left = action.left /\ action'.sent = s
      /\ UNCHANGED report /\ Pinned'
  <2>1. Browser!Again(s, action.left)
    BY DEF s
  <2>. QED  BY <1>1, <1>2, <1>3, <2>1, AgainFacts DEF Sending, Acting
<1>5. Current'
  <2>1. \A g \in flying' : g.task # action'.task
    BY <1>1, <1>4, ArriveFacts
  <2>2. \A m \in landed : m.task = action.task => Reached(m)
    BY WaitingFacts
  <2>. QED  BY <1>1, <1>2, <1>4, <2>1, <2>2 DEF Current, Reached, Browser!Astray
<1>. QED  BY <1>1, <1>4, <1>5, ArriveKeepsOn

LEMMA ArriveKeeps ==
  ASSUME BrowserInv, NEW f \in flying, Browser!Arrive(f)
  PROVE  BrowserInv'
<1>1. CASE Arrives(f) /\ Browser!Answered(f)
  BY <1>1, LateKeeps, ArriveFails, ArriveSent DEF Browser!Answered
<1>2. CASE Arrives(f) /\ Browser!GoneFrom(f) /\ UNCHANGED landed
  BY <1>2, LateKeeps, ArriveFails, ArriveAgain DEF Browser!GoneFrom
<1>3. /\ flying' = flying \ {f} /\ UNCHANGED <<queue, page, reads, navigations>>
      /\ \/ /\ page.id # f.pin => f.input \notin Browser!ThroughElement
            /\ landed' = landed \cup {[task |-> f.task, pin |-> f.pin, sentTo |-> f.sentTo, input |-> f.input,
                                       left |-> f.left, document |-> page.id, surface |-> page.surface]}
            /\ Browser!Answered(f)
         \/ UNCHANGED landed /\ Browser!Answered(f)
         \/ UNCHANGED landed /\ Browser!GoneFrom(f)
  BY DEF Browser!Arrive
<1>. QED  BY <1>1, <1>2, <1>3 DEF Arrives

\* A close counts as sent before the call that makes it.
LEMMA ClosePageKeeps ==
  ASSUME BrowserInv, ~Idle, action.at = "closing", action.sent, Browser!GoesTo("settling"),
         \E p \in Browser!NewDocument : Browser!Goes(p), UNCHANGED <<queue, flying, reads>>,
         landed' = landed \cup {[task |-> action.task, pin |-> action.pin, sentTo |-> page.id, input |-> "close",
                                 left |-> 0, document |-> page.id, surface |-> page.surface]}
  PROVE  BrowserInv'
<1> DEFINE new == [task |-> action.task, pin |-> action.pin, sentTo |-> page.id, input |-> "close",
                   left |-> 0, document |-> page.id, surface |-> page.surface]
<1>1. /\ landed' = landed \cup {new} /\ new.task = action.task /\ new.pin = action.pin /\ new.left = 0
  OBVIOUS
<1> HIDE DEF new
<1>2. PICK p \in Browser!NewDocument : Browser!Goes(p)
  OBVIOUS
<1>3. navigations' = navigations + 1 /\ page' = [p EXCEPT !.id = navigations'] /\ navigations' \in Nat
  <2>1. navigations' = navigations + 1 /\ page' = [p EXCEPT !.id = navigations']
    BY <1>2, Zenon DEF Browser!Goes
  <2>2. navigations \in Nat
    BY ActionFacts
  <2>. QED  BY <2>1, <2>2
<1>4. page' \in Browser!Document /\ page'.id = navigations' /\ navigations \in Nat
  BY <1>3, DocumentFacts, ActionFacts
<1>5. /\ action' \in Running /\ action'.at = "settling" /\ UNCHANGED report /\ action'.left = action.left
      /\ action'.task = action.task /\ action'.kind = action.kind
      /\ action'.sent = action.sent /\ action'.pin = action.pin /\ action'.found = action.found
  BY ActionFacts, GoesToFacts DEF Steps
<1>6. action.kind \notin Browser!InputKinds /\ action.pin = NoDocument
  BY ActionFacts, KindFacts DEF Pinned, Formed
<1>7. (\A g \in flying : g.task # action.task) /\ \A m \in landed : m.task = action.task => Reached(m)
  BY DEF BrowserInv, Current, Flies
<1>8. InFlight'
  <2>1. \A g \in flying : g.pin <= navigations' /\ g.pin # navigations' /\ g.pin \in Nat /\ g.left \in Nat
                          /\ g.sentTo = g.pin /\ Begins(g.task)
    BY <1>3, <1>4 DEF BrowserInv, InFlight
  <2>2. \A g \in flying, m \in landed' : g.task = m.task => Under(g, m)
    BY <1>1, <1>7 DEF BrowserInv, InFlight
  <2>. QED  BY <1>5, <2>1, <2>2 DEF BrowserInv, InFlight, Begins, Under, Browser!Astray
<1>9. Landings'
  <2>1. Begins(action.task)
    BY ActionFacts DEF BrowserInv, OneEach, Begins
  <2>. QED  BY <1>1, <1>5, <2>1 DEF BrowserInv, Landings, Begins
<1>10. Current'
  <2>1. ASSUME NEW m \in landed', m.task = action.task PROVE Reached(m)'
    <3>1. m.pin = action.pin
      BY <1>1, <1>7, <2>1 DEF Reached
    <3>. QED  BY <1>5, <1>6, <3>1, ActionFacts DEF Reached
  <2>. QED  BY <1>5, <1>7, <2>1 DEF Current
<1>11. Failures'
  <2>1. report[action.task] = "asked"
    BY DEF BrowserInv, OneEach
  <2>. QED  BY <1>1, <1>5, <2>1 DEF BrowserInv, Failures, Browser!FailedCompletedNothing
<1>12. Browser!InputOnCheckedPage'
  <2>1. \A l \in landed : l.pin # NoDocument => l.task # action.task
    BY <1>6, <1>7 DEF Reached
  <2>. QED  BY <1>1, <1>6, <2>1 DEF BrowserInv, Browser!InputOnCheckedPage, Browser!Astray
<1>13. Pinned'
  <2>1. Formed'
    BY <1>5, <1>6, ActionFacts DEF Pinned, Formed, Checking, Sending, Acting
  <2>2. \A d \in Documents : d # NoDocument /\ d <= navigations => d <= navigations'
    BY <1>3, ActionFacts DEF Documents
  <2>3. Placed'
    BY <1>5, <1>6, <2>2, ActionFacts DEF Pinned, Placed
  <2>. QED  BY <2>1, <2>3 DEF Pinned
<1>14. BrowserTypes' /\ OneEach' /\ Browser!SecretsUnread'
  BY <1>4, <1>3, <1>5 DEF BrowserInv, BrowserTypes, OneEach, Idle, Browser!SecretsUnread
<1>. QED  BY <1>8, <1>9, <1>10, <1>11, <1>12, <1>13, <1>14 DEF BrowserInv

LEMMA LeavesKeep == BrowserInv /\ (Browser!Close \/ Browser!Navigate) => BrowserInv'
<1> SUFFICES ASSUME BrowserInv, Browser!Close \/ Browser!Navigate PROVE BrowserInv'
  OBVIOUS
<1>1. ~Idle /\ action.at \in {"closing", "navigating"} /\ UNCHANGED <<queue, flying, reads>>
  BY AtFacts DEF Browser!Close, Browser!Navigate
<1>2. CASE Browser!Close /\ ~action.sent
  <2>1. action' = [action EXCEPT !.sent = TRUE] /\ UNCHANGED <<report, page, landed, navigations>>
    BY <1>2 DEF Browser!Close
  <2>2. /\ action' \in Running /\ action'.task = action.task /\ action'.sent = TRUE
        /\ action'.at = action.at /\ action'.kind = action.kind /\ action'.found = action.found
        /\ action'.left = action.left /\ action'.pin = action.pin /\ action'.saw = action.saw
    BY <1>1, <2>1, ActionFacts DEF Running
  <2>3. Pinned'
    BY <1>1, <2>1, <2>2, ActionFacts DEF Pinned, Formed, Placed, Checking, Sending, Acting
  <2>4. Browser!SecretsUnread'
    BY <1>1, <2>1 DEF BrowserInv, Browser!SecretsUnread
  <2>5. /\ page' \in Browser!Document /\ navigations' \in Nat /\ page'.id = navigations'
        /\ navigations <= navigations'
    BY <1>1, <2>1, ActionFacts
  <2>6. Current'
    BY <1>1, <2>1, <2>2, <2>5, GoesOn
  <2>. QED  BY <1>1, <2>1, <2>2, <2>3, <2>4, <2>5, <2>6, StepKeeps
<1>3. CASE Browser!Close /\ action.sent
  <2>1. action.at = "closing"
    BY <1>3, AtFacts DEF Browser!Close
  <2>. QED  BY <1>1, <1>3, <2>1, ClosePageKeeps DEF Browser!Close
<1>4. CASE Browser!Navigate
  <2>1. PICK p \in Browser!NewDocument : Browser!Goes(p)
    BY <1>4 DEF Browser!Navigate
  <2>2. /\ navigations' = navigations + 1 /\ page' = [p EXCEPT !.id = navigations'] /\ navigations' \in Nat
        /\ navigations <= navigations' /\ navigations' # navigations
    BY <1>1, <2>1, ActionFacts DEF Browser!Goes
  <2>3. page' \in Browser!Document /\ page'.id = navigations'
    BY <2>2, DocumentFacts
  <2>4. Browser!GoesTo("settling") /\ UNCHANGED landed
    BY <1>4 DEF Browser!Navigate
  <2>5. /\ action' \in Running /\ action'.at = "settling" /\ UNCHANGED report /\ action'.left = action.left
        /\ action'.task = action.task /\ action'.kind = action.kind
        /\ action'.sent = action.sent /\ action'.pin = action.pin /\ action'.found = action.found
    BY <1>1, <2>4, ActionFacts, GoesToFacts DEF Steps
  <2>6. \A d \in Documents : d # NoDocument /\ d <= navigations => d <= navigations'
    BY <1>1, <2>2, ActionFacts DEF Documents
  <2>7. Formed'
    BY <1>1, <2>5, ActionFacts DEF Pinned, Formed, Checking, Sending, Acting
  <2>8. Placed'
    BY <1>1, <2>5, <2>6, ActionFacts DEF Pinned, Placed, Sending, Acting
  <2>9. Current'
    BY <1>1, <2>2, <2>4, <2>5, GoesOn
  <2>10. Browser!SecretsUnread'
    BY <1>1 DEF BrowserInv, Browser!SecretsUnread
  <2>. QED  BY <1>1, <2>2, <2>3, <2>4, <2>5, <2>7, <2>8, <2>9, <2>10, StepKeeps DEF Pinned
<1>. QED  BY <1>2, <1>3, <1>4

\* An answer is kept that did not see a secret, or whose document is left, or
\* that is a screenshot.
LEMMA ReadKeeps ==
  ASSUME BrowserInv, ~Idle, action.at \notin {"sent", "pinning"}, NEW secret, NEW looked, Browser!Read(secret, looked),
         Browser!GoesTo("settling"), UNCHANGED <<queue, page, flying, landed, navigations>>,
         secret => looked # page.id \/ action.kind = "screenshot"
  PROVE  BrowserInv'
<1> DEFINE new == [kind |-> action.kind, secret |-> secret, looked |-> looked, after |-> page.id]
<1>1. /\ reads' = reads \cup {new} /\ new.kind = action.kind /\ new.secret = secret /\ new.looked = looked
      /\ new.after = page.id
  BY DEF Browser!Read
<1> HIDE DEF new
<1>2. /\ action' \in Running /\ action'.at = "settling" /\ UNCHANGED report /\ action'.left = action.left
      /\ action'.task = action.task /\ action'.kind = action.kind
      /\ action'.sent = action.sent /\ action'.pin = action.pin /\ action'.found = action.found
  BY ActionFacts, GoesToFacts DEF Steps
<1>3. Browser!SecretsUnread'
  BY <1>1 DEF BrowserInv, Browser!SecretsUnread
<1>4. Formed'
  BY <1>2, ActionFacts DEF Pinned, Formed, Checking, Sending, Acting
<1>5. Placed'
  BY <1>2, ActionFacts DEF Pinned, Placed, Sending, Acting
<1>6. /\ page' \in Browser!Document /\ navigations' \in Nat /\ page'.id = navigations'
      /\ navigations <= navigations'
  BY ActionFacts
<1>7. Current'
  BY <1>2, <1>6, GoesOn
<1>. QED  BY <1>2, <1>3, <1>4, <1>5, <1>6, <1>7, StepKeeps DEF Pinned

LEMMA LookKeeps == BrowserInv /\ Browser!Look => BrowserInv'
<1> SUFFICES ASSUME BrowserInv, Browser!Look PROVE BrowserInv'
  OBVIOUS
<1>1. /\ ~Idle /\ action.at = "looking"
      /\ action' = [action EXCEPT !.at = "checking again", !.saw = page.secret, !.found = page.id]
      /\ UNCHANGED report /\ Browser!KeepsTheRest /\ UNCHANGED <<page, navigations>>
  BY AtFacts DEF Browser!Look, Browser!KeepsTheRest
<1>2. page.secret \in BOOLEAN /\ page.id \in Nat /\ page.id = navigations /\ page.id <= navigations
  BY <1>1, ActionFacts DEF Browser!Document
<1>3. /\ action' \in Running /\ action'.task = action.task /\ action'.sent = action.sent
      /\ action'.at = "checking again" /\ action'.kind = action.kind /\ action'.found = page.id
      /\ action'.left = action.left /\ action'.pin = action.pin /\ action'.saw = page.secret
  BY <1>1, <1>2, ActionFacts DEF Running, Documents, Steps
<1>4. Formed'
  BY <1>1, <1>3, ActionFacts DEF Pinned, Formed, Checking, Sending, Acting
<1>5. Placed'
  BY <1>1, <1>2, <1>3, ActionFacts DEF Pinned, Placed, Sending, Acting
<1>. QED  BY <1>1, <1>3, <1>4, <1>5, MoveKeeps DEF Pinned

LEMMA LooksKeep ==
  BrowserInv /\ (Browser!CheckSecrets \/ Browser!Look \/ Browser!CheckAgain \/ Browser!Capture) => BrowserInv'
<1> SUFFICES ASSUME BrowserInv, Browser!CheckSecrets \/ Browser!CheckAgain \/ Browser!Capture PROVE BrowserInv'
  BY LookKeeps
<1>1. /\ ~Idle /\ action.at \in {"secrets", "checking again", "capturing"}
      /\ UNCHANGED <<queue, page, flying, landed, navigations, changes>>
  BY AtFacts DEF Browser!CheckSecrets, Browser!CheckAgain, Browser!Capture, Browser!KeepsTheRest
<1>2. CASE UNCHANGED reads /\ Browser!Fail
  BY <1>1, <1>2, FailKeeps
<1>3. ASSUME UNCHANGED reads, NEW s \in {"looking", "secrets", "capturing"}, Browser!GoesTo(s),
             s = "capturing" => action.kind = "screenshot"
      PROVE  BrowserInv'
  <2>1. Browser!KeepsTheRest
    BY <1>1, <1>3 DEF Browser!KeepsTheRest
  <2>. QED  BY <1>1, <1>3, <2>1, GoesKeeps DEF Steps, Sending, Acting
<1>4. CASE Browser!CheckSecrets
  <2>1. UNCHANGED reads
    BY <1>4 DEF Browser!CheckSecrets, Browser!KeepsTheRest
  <2>. QED  BY <1>2, <1>3, <1>4, <2>1 DEF Browser!CheckSecrets
<1>5. CASE Browser!Capture
  <2>1. action.kind = "screenshot"
    BY <1>1, <1>5, AtFacts, ActionFacts DEF Browser!Capture, Pinned, Formed
  <2>. QED  BY <1>1, <1>5, <2>1, ReadKeeps DEF Browser!Capture
<1>6. CASE Browser!CheckAgain
  <2>1. CASE ~page.secret /\ Browser!Read(action.saw, action.found) /\ Browser!GoesTo("settling")
    <3>1. action.saw => action.found # page.id
      BY <1>1, <1>6, <2>1, AtFacts, ActionFacts DEF Pinned, Placed, Browser!CheckAgain
    <3>. QED  BY <1>1, <2>1, <3>1, ReadKeeps
  <2>. QED  BY <1>2, <1>3, <1>6, <2>1 DEF Browser!CheckAgain
<1>. QED  BY <1>4, <1>5, <1>6

\* Every step of the browser keeps its invariant.
LEMMA BrowserNext == BrowserInv /\ [Browser!Next]_browserPart => BrowserInv'
<1> SUFFICES ASSUME BrowserInv, [Browser!Next]_browserPart PROVE BrowserInv'
  OBVIOUS
<1>1. CASE UNCHANGED browserPart
  <2>1. UNCHANGED <<queue, action, page, report, flying, landed, reads, navigations>>
    BY <1>1 DEF browserPart
  <2>2. BrowserTypes' /\ OneEach'
    BY <2>1 DEF BrowserInv, BrowserTypes, OneEach, Idle
  <2>3. (~Idle => Pinned)'
    BY <2>1 DEF BrowserInv, Idle, Pinned, Formed, Placed
  <2>4. InFlight' /\ Landings'
    BY <2>1 DEF BrowserInv, InFlight, Landings, Begins, Under, Browser!Astray
  <2>5. Current'
    BY <2>1 DEF BrowserInv, Current, Flies, Reached, Idle, Browser!Astray
  <2>6. Failures'
    BY <2>1 DEF BrowserInv, Failures, Browser!FailedCompletedNothing
  <2>. QED
    BY <2>1, <2>2, <2>3, <2>4, <2>5, <2>6 DEF BrowserInv, Browser!InputOnCheckedPage, Browser!SecretsUnread, Browser!Astray
<1>2. CASE Browser!PageNavigates \/ Browser!PageChanges
  BY <1>2, PageKeeps
<1>3. CASE \E t \in Tasks, asked \in Offered : Browser!Submit(t, asked)
  BY <1>3, SubmitKeeps
<1>4. CASE \E f \in flying : Browser!Arrive(f)
  BY <1>4, ArriveKeeps
<1>5. CASE Browser!Step
  BY <1>5, BeginKeeps, PinKeeps, ChecksKeep, AnswersKeep, FindKeeps, ReadyKeeps, UndeliveredKeeps, SendKeeps,
     LeavesKeep, LooksKeep DEF Browser!Step
<1>. QED  BY <1>1, <1>2, <1>3, <1>4, <1>5 DEF Browser!Next

LEMMA BrowserHolds ==
  BrowserInv => /\ Browser!TypeOK /\ Browser!FailedCompletedNothing
                /\ Browser!InputOnCheckedPage /\ Browser!SecretsUnread
BY DEF BrowserInv, BrowserTypes, Failures, Running, Idle, Browser!TypeOK

-----------------------------------------------------------------------------
(* The computer: what a helper did is of the step the operation is at.     *)

Elements == [name : {"save", "saveas"}, sure : BOOLEAN]

CompTypes ==
  /\ Computer!TypeOK /\ screen \in Screens
  /\ observed \in Seq(Elements) /\ Len(observed) <= MaxElements
  /\ request \in Computer!Requests \cup {Computer!Idle}
  /\ cancelled \in BOOLEAN /\ cancelledBefore \in BOOLEAN
  /\ operations \in 0..MaxOperations /\ (request # Computer!Idle => operations > 0)

AtItsStep ==
  /\ Computer!Busy => step # "done"
  /\ step = "observe" => request.action = "inspect" \/ Computer!Named
  /\ step = "capture" => request.action \in {"inspect", "screenshot"} \/ Computer!Named
  /\ step = "read" => request.action = "inspect" \/ Computer!Named
  /\ request.action \in {"inspect", "screenshot"} => ~Computer!Named
  /\ cancelledBefore => cancelled /\ helper = "none"
  /\ helper # "none" => Computer!Busy

\* The element at i is the one that may be pressed for the target named.
Good(i) ==
  /\ i \in DOMAIN observed /\ observed[i].sure
  /\ \A k \in DOMAIN observed \ {i} :
       /\ observed[k].name # request.target
       /\ Matches(observed[k].name, request.target) => observed[i].name = request.target

\* Only the input's helper sends, and not before the target is chosen.
SentAt ==
  /\ outcome = "none" => IF step = "input" /\ helper = "acted" THEN sent # {} ELSE sent = {}
  /\ Computer!Busy /\ Computer!Named /\ step \in {"probe", "input"} => Good(chosen)
  /\ Computer!Named => \A s \in sent : Good(s.at)

ComputerInv == CompTypes /\ AtItsStep /\ SentAt /\ Computer!FailedSentNothing

LEMMA ScreenFacts == \A s \in Screens : s \in Seq(Elements)
<1>1. /\ Save \in Elements /\ SaveAs \in Elements /\ Unsure(Save) \in Elements /\ Unsure(SaveAs) \in Elements
  BY DEF Save, SaveAs, Unsure, Elements
<1>2. \A a, b, c \in Elements : /\ <<>> \in Seq(Elements) /\ <<a>> \in Seq(Elements)
                                /\ <<a, b>> \in Seq(Elements) /\ <<a, b, c>> \in Seq(Elements)
  OBVIOUS
<1>. QED  BY <1>1, <1>2 DEF Screens

LEMMA ComputerInit == Computer!Init => ComputerInv
<1> SUFFICES ASSUME Computer!Init PROVE ComputerInv
  OBVIOUS
<1>1. /\ request = Computer!Idle /\ step = "done" /\ helper = "none" /\ screen \in Screens
      /\ cancelled = FALSE /\ cancelledBefore = FALSE
      /\ observed = <<>> /\ chosen = 0 /\ sent = {} /\ captures = {}
      /\ outcome = "none" /\ operations = 0
  BY DEF Computer!Init
<1>2. MaxElements \in Nat /\ MaxOperations \in Nat
  BY AdaptersAssumption DEF Computer!ComputerAssumption
<1>3. Computer!TypeOK
  BY <1>1, <1>2 DEF Computer!TypeOK
<1>4. CompTypes
  <2>1. observed \in Seq(Elements) /\ Len(observed) <= MaxElements /\ operations \in 0..MaxOperations
    BY <1>1, <1>2
  <2>. QED  BY <1>1, <1>3, <2>1 DEF CompTypes
<1>5. ~Computer!Busy /\ ~Computer!Named
  BY <1>1 DEF Computer!Busy, Computer!Named, Computer!Idle
<1>6. AtItsStep /\ SentAt /\ Computer!FailedSentNothing
  BY <1>1, <1>5 DEF AtItsStep, SentAt, Computer!FailedSentNothing, Computer!Idle
<1>. QED  BY <1>4, <1>6 DEF ComputerInv

\* It is answered, and truly.
LEMMA AnsweredKeeps ==
  ASSUME ComputerInv, Computer!Busy, NEW o \in {"success", "failed", "unknown"}, Computer!Answer(o),
         UNCHANGED <<chosen, sent>>,
         observed' \in Seq(Elements), Len(observed') <= MaxElements,
         captures' \subseteq [of : 1..MaxOperations, kept : BOOLEAN],
         sent = {} \/ UNCHANGED observed,
         o = "failed" => sent = {},
         o = "success" /\ request.action \in Computer!Inputs => sent # {}
  PROVE  ComputerInv'
<1>1. /\ outcome' = o /\ step' = "done" /\ helper' = "none"
      /\ UNCHANGED <<platform, screen, request, cancelled, cancelledBefore, operations>>
  BY DEF Computer!Answer
<1>2. CompTypes'
  BY <1>1 DEF ComputerInv, CompTypes, Computer!TypeOK
<1>3. ~Computer!Busy' /\ Computer!Named' = Computer!Named
  BY <1>1 DEF Computer!Busy, Computer!Named
<1>4. AtItsStep'
  BY <1>1, <1>3 DEF ComputerInv, AtItsStep
<1>5. SentAt'
  BY <1>1, <1>3 DEF ComputerInv, SentAt, Good
<1>. QED  BY <1>1, <1>2, <1>4, <1>5 DEF ComputerInv, Computer!FailedSentNothing

\* It goes on to another helper with nothing sent.
LEMMA HelperKeeps ==
  ASSUME ComputerInv, Computer!Busy, NEW s \in {"capture", "read", "probe", "input"},
         step' = s, helper' = "none", UNCHANGED <<screen, request, cancelled, outcome, operations, sent>>,
         sent = {}, chosen' \in 0..MaxElements, cancelledBefore' \in {cancelled, cancelledBefore},
         observed' \in Seq(Elements), Len(observed') <= MaxElements,
         captures' \subseteq [of : 1..MaxOperations, kept : BOOLEAN],
         s = "capture" => request.action \in {"inspect", "screenshot"} \/ Computer!Named,
         s = "read" => request.action = "inspect" \/ Computer!Named,
         s \in {"probe", "input"} /\ Computer!Named => Good(chosen)'
  PROVE  ComputerInv'
<1>1. CompTypes'
  BY DEF ComputerInv, CompTypes, Computer!TypeOK
<1>2. Computer!Busy' /\ Computer!Named' = Computer!Named
  BY DEF Computer!Busy, Computer!Named
<1>3. AtItsStep'
  BY <1>2 DEF ComputerInv, AtItsStep
<1>4. SentAt'
  BY <1>2 DEF ComputerInv, SentAt
<1>5. Computer!FailedSentNothing'
  BY DEF Computer!FailedSentNothing, Computer!Busy
<1>. QED  BY <1>1, <1>3, <1>4, <1>5 DEF ComputerInv

\* What is known while an operation is busy.
LEMMA BusyFacts ==
  ASSUME ComputerInv, Computer!Busy
  PROVE  /\ outcome = "none" /\ MaxElements \in Nat /\ operations \in 1..MaxOperations
         /\ step \in {"observe", "capture", "read", "probe", "input"}
         /\ step # "input" \/ helper # "acted" => sent = {}
         /\ step = "input" /\ helper = "acted" => sent # {}
         /\ chosen \in 0..MaxElements /\ observed \in Seq(Elements) /\ Len(observed) <= MaxElements
         /\ captures \subseteq [of : 1..MaxOperations, kept : BOOLEAN]
         /\ cancelledBefore => helper = "none"
<1>1. MaxElements \in Nat /\ MaxOperations \in Nat
  BY AdaptersAssumption DEF Computer!ComputerAssumption
<1>2. operations \in 1..MaxOperations
  BY <1>1 DEF ComputerInv, CompTypes, Computer!Busy
<1>. QED
  BY <1>1, <1>2 DEF ComputerInv, CompTypes, Computer!TypeOK, AtItsStep, SentAt, Computer!Busy

LEMMA StartKeeps ==
  ASSUME ComputerInv, NEW r \in Computer!Requests, Computer!Start(r)
  PROVE  ComputerInv'
<1>1. /\ operations < MaxOperations /\ request' = r /\ operations' = operations + 1
      /\ step' = IF r.action = "inspect" \/ r.target # Nobody THEN "observe"
                 ELSE IF r.action = "screenshot" THEN "capture" ELSE Computer!AdapterStep(r)
      /\ cancelled' = FALSE /\ cancelledBefore' = FALSE
      /\ helper' = "none" /\ observed' = <<>> /\ chosen' = 0 /\ sent' = {} /\ outcome' = "none"
      /\ UNCHANGED <<screen, captures>>
  BY DEF Computer!Start
<1>2. Computer!AdapterStep(r) \in {"probe", "input"}
  BY DEF Computer!AdapterStep
<1>3. MaxElements \in Nat /\ MaxOperations \in Nat
  BY AdaptersAssumption DEF Computer!ComputerAssumption
<1>4. /\ operations' \in 0..MaxOperations /\ operations' > 0
      /\ observed' \in Seq(Elements) /\ Len(observed') <= MaxElements /\ chosen' \in 0..MaxElements
  BY <1>1, <1>3 DEF ComputerInv, CompTypes
<1>5. CompTypes'
  BY <1>1, <1>2, <1>4 DEF ComputerInv, CompTypes, Computer!TypeOK
<1>6. r.action \in {"inspect", "screenshot"} => r.target = Nobody
  BY DEF Computer!Requests, Computer!Inputs
<1>7. AtItsStep'
  BY <1>1, <1>2, <1>6 DEF AtItsStep, Computer!Busy, Computer!Named
<1>8. SentAt' /\ Computer!FailedSentNothing'
  BY <1>1, <1>2 DEF SentAt, Computer!FailedSentNothing, Computer!Named, Computer!Busy
<1>. QED  BY <1>5, <1>7, <1>8 DEF ComputerInv

LEMMA ActsKeep ==
  ASSUME ComputerInv, Computer!Act
  PROVE  ComputerInv'
<1>1. /\ Computer!Busy /\ helper = "started" /\ helper' = "acted"
      /\ UNCHANGED <<screen, request, step, cancelled, cancelledBefore, chosen, outcome, operations>>
      /\ observed' = CASE step = "observe" /\ platform.tree ->
                            [i \in DOMAIN Computer!Kept |-> [Computer!Kept[i] EXCEPT !.sure = TRUE]]
                       [] step = "read" -> Computer!Kept
                       [] OTHER -> observed
      /\ captures' = IF step = "capture"
                     THEN captures \cup {[of |-> operations, kept |-> request.action = "screenshot"]}
                     ELSE captures
      /\ sent' = IF step = "input" THEN sent \cup {[at |-> chosen]} ELSE sent
  BY DEF Computer!Act
<1>2. Computer!Kept \in Seq(Elements) /\ Len(Computer!Kept) <= MaxElements
  <2> DEFINE n == IF Len(screen) < MaxElements THEN Len(screen) ELSE MaxElements
  <2>1. screen \in Seq(Elements) /\ MaxElements \in Nat
    BY <1>1, ScreenFacts, BusyFacts DEF ComputerInv, CompTypes
  <2>2. n \in Nat /\ n <= Len(screen) /\ n <= MaxElements
    BY <2>1
  <2> HIDE DEF n
  <2>3. SubSeq(screen, 1, n) \in Seq(Elements) /\ Len(SubSeq(screen, 1, n)) = n
    <3>1. \A i \in 1..n : screen[i] \in Elements
      BY <2>1, <2>2
    <3>. QED  BY <2>1, <2>2, <3>1
  <2>. QED  BY <2>2, <2>3 DEF Computer!Kept, n
<1>3. observed' \in Seq(Elements) /\ Len(observed') <= MaxElements
      /\ (step \notin {"observe", "read"} => observed' = observed)
  <2> DEFINE stated == [i \in DOMAIN Computer!Kept |-> [Computer!Kept[i] EXCEPT !.sure = TRUE]]
  <2>1. stated \in Seq(Elements) /\ Len(stated) = Len(Computer!Kept)
    <3>1. \A e \in Elements : [e EXCEPT !.sure = TRUE] \in Elements
      BY DEF Elements
    <3>2. DOMAIN Computer!Kept = 1..Len(Computer!Kept) /\ Len(Computer!Kept) \in Nat
          /\ \A i \in 1..Len(Computer!Kept) : Computer!Kept[i] \in Elements
      BY <1>2
    <3>. QED  BY <3>1, <3>2
  <2> HIDE DEF stated
  <2>2. observed' = CASE step = "observe" /\ platform.tree -> stated
                      [] step = "read" -> Computer!Kept
                      [] OTHER -> observed
    BY <1>1 DEF stated
  <2>3. observed' \in {stated, Computer!Kept, observed} /\ (step \notin {"observe", "read"} => observed' = observed)
    BY <2>2
  <2>. QED  BY <1>1, <1>2, <2>1, <2>3, BusyFacts
<1>4. captures' \subseteq [of : 1..MaxOperations, kept : BOOLEAN]
  <2>1. (request.action = "screenshot") \in BOOLEAN
    OBVIOUS
  <2>2. operations \in 1..MaxOperations /\ captures \subseteq [of : 1..MaxOperations, kept : BOOLEAN]
    BY <1>1, BusyFacts
  <2>3. [of |-> operations, kept |-> request.action = "screenshot"] \in [of : 1..MaxOperations, kept : BOOLEAN]
    BY <2>1, <2>2
  <2>. QED  BY <1>1, <2>2, <2>3
<1>5. CompTypes'
  BY <1>1, <1>3, <1>4 DEF ComputerInv, CompTypes, Computer!TypeOK
<1>6. Computer!Busy' /\ Computer!Named' = Computer!Named
  BY <1>1 DEF Computer!Busy, Computer!Named
<1>7. AtItsStep'
  BY <1>1, <1>6, BusyFacts DEF ComputerInv, AtItsStep
<1>8. SentAt'
  <2>1. sent = {}
    BY <1>1, BusyFacts
  <2>2. step \in {"probe", "input"} => (\A i : Good(i)' <=> Good(i))
    BY <1>1, <1>3 DEF Good
  <2>3. \A s \in sent' : step = "input" /\ s.at = chosen
    BY <1>1, <2>1
  <2>. QED  BY <1>1, <1>6, <2>1, <2>2, <2>3 DEF ComputerInv, SentAt
<1>9. Computer!FailedSentNothing'
  BY <1>1, BusyFacts DEF Computer!FailedSentNothing
<1>. QED  BY <1>5, <1>7, <1>8, <1>9 DEF ComputerInv

\* A target resolved is the one element of its name that is sure.
LEMMA ResolveKeeps ==
  ASSUME ComputerInv, Computer!Busy, Computer!Named, step # "input", Computer!Resolve, UNCHANGED sent,
         observed' \in Seq(Elements), Len(observed') <= MaxElements,
         captures' \subseteq [of : 1..MaxOperations, kept : BOOLEAN]
  PROVE  ComputerInv'
<1> DEFINE best == Computer!Best(observed', request.target)
<1>1. sent = {} /\ outcome = "none" /\ MaxElements \in Nat
  BY BusyFacts
<1>2. CASE Computer!Answer("failed") /\ UNCHANGED chosen
  BY <1>1, <1>2, AnsweredKeeps
<1>3. CASE ~(Computer!Answer("failed") /\ UNCHANGED chosen)
  <2> DEFINE i == CHOOSE j \in best : TRUE
  <2>1. Computer!Cardinality(best) = 1
    BY <1>3 DEF Computer!Resolve
  <2>2. /\ observed'[i].sure
        /\ chosen' = i /\ step' = Computer!AdapterStep(request) /\ helper' = "none"
        /\ cancelledBefore' = cancelled
        /\ UNCHANGED <<platform, screen, request, cancelled, outcome, operations>>
    BY <1>3, <2>1 DEF Computer!Resolve
  <2>3. DOMAIN observed' = 1..Len(observed') /\ Len(observed') \in Nat
    OBVIOUS
  <2>4. best \subseteq 1..Len(observed')
    BY <2>3 DEF Computer!Best
  <2> HIDE DEF best
  <2>5. IsFiniteSet(best) /\ Cardinality(best) = 1
    <3>1. IsFiniteSet(1..Len(observed'))
      BY <2>3, FS_Interval
    <3>. QED  BY <2>1, <2>4, <3>1, FS_Subset DEF Computer!Cardinality, Cardinality
  <2>6. PICK j : best = {j}
    BY <2>5, FS_Singleton
  <2>7. i = j /\ i \in best
    BY <2>6
  <2> HIDE DEF i
  <2>8. i \in DOMAIN observed' /\ i \in 0..MaxElements
    BY <1>1, <2>3, <2>4, <2>7
  <2>9. \A k \in DOMAIN observed' \ {i} :
          /\ observed'[k].name # request.target
          /\ Matches(observed'[k].name, request.target) => observed'[i].name = request.target
    <3> DEFINE exact == {k \in DOMAIN observed' : observed'[k].name = request.target}
    <3>1. CASE exact # {}
      <4>1. best = exact
        BY <3>1 DEF best, Computer!Best
      <4>. QED  BY <2>6, <2>7, <4>1
    <3>2. CASE exact = {}
      <4>1. best = {k \in DOMAIN observed' : Matches(observed'[k].name, request.target)}
        BY <3>2 DEF best, Computer!Best
      <4>. QED  BY <2>6, <2>7, <3>2, <4>1
    <3>. QED  BY <3>1, <3>2
  <2>10. Good(chosen)'
    BY <2>2, <2>8, <2>9 DEF Good
  <2>11. Computer!AdapterStep(request) \in {"probe", "input"}
    BY DEF Computer!AdapterStep
  <2>. QED  BY <1>1, <2>2, <2>8, <2>10, <2>11, HelperKeeps
<1>. QED  BY <1>2, <1>3

LEMMA LookedKeeps ==
  ASSUME ComputerInv, Computer!Busy, step \in {"observe", "read"}, Computer!Looked, UNCHANGED <<sent, observed>>,
         captures' \subseteq [of : 1..MaxOperations, kept : BOOLEAN]
  PROVE  ComputerInv'
<1>1. CASE Computer!Named
  BY <1>1, ResolveKeeps, BusyFacts DEF Computer!Looked
<1>2. CASE ~Computer!Named
  <2>1. Computer!Answer("success") /\ UNCHANGED chosen
    BY <1>2 DEF Computer!Looked
  <2>2. request.action \notin Computer!Inputs
    BY <1>2 DEF ComputerInv, AtItsStep, Computer!Inputs
  <2>. QED  BY <2>1, <2>2, BusyFacts, AnsweredKeeps
<1>. QED  BY <1>1, <1>2

LEMMA DeleteFacts ==
  ASSUME ComputerInv, Computer!Delete
  PROVE  captures' \subseteq [of : 1..MaxOperations, kept : BOOLEAN]
BY DEF Computer!Delete, ComputerInv, CompTypes, Computer!TypeOK

LEMMA DoneKeeps ==
  ASSUME ComputerInv, Computer!Done
  PROVE  ComputerInv'
<1>1. Computer!Busy /\ helper = "acted" /\ UNCHANGED <<sent, observed>>
  BY DEF Computer!Done
<1>2. /\ outcome = "none" /\ observed' \in Seq(Elements) /\ Len(observed') <= MaxElements
      /\ step # "input" => sent = {}
      /\ step = "input" => sent # {}
      /\ captures \subseteq [of : 1..MaxOperations, kept : BOOLEAN]
      /\ step \in {"observe", "capture", "read", "probe", "input"}
      /\ chosen \in 0..MaxElements
  BY <1>1, BusyFacts
<1>3. CASE step = "observe"
  <2>1. CASE Computer!Unseen
    <3>1. Computer!MoveTo("capture") /\ UNCHANGED captures
      BY <1>3, <2>1 DEF Computer!Done
    <3>2. request.action \in {"inspect", "screenshot"} \/ Computer!Named
      BY <1>3 DEF ComputerInv, AtItsStep
    <3>. QED  BY <1>1, <1>2, <1>3, <3>1, <3>2, HelperKeeps DEF Computer!MoveTo
  <2>2. CASE ~Computer!Unseen
    <3>1. Computer!Looked /\ UNCHANGED captures
      BY <1>3, <2>2 DEF Computer!Done
    <3>. QED  BY <1>1, <1>2, <1>3, <3>1, LookedKeeps
  <2>. QED  BY <2>1, <2>2
<1>4. CASE step = "capture"
  <2>1. CASE request.action = "screenshot"
    <3>1. Computer!Answer("success") /\ UNCHANGED <<chosen, captures>>
      BY <1>4, <2>1 DEF Computer!Done
    <3>. QED  BY <1>1, <1>2, <1>4, <2>1, <3>1, AnsweredKeeps DEF Computer!Inputs
  <2>2. CASE request.action # "screenshot"
    <3>1. Computer!MoveTo("read") /\ UNCHANGED captures
      BY <1>4, <2>2 DEF Computer!Done
    <3>2. request.action = "inspect" \/ Computer!Named
      BY <1>4, <2>2 DEF ComputerInv, AtItsStep
    <3>. QED  BY <1>1, <1>2, <1>4, <3>1, <3>2, HelperKeeps DEF Computer!MoveTo
  <2>. QED  BY <2>1, <2>2
<1>5. CASE step = "read"
  <2>1. Computer!Delete /\ Computer!Looked
    BY <1>5 DEF Computer!Done
  <2>. QED  BY <1>1, <1>5, <2>1, DeleteFacts, LookedKeeps
<1>6. CASE step = "probe"
  <2>1. UNCHANGED captures /\ (Computer!MoveTo("input") \/ (Computer!Answer("failed") /\ UNCHANGED chosen))
    BY <1>6 DEF Computer!Done
  <2>2. CASE Computer!MoveTo("input")
    BY <1>1, <1>2, <1>6, <2>1, <2>2, HelperKeeps DEF Computer!MoveTo, ComputerInv, SentAt, Good
  <2>3. CASE Computer!Answer("failed") /\ UNCHANGED chosen
    BY <1>1, <1>2, <1>6, <2>1, <2>3, AnsweredKeeps
  <2>. QED  BY <2>1, <2>2, <2>3
<1>7. CASE step = "input"
  <2>1. Computer!Answer("success") /\ UNCHANGED <<chosen, captures>>
    BY <1>7 DEF Computer!Done
  <2>. QED  BY <1>1, <1>2, <1>7, <2>1, AnsweredKeeps
<1>. QED  BY <1>2, <1>3, <1>4, <1>5, <1>6, <1>7

\* A helper stopped after its input may have been sent is answered as unknown.
LEMMA StoppedKeeps ==
  ASSUME ComputerInv, Computer!Busy, UNCHANGED sent, NEW how \in {"unstarted", "error", "timeout", "killed"},
         observed' = IF step = "read" THEN <<>> ELSE observed,
         Computer!Stopped(how),
         how = "unstarted" => helper = "none", how = "error" => helper = "started"
  PROVE  ComputerInv'
<1>1. /\ observed' \in Seq(Elements) /\ Len(observed') <= MaxElements
      /\ step # "input" => sent = {}
      /\ captures \subseteq [of : 1..MaxOperations, kept : BOOLEAN]
      /\ step \in {"observe", "capture", "read", "probe", "input"}
      /\ sent = {} \/ UNCHANGED observed
      /\ outcome = "none" /\ chosen \in 0..MaxElements
  <2>1. /\ <<>> \in Seq(Elements) /\ Len(<<>>) = 0 /\ MaxElements \in Nat
    BY BusyFacts
  <2>. QED  BY <2>1, BusyFacts
<1>2. CASE step = "input" /\ Computer!Answer("unknown") /\ UNCHANGED <<chosen, captures>>
  BY <1>1, <1>2, AnsweredKeeps
<1>3. CASE /\ Computer!Answer("failed") /\ UNCHANGED chosen
           /\ captures' \subseteq [of : 1..MaxOperations, kept : BOOLEAN] /\ sent = {}
  BY <1>1, <1>3, AnsweredKeeps
<1>4. CASE step \in {"capture", "read"} /\ request.action = "inspect" /\ ~cancelled
  <2>1. /\ IF step = "read" THEN Computer!Delete ELSE UNCHANGED captures
        /\ Computer!Answer("success") /\ UNCHANGED chosen
    BY <1>4 DEF Computer!Stopped
  <2>. QED  BY <1>1, <1>4, <2>1, DeleteFacts, AnsweredKeeps DEF Computer!Inputs
<1>5. CASE step = "read" /\ (request.action # "inspect" \/ cancelled)
  BY <1>1, <1>3, <1>5, DeleteFacts DEF Computer!Stopped
<1>6. CASE step = "probe" /\ platform.os = "mac"
  <2>1. Computer!MoveTo("input") /\ UNCHANGED captures
    BY <1>6 DEF Computer!Stopped
  <2>. QED  BY <1>1, <1>6, <2>1, HelperKeeps DEF Computer!MoveTo, ComputerInv, SentAt, Good
<1>7. CASE step = "input"
  <2>1. \/ Computer!Answer("unknown") /\ UNCHANGED <<chosen, captures>>
        \/ /\ Computer!Answer("failed") /\ UNCHANGED <<chosen, captures>>
           /\ how # "timeout" /\ (how = "killed" => cancelledBefore)
    BY <1>7 DEF Computer!Stopped
  <2>2. how # "timeout" /\ (how = "killed" => cancelledBefore) => sent = {}
    BY <1>7, BusyFacts
  <2>. QED  BY <1>1, <1>2, <1>3, <1>7, <2>1, <2>2
<1>8. CASE step \in {"observe", "capture", "probe"} /\ ~(step = "capture" /\ request.action = "inspect" /\ ~cancelled)
           /\ ~(step = "probe" /\ platform.os = "mac")
  <2>1. Computer!Answer("failed") /\ UNCHANGED <<chosen, captures>>
    BY <1>8 DEF Computer!Stopped
  <2>. QED  BY <1>1, <1>3, <1>8, <2>1
<1>. QED  BY <1>1, <1>4, <1>5, <1>6, <1>7, <1>8

LEMMA ComputerNext == ComputerInv /\ [Computer!Next]_computerPart => ComputerInv'
<1> SUFFICES ASSUME ComputerInv, [Computer!Next]_computerPart PROVE ComputerInv'
  OBVIOUS
<1>1. CASE UNCHANGED computerPart
  BY <1>1 DEF computerPart, ComputerInv, CompTypes, AtItsStep, SentAt, Good, Computer!TypeOK, Computer!Busy,
              Computer!Named, Computer!FailedSentNothing
<1>2. CASE \E r \in Computer!Requests : Computer!Start(r)
  BY <1>2, StartKeeps
<1>3. CASE Computer!Cancel \/ \E s \in Screens : Computer!ScreenChanges(s)
  <2>1. /\ UNCHANGED <<request, step, helper, cancelledBefore, observed, chosen, sent, captures, outcome,
                       operations>>
        /\ screen' \in Screens /\ cancelled' \in BOOLEAN /\ (cancelled => cancelled')
    BY <1>3 DEF Computer!Cancel, Computer!ScreenChanges, ComputerInv, CompTypes
  <2>2. CompTypes'
    BY <2>1 DEF ComputerInv, CompTypes, Computer!TypeOK
  <2>3. Computer!Busy' = Computer!Busy /\ Computer!Named' = Computer!Named
    BY <2>1 DEF Computer!Busy, Computer!Named
  <2>4. AtItsStep'
    BY <2>1, <2>3 DEF ComputerInv, AtItsStep
  <2>5. SentAt' /\ Computer!FailedSentNothing'
    BY <2>1, <2>3 DEF ComputerInv, SentAt, Good, Computer!FailedSentNothing
  <2>. QED  BY <2>2, <2>4, <2>5 DEF ComputerInv
<1>4. CASE Computer!Begin
  <2>1. /\ Computer!Busy /\ helper = "none" /\ ~cancelled /\ helper' = "started"
        /\ UNCHANGED <<screen, request, step, cancelled, cancelledBefore, observed, chosen, sent, captures,
                       outcome, operations>>
    BY <1>4 DEF Computer!Begin
  <2>2. CompTypes'
    BY <2>1 DEF ComputerInv, CompTypes, Computer!TypeOK
  <2>3. Computer!Busy' = Computer!Busy /\ Computer!Named' = Computer!Named
    BY <2>1 DEF Computer!Busy, Computer!Named
  <2>4. AtItsStep'
    BY <2>1, <2>3 DEF ComputerInv, AtItsStep
  <2>5. SentAt' /\ Computer!FailedSentNothing'
    BY <2>1, <2>3 DEF ComputerInv, SentAt, Good, Computer!FailedSentNothing
  <2>. QED  BY <2>2, <2>4, <2>5 DEF ComputerInv
<1>5. CASE Computer!Stop
  <2>1. \E how \in {"unstarted", "error", "timeout", "killed"} :
          /\ Computer!Stopped(how)
          /\ how = "unstarted" => helper = "none"
          /\ how = "error" => helper = "started"
    BY <1>5 DEF Computer!Stop
  <2>. QED  BY <1>5, <2>1, StoppedKeeps DEF Computer!Stop
<1>. QED  BY <1>1, <1>2, <1>3, <1>4, <1>5, ActsKeep, DoneKeeps DEF Computer!Next

LEMMA ComputerHolds ==
  ComputerInv => Computer!TypeOK /\ Computer!FailedSentNothing /\ Computer!PressedTheOneNamed
BY DEF ComputerInv, CompTypes, SentAt, Good, Computer!PressedTheOneNamed

-----------------------------------------------------------------------------
(* The terminal: each command is watched by itself, and the jobs kept are  *)
(* those that may be asked for.                                            *)

Records ==
  [kind : {"none", "run", "start"},
   program : {"none", "running", "dead", "exited"}, left : BOOLEAN, timer : BOOLEAN,
   kill : BOOLEAN, watch : BOOLEAN, ended : BOOLEAN, expired : BOOLEAN,
   timedOut : BOOLEAN, answer : {"none", "exited", "unknown", "started"}]

Kept(c) == \E i \in DOMAIN jobs : jobs[i] = c

TermTypes ==
  /\ command \in [Tasks -> Records]
  /\ foreground \subseteq Tasks /\ closing \subseteq Tasks /\ spared \subseteq Tasks
  /\ jobs \in Seq(Tasks) /\ closed \in BOOLEAN
  /\ ~closed => spared = {} /\ closing = {}

\* A command that was never run has nothing; a program's pipes close after it.
InOrder(c) ==
  /\ command[c].kind = "none" =>
       /\ command[c].program = "none" /\ ~command[c].left /\ ~command[c].timer /\ ~command[c].kill
       /\ ~command[c].watch /\ c \notin foreground
  /\ command[c].program = "none" => command[c].kind = "none"
  /\ command[c].ended => command[c].program = "exited"
  /\ Kept(c) => command[c].kind = "start"

\* A run is in the foreground until it and what it left are over.
RunWatched(c) ==
  command[c].kind = "run" =>
    /\ c \in foreground <=> command[c].program \in {"running", "dead"} \/ command[c].watch
    /\ command[c].program = "running" => command[c].timer \/ command[c].kill
    /\ command[c].watch => command[c].program = "exited"
    /\ command[c].program = "exited" /\ command[c].left => command[c].watch
    /\ command[c].answer = "exited" => ~command[c].timer /\ ~command[c].timedOut

\* A job is in nobody's foreground; an owed SIGKILL, its timer or a watch has it.
JobWatched(c) ==
  command[c].kind = "start" =>
    /\ c \notin foreground /\ command[c].answer \in {"none", "started"}
    /\ command[c].expired => ~Terminal!Alive(c)
    /\ Terminal!Alive(c) /\ c \notin spared => command[c].timer \/ command[c].kill \/ command[c].watch
    /\ Terminal!Alive(c) /\ command[c].ended /\ ~closed => command[c].watch
    /\ closed /\ c \notin spared /\ Terminal!Alive(c) => command[c].kill
    /\ command[c].answer = "none" /\ closed => c \in spared
    /\ command[c].answer = "started" /\ ~closed /\ (~command[c].ended \/ Terminal!LeftBehind(c)) => Kept(c)

\* close waits for what it saw.
ClosedFor(c) == closed /\ c \notin spared /\ Terminal!Alive(c) => c \in closing

Watched(c) == InOrder(c) /\ RunWatched(c) /\ JobWatched(c) /\ ClosedFor(c)
TerminalInv == TermTypes /\ \A c \in Tasks : Watched(c)

LEMMA TerminalInit == Terminal!Init => TerminalInv
<1> SUFFICES ASSUME Terminal!Init PROVE TerminalInv
  OBVIOUS
<1>1. /\ command = [c \in Tasks |-> Terminal!Fresh] /\ jobs = <<>>
      /\ foreground = {} /\ closed = FALSE /\ closing = {} /\ spared = {}
  BY DEF Terminal!Init
<1>2. Terminal!Fresh \in Records
  BY DEF Terminal!Fresh, Records
<1>3. <<>> \in Seq(Tasks)
  OBVIOUS
<1>4. TermTypes
  BY <1>1, <1>2, <1>3 DEF TermTypes
<1>5. ASSUME NEW c \in Tasks PROVE Watched(c)
  <2>1. command[c] = Terminal!Fresh /\ ~Kept(c)
    BY <1>1 DEF Kept
  <2>. QED
    BY <1>1, <2>1 DEF Watched, InOrder, RunWatched, JobWatched, ClosedFor, Terminal!Fresh
<1>. QED  BY <1>4, <1>5 DEF TerminalInv

\* One command changes; of the others at most one that is over is dropped.
LEMMA OneChanges ==
  ASSUME TerminalInv, NEW c \in Tasks, NEW r \in Records, Terminal!Set(c, r), UNCHANGED closed,
         foreground' \subseteq Tasks, closing' \subseteq Tasks, spared' \subseteq Tasks, jobs' \in Seq(Tasks),
         ~closed => spared' = {} /\ closing' = {},
         \A d \in Tasks \ {c} :
           /\ d \in foreground' <=> d \in foreground
           /\ d \in closing' <=> d \in closing
           /\ d \in spared' <=> d \in spared
           /\ Kept(d)' => Kept(d)
           /\ Kept(d) => Kept(d)' \/ (command[d].ended /\ ~Terminal!LeftBehind(d)),
         Watched(c)'
  PROVE  TerminalInv'
<1>1. command' \in [Tasks -> Records] /\ \A d \in Tasks \ {c} : command'[d] = command[d]
  BY DEF Terminal!Set, TerminalInv, TermTypes
<1>2. TermTypes'
  BY <1>1 DEF TerminalInv, TermTypes
<1>3. ASSUME NEW d \in Tasks \ {c} PROVE Watched(d)'
  BY <1>1, <1>3
  DEF TerminalInv, Watched, InOrder, RunWatched, JobWatched, ClosedFor, Terminal!Alive, Terminal!LeftBehind
<1>. QED  BY <1>2, <1>3 DEF TerminalInv

LEMMA OnlyCommand ==
  ASSUME TerminalInv, NEW c \in Tasks, NEW r \in Records, Terminal!Set(c, r),
         UNCHANGED <<jobs, foreground, closed, closing, spared>>, Watched(c)'
  PROVE  TerminalInv'
<1>1. /\ foreground' \subseteq Tasks /\ closing' \subseteq Tasks /\ spared' \subseteq Tasks /\ jobs' \in Seq(Tasks)
      /\ ~closed => spared' = {} /\ closing' = {}
  BY DEF TerminalInv, TermTypes
<1>2. \A d : Kept(d)' <=> Kept(d)
  BY DEF Kept
<1>. QED  BY <1>1, <1>2, OneChanges

\* What is known of a command that something happens to.
LEMMA CommandFacts ==
  ASSUME TerminalInv, NEW c \in Tasks, NEW r, Terminal!Set(c, r)
  PROVE  command[c] \in Records /\ Watched(c) /\ command'[c] = r
BY DEF TerminalInv, TermTypes, Terminal!Set

LEMMA KilledFacts ==
  ASSUME NEW q \in Records, NEW r,
         r = [Terminal!Killed(q) EXCEPT !.expired = q.kind = "start" /\ q.timedOut]
  PROVE  /\ r \in Records /\ ~r.left
         /\ r.program # "running" /\ (q.program # "running" => r.program = q.program)
         /\ q.program = "running" => r.program = "dead"
         /\ r.kind = q.kind /\ r.timer = q.timer /\ r.watch = q.watch
         /\ r.ended = q.ended /\ r.timedOut = q.timedOut /\ r.answer = q.answer
<1> DEFINE over == q.kind = "start" /\ q.timedOut
           program == IF q.program = "running" THEN "dead" ELSE q.program
           killed == [q EXCEPT !.kill = FALSE, !.left = FALSE, !.program = program]
<1>1. Terminal!Killed(q) = killed
  BY DEF Terminal!Killed
<1>2. /\ program \in {"none", "running", "dead", "exited"} /\ over \in BOOLEAN
      /\ program # "running" /\ (q.program # "running" => program = q.program)
      /\ q.program = "running" => program = "dead"
  BY DEF Records
<1>3. r = [killed EXCEPT !.expired = over]
  BY <1>1
<1> HIDE DEF program, over
<1>4. /\ killed \in Records /\ ~killed.left /\ killed.program = program
      /\ killed.kind = q.kind /\ killed.timer = q.timer /\ killed.watch = q.watch
      /\ killed.ended = q.ended /\ killed.timedOut = q.timedOut /\ killed.answer = q.answer
  BY <1>2 DEF Records
<1> HIDE DEF killed
<1>5. /\ r \in Records /\ r.left = killed.left /\ r.program = killed.program
      /\ r.kind = killed.kind /\ r.timer = killed.timer /\ r.watch = killed.watch
      /\ r.ended = killed.ended /\ r.timedOut = killed.timedOut /\ r.answer = killed.answer
  BY <1>2, <1>3, <1>4 DEF Records
<1>. QED  BY <1>2, <1>4, <1>5

LEMMA SystemKeeps ==
  ASSUME TerminalInv, NEW c \in Tasks,
         Terminal!Forks(c) \/ Terminal!ProgramEnds(c) \/ Terminal!LeftEnd(c) \/ Terminal!Kill(c)
  PROVE  TerminalInv'
<1> USE DEF Watched, InOrder, RunWatched, JobWatched, ClosedFor, Terminal!Alive, Terminal!LeftBehind, Kept
<1>1. UNCHANGED <<jobs, foreground, closed, closing, spared>>
  BY DEF Terminal!Forks, Terminal!ProgramEnds, Terminal!LeftEnd, Terminal!Kill
<1>2. CASE Terminal!Forks(c)
  <2> DEFINE r == [command[c] EXCEPT !.left = TRUE]
  <2>1. Terminal!Set(c, r) /\ command[c].program = "running"
    BY <1>2 DEF Terminal!Forks
  <2>2. command[c] \in Records /\ Watched(c) /\ command'[c] = r
    BY <2>1, CommandFacts
  <2>3. r \in Records /\ Watched(c)'
    BY <1>1, <2>1, <2>2 DEF Records
  <2>. QED  BY <1>1, <2>1, <2>3, OnlyCommand
<1>3. CASE Terminal!ProgramEnds(c)
  <2> DEFINE r == [command[c] EXCEPT !.program = "dead"]
  <2>1. Terminal!Set(c, r) /\ command[c].program = "running"
    BY <1>3 DEF Terminal!ProgramEnds
  <2>2. command[c] \in Records /\ Watched(c) /\ command'[c] = r
    BY <2>1, CommandFacts
  <2>3. r \in Records /\ Watched(c)'
    BY <1>1, <2>1, <2>2 DEF Records
  <2>. QED  BY <1>1, <2>1, <2>3, OnlyCommand
<1>4. CASE Terminal!LeftEnd(c)
  <2> DEFINE r == [command[c] EXCEPT !.left = FALSE]
  <2>1. Terminal!Set(c, r)
    BY <1>4 DEF Terminal!LeftEnd
  <2>2. command[c] \in Records /\ Watched(c) /\ command'[c] = r
    BY <2>1, CommandFacts
  <2>3. r \in Records /\ Watched(c)'
    BY <1>1, <2>1, <2>2 DEF Records
  <2>. QED  BY <1>1, <2>1, <2>3, OnlyCommand
<1>5. CASE Terminal!Kill(c)
  <2>1. PICK r : /\ Terminal!Set(c, r) /\ command[c].kill
                 /\ r = [Terminal!Killed(command[c]) EXCEPT
                          !.expired = command[c].kind = "start" /\ command[c].timedOut]
    BY <1>5 DEF Terminal!Kill
  <2>2. command[c] \in Records /\ Watched(c) /\ command'[c] = r
    BY <2>1, CommandFacts
  <2>3. /\ r \in Records /\ ~r.left
        /\ r.program # "running" /\ (command[c].program # "running" => r.program = command[c].program)
        /\ command[c].program = "running" => r.program = "dead"
        /\ r.kind = command[c].kind /\ r.timer = command[c].timer /\ r.watch = command[c].watch
        /\ r.ended = command[c].ended /\ r.timedOut = command[c].timedOut /\ r.answer = command[c].answer
    BY <2>1, <2>2, KilledFacts
  <2>4. command[c].kind # "none"
    BY <2>1, <2>2
  <2>5. InOrder(c)' /\ RunWatched(c)' /\ JobWatched(c)' /\ ClosedFor(c)'
    <3>1. CASE command[c].kind = "run"
      BY <1>1, <2>2, <2>3, <3>1
    <3>2. CASE command[c].kind = "start"
      BY <1>1, <2>2, <2>3, <3>2
    <3>. QED  BY <2>2, <2>4, <3>1, <3>2 DEF Records
  <2>. QED  BY <1>1, <2>1, <2>3, <2>5, OnlyCommand
<1>. QED  BY <1>2, <1>3, <1>4, <1>5

\* What a run or a job is asked and told, its own command apart from nothing else.
LEMMA TimersKeep ==
  ASSUME TerminalInv, NEW c \in Tasks,
         \/ Terminal!Cancel(c) \/ Terminal!RunTimeout(c) \/ Terminal!RunClosed(c) \/ Terminal!Stop(c)
         \/ Terminal!JobTimeout(c) \/ Terminal!JobExit(c) \/ Terminal!JobClosed(c) \/ Terminal!JobWatch(c)
  PROVE  TerminalInv'
<1> USE DEF Watched, InOrder, RunWatched, JobWatched, ClosedFor, Terminal!Alive, Terminal!LeftBehind, Kept
<1>1. UNCHANGED <<jobs, foreground, closed, closing, spared>>
  BY DEF Terminal!Cancel, Terminal!RunTimeout, Terminal!RunClosed, Terminal!Stop, Terminal!JobTimeout,
         Terminal!JobExit, Terminal!JobClosed, Terminal!JobWatch
<1>2. CASE Terminal!Cancel(c)
  <2> DEFINE r == [command[c] EXCEPT !.kill = TRUE, !.timer = FALSE, !.answer = "unknown"]
  <2>1. Terminal!Set(c, r) /\ command[c].kind = "run"
    BY <1>2 DEF Terminal!Cancel, Terminal!Stopping
  <2>2. command[c] \in Records /\ Watched(c) /\ command'[c] = r
    BY <2>1, CommandFacts
  <2>3. r \in Records /\ Watched(c)'
    BY <1>1, <2>1, <2>2 DEF Records
  <2>. QED  BY <1>1, <2>1, <2>3, OnlyCommand
<1>3. CASE Terminal!RunTimeout(c)
  <2> DEFINE r == IF command[c].program = "exited" THEN [command[c] EXCEPT !.timer = FALSE]
                  ELSE [command[c] EXCEPT !.kill = TRUE, !.timer = FALSE, !.timedOut = TRUE]
  <2>1. Terminal!Set(c, r) /\ command[c].kind = "run" /\ command[c].timer
    BY <1>3 DEF Terminal!RunTimeout, Terminal!Stopping
  <2>2. command[c] \in Records /\ Watched(c) /\ command'[c] = r
    BY <2>1, CommandFacts
  <2>3. r \in Records /\ Watched(c)'
    <3>1. CASE command[c].program = "exited"
      BY <1>1, <2>1, <2>2, <3>1 DEF Records
    <3>2. CASE command[c].program # "exited"
      BY <1>1, <2>1, <2>2, <3>2 DEF Records
    <3>. QED  BY <3>1, <3>2
  <2>. QED  BY <1>1, <2>1, <2>3, OnlyCommand
<1>4. CASE Terminal!RunClosed(c)
  <2> DEFINE says == IF command[c].answer # "none" THEN command[c].answer
                     ELSE IF command[c].timedOut THEN "unknown" ELSE "exited"
             r == [command[c] EXCEPT !.ended = TRUE, !.timer = FALSE, !.answer = says]
  <2>1. Terminal!Set(c, r) /\ command[c].kind = "run" /\ command[c].program = "exited"
    BY <1>4 DEF Terminal!RunClosed
  <2>2. command[c] \in Records /\ Watched(c) /\ command'[c] = r
    BY <2>1, CommandFacts
  <2>4. says \in {"exited", "unknown", "started"} /\ (says = "exited" => ~command[c].timedOut)
    BY <2>1, <2>2 DEF Records
  <2> HIDE DEF says
  <2>3. r \in Records /\ Watched(c)'
    BY <1>1, <2>1, <2>2, <2>4 DEF Records
  <2>. QED  BY <1>1, <2>1, <2>3, OnlyCommand
<1>5. CASE Terminal!Stop(c)
  <2> DEFINE r == [command[c] EXCEPT !.kill = TRUE]
  <2>1. Terminal!Set(c, r) /\ Kept(c)
    BY <1>5 DEF Terminal!Stop, Terminal!Stopping
  <2>2. command[c] \in Records /\ Watched(c) /\ command'[c] = r
    BY <2>1, CommandFacts
  <2>3. r \in Records /\ Watched(c)'
    BY <1>1, <2>1, <2>2 DEF Records
  <2>. QED  BY <1>1, <2>1, <2>3, OnlyCommand
<1>6. CASE Terminal!JobTimeout(c)
  <2> DEFINE r == [command[c] EXCEPT !.kill = TRUE, !.timer = FALSE, !.timedOut = TRUE]
  <2>1. Terminal!Set(c, r) /\ command[c].kind = "start"
    BY <1>6 DEF Terminal!JobTimeout, Terminal!Stopping
  <2>2. command[c] \in Records /\ Watched(c) /\ command'[c] = r
    BY <2>1, CommandFacts
  <2>3. r \in Records /\ Watched(c)'
    BY <1>1, <2>1, <2>2 DEF Records
  <2>. QED  BY <1>1, <2>1, <2>3, OnlyCommand
<1>7. CASE Terminal!JobExit(c)
  <2> DEFINE r == [command[c] EXCEPT !.program = "exited"]
  <2>1. Terminal!Set(c, r) /\ command[c].kind = "start" /\ command[c].program = "dead"
    BY <1>7 DEF Terminal!JobExit
  <2>2. command[c] \in Records /\ Watched(c) /\ command'[c] = r
    BY <2>1, CommandFacts
  <2>3. r \in Records /\ Watched(c)'
    BY <1>1, <2>1, <2>2 DEF Records
  <2>. QED  BY <1>1, <2>1, <2>3, OnlyCommand
<1>8. CASE Terminal!JobClosed(c)
  <2>1. command[c].kind = "start" /\ command[c].program = "exited" /\ ~command[c].ended /\ closed \in BOOLEAN
    BY <1>8 DEF Terminal!JobClosed, TerminalInv, TermTypes
  <2>2. CASE closed \/ ~command[c].left
    <3> DEFINE r == [command[c] EXCEPT !.ended = TRUE, !.timer = FALSE]
    <3>1. Terminal!Set(c, r)
      BY <1>8, <2>2 DEF Terminal!JobClosed
    <3>2. command[c] \in Records /\ Watched(c) /\ command'[c] = r
      BY <3>1, CommandFacts
    <3>3. r \in Records /\ Watched(c)'
      BY <1>1, <2>1, <2>2, <3>2 DEF Records
    <3>. QED  BY <1>1, <3>1, <3>3, OnlyCommand
  <2>3. CASE ~closed /\ command[c].left
    <3> DEFINE r == [command[c] EXCEPT !.ended = TRUE, !.watch = TRUE]
    <3>1. Terminal!Set(c, r)
      BY <1>8, <2>3 DEF Terminal!JobClosed
    <3>2. command[c] \in Records /\ Watched(c) /\ command'[c] = r
      BY <3>1, CommandFacts
    <3>3. r \in Records /\ Watched(c)'
      BY <1>1, <2>1, <2>3, <3>2 DEF Records
    <3>. QED  BY <1>1, <3>1, <3>3, OnlyCommand
  <2>. QED  BY <2>1, <2>2, <2>3
<1>9. CASE Terminal!JobWatch(c)
  <2> DEFINE r == [command[c] EXCEPT !.watch = FALSE, !.timer = FALSE]
  <2>1. Terminal!Set(c, r) /\ command[c].kind = "start" /\ (~Terminal!Alive(c) \/ command[c].expired)
    BY <1>9 DEF Terminal!JobWatch
  <2>2. command[c] \in Records /\ Watched(c) /\ command'[c] = r
    BY <2>1, CommandFacts
  <2>3. r \in Records /\ Watched(c)'
    BY <1>1, <2>1, <2>2 DEF Records
  <2>. QED  BY <1>1, <2>1, <2>3, OnlyCommand
<1>. QED  BY <1>2, <1>3, <1>4, <1>5, <1>6, <1>7, <1>8, <1>9

\* A run's start and its ends.
LEMMA RunsKeep ==
  ASSUME TerminalInv, NEW c \in Tasks, Terminal!Run(c) \/ Terminal!RunExit(c) \/ Terminal!RunWatch(c)
  PROVE  TerminalInv'
<1> USE DEF Watched, InOrder, RunWatched, JobWatched, ClosedFor, Terminal!Alive, Terminal!LeftBehind, Kept
<1>1. UNCHANGED <<jobs, closed, closing>>
  BY DEF Terminal!Run, Terminal!RunExit, Terminal!RunWatch
<1>2. TermTypes
  BY DEF TerminalInv
<1>3. CASE Terminal!Run(c)
  <2> DEFINE r == Terminal!Spawned("run")
  <2>1. /\ Terminal!Set(c, r) /\ command[c].kind = "none" /\ foreground' = foreground \cup {c}
        /\ spared' = IF closed THEN spared \cup {c} ELSE spared
    BY <1>3 DEF Terminal!Run, Terminal!Unseen
  <2>2. command[c] \in Records /\ Watched(c) /\ command'[c] = r
    BY <2>1, CommandFacts
  <2>3. r \in Records /\ r.kind = "run" /\ r.program = "running" /\ r.timer /\ ~r.watch /\ ~r.ended
        /\ r.answer = "none"
    BY DEF Terminal!Spawned, Terminal!Fresh, Records
  <2> HIDE DEF r
  <2>4. Watched(c)'
    BY <1>1, <2>1, <2>2, <2>3
  <2>5. /\ foreground' \subseteq Tasks /\ spared' \subseteq Tasks /\ closing' \subseteq Tasks /\ jobs' \in Seq(Tasks)
        /\ ~closed => spared' = {} /\ closing' = {}
        /\ \A d \in Tasks \ {c} : (d \in foreground' <=> d \in foreground) /\ (d \in spared' <=> d \in spared)
    BY <1>1, <1>2, <2>1 DEF TermTypes
  <2>. QED  BY <1>1, <2>1, <2>3, <2>4, <2>5, OneChanges
<1>4. CASE Terminal!RunExit(c)
  <2>1. /\ command[c].kind = "run" /\ command[c].program = "dead" /\ UNCHANGED spared
        /\ IF command[c].left
           THEN /\ Terminal!Set(c, [command[c] EXCEPT !.program = "exited", !.watch = TRUE])
                /\ UNCHANGED foreground
           ELSE Terminal!Set(c, [command[c] EXCEPT !.program = "exited"]) /\ foreground' = foreground \ {c}
    BY <1>4 DEF Terminal!RunExit
  <2>2. CASE command[c].left
    <3> DEFINE q == [command[c] EXCEPT !.program = "exited", !.watch = TRUE]
    <3>1. Terminal!Set(c, q) /\ UNCHANGED foreground
      BY <2>1, <2>2
    <3>2. command[c] \in Records /\ Watched(c) /\ command'[c] = q
      BY <3>1, CommandFacts
    <3>3. q \in Records /\ Watched(c)'
      BY <1>1, <2>1, <2>2, <3>1, <3>2 DEF Records
    <3>. QED  BY <1>1, <2>1, <3>1, <3>3, OnlyCommand
  <2>3. CASE ~command[c].left
    <3> DEFINE q == [command[c] EXCEPT !.program = "exited"]
    <3>1. Terminal!Set(c, q) /\ foreground' = foreground \ {c}
      BY <2>1, <2>3
    <3>2. command[c] \in Records /\ Watched(c) /\ command'[c] = q
      BY <3>1, CommandFacts
    <3>3. q \in Records /\ Watched(c)'
      BY <1>1, <2>1, <2>3, <3>1, <3>2 DEF Records
    <3>4. /\ foreground' \subseteq Tasks /\ spared' \subseteq Tasks /\ closing' \subseteq Tasks /\ jobs' \in Seq(Tasks)
          /\ ~closed => spared' = {} /\ closing' = {}
          /\ \A d \in Tasks \ {c} : (d \in foreground' <=> d \in foreground)
      BY <1>1, <1>2, <2>1, <3>1 DEF TermTypes
    <3>. QED  BY <1>1, <2>1, <3>1, <3>3, <3>4, OneChanges
  <2>. QED  BY <2>2, <2>3
<1>5. CASE Terminal!RunWatch(c)
  <2> DEFINE r == [command[c] EXCEPT !.watch = FALSE, !.left = FALSE]
  <2>1. /\ Terminal!Set(c, r) /\ foreground' = foreground \ {c} /\ UNCHANGED spared
        /\ command[c].kind = "run" /\ command[c].watch
    BY <1>5 DEF Terminal!RunWatch
  <2>2. command[c] \in Records /\ Watched(c) /\ command'[c] = r
    BY <2>1, CommandFacts
  <2>3. r \in Records /\ Watched(c)'
    BY <1>1, <2>1, <2>2 DEF Records
  <2>4. /\ foreground' \subseteq Tasks /\ spared' \subseteq Tasks /\ closing' \subseteq Tasks /\ jobs' \in Seq(Tasks)
        /\ ~closed => spared' = {} /\ closing' = {}
        /\ \A d \in Tasks \ {c} : (d \in foreground' <=> d \in foreground)
    BY <1>1, <1>2, <2>1 DEF TermTypes
  <2>. QED  BY <1>1, <2>1, <2>3, <2>4, OneChanges
<1>. QED  BY <1>3, <1>4, <1>5

\* A set of places in a sequence has a first one.
LEMMA FirstPlace ==
  ASSUME NEW n \in Nat, NEW R, R \subseteq 1..n, R # {}
  PROVE  \E i \in R : \A k \in R : i <= k
<1> DEFINE Upto(i) == {k \in R : k <= i}
           T == {Upto(i) : i \in R}
<1>1. IsWellFoundedOn(StrictSubsetOrdering(R), FiniteSubsetsOf(R))
  BY FS_StrictSubsetOrderingWellFounded
<1>2. T \subseteq FiniteSubsetsOf(R) /\ T # {}
  <2>1. IsFiniteSet(R)
    <3>1. IsFiniteSet(1..n)
      BY FS_Interval
    <3>. QED  BY <3>1, FS_Subset
  <2>2. FiniteSubsetsOf(R) = SUBSET R
    BY <2>1, FS_FiniteSubsetsOfFinite
  <2>3. \A i \in R : Upto(i) \in SUBSET R
    OBVIOUS
  <2>4. T \subseteq SUBSET R
    BY <2>3
  <2>5. PICK x \in R : TRUE
    OBVIOUS
  <2>6. Upto(x) \in T
    OBVIOUS
  <2> HIDE DEF Upto, T
  <2>. QED  BY <2>2, <2>4, <2>6
<1>3. PICK U \in T : \A V \in T : <<V, U>> \notin StrictSubsetOrdering(R)
  <2> HIDE DEF T
  <2>. QED  BY <1>1, <1>2, WFMin
<1>4. PICK i \in R : U = Upto(i)
  OBVIOUS
<1>5. ASSUME NEW k \in R, ~(i <= k) PROVE FALSE
  <2>1. k \in Int /\ i \in Int /\ k <= i /\ i <= i /\ k # i
    BY <1>5
  <2>2. Upto(k) \subseteq U /\ i \in U /\ i \notin Upto(k) /\ U \subseteq R /\ Upto(k) \subseteq R
    <3>1. \A j \in R : j \in Int
      OBVIOUS
    <3>2. i \in Upto(i) /\ i \notin Upto(k)
      BY <1>5, <2>1
    <3>3. ASSUME NEW j \in Upto(k) PROVE j \in Upto(i)
      <4>1. j \in R /\ j <= k /\ j \in Int
        BY <3>1
      <4>2. j <= i
        BY <2>1, <4>1
      <4>. QED  BY <4>1, <4>2
    <3>. QED  BY <1>4, <3>2, <3>3
  <2>3. Upto(k) \in T
    OBVIOUS
  <2> HIDE DEF Upto, T
  <2>4. <<Upto(k), U>> \in StrictSubsetOrdering(R)
    BY <2>2 DEF StrictSubsetOrdering
  <2>. QED  BY <1>3, <2>3, <2>4
<1>. QED  BY <1>5

LEMMA RemoveFacts ==
  ASSUME NEW s \in Seq(Tasks), NEW i \in 1..Len(s), NEW t, t = Terminal!RemoveAt(s, i)
  PROVE  /\ t \in Seq(Tasks)
         /\ \A k \in DOMAIN t : \E j \in DOMAIN s : s[j] = t[k]
         /\ \A j \in DOMAIN s \ {i} : \E k \in DOMAIN t : t[k] = s[j]
<1> DEFINE n == Len(s)
           a == SubSeq(s, 1, i - 1)
           b == SubSeq(s, i + 1, n)
<1>1. n \in Nat /\ i \in 1..n /\ DOMAIN s = 1..n /\ \A j \in 1..n : s[j] \in Tasks
  OBVIOUS
<1> HIDE DEF n
<1>2. /\ a \in Seq(Tasks) /\ Len(a) = i - 1 /\ \A k \in 1..(i - 1) : a[k] = s[k]
      /\ b \in Seq(Tasks) /\ Len(b) = n - i /\ \A k \in 1..(n - i) : b[k] = s[i + k]
  <2>1. a \in Seq(Tasks) /\ Len(a) = i - 1 /\ \A k \in 1..(i - 1) : a[k] = s[k]
    <3>1. 1 \in Int /\ i - 1 \in Int /\ \A k \in 1..(i - 1) : s[k] \in Tasks
      BY <1>1
    <3>2. /\ a \in Seq(Tasks) /\ Len(a) = IF 1 <= i - 1 THEN (i - 1) - 1 + 1 ELSE 0
          /\ \A k \in 1..((i - 1) - 1 + 1) : a[k] = s[1 + k - 1]
      BY <3>1, SubSeqProperties
    <3> HIDE DEF a
    <3>3. (i - 1) - 1 + 1 = i - 1 /\ (~(1 <= i - 1) => i - 1 = 0) /\ \A k \in 1..(i - 1) : 1 + k - 1 = k
      BY <1>1
    <3>. QED  BY <3>2, <3>3
  <2>2. b \in Seq(Tasks) /\ Len(b) = n - i /\ \A k \in 1..(n - i) : b[k] = s[i + k]
    <3>1. i + 1 \in Int /\ n \in Int /\ \A k \in (i + 1)..n : s[k] \in Tasks
      BY <1>1
    <3>2. /\ b \in Seq(Tasks) /\ Len(b) = IF i + 1 <= n THEN n - (i + 1) + 1 ELSE 0
          /\ \A k \in 1..(n - (i + 1) + 1) : b[k] = s[(i + 1) + k - 1]
      BY <3>1, SubSeqProperties
    <3> HIDE DEF b
    <3>3. n - (i + 1) + 1 = n - i /\ (~(i + 1 <= n) => n - i = 0)
          /\ \A k \in 1..(n - i) : (i + 1) + k - 1 = i + k
      BY <1>1
    <3>. QED  BY <3>2, <3>3
  <2>. QED  BY <2>1, <2>2
<1> HIDE DEF a, b
<1>3. /\ a \o b \in Seq(Tasks) /\ Len(a \o b) = n - 1
      /\ \A k \in 1..(i - 1) : (a \o b)[k] = s[k]
      /\ \A k \in i..(n - 1) : (a \o b)[k] = s[k + 1]
  <2>0. /\ a \o b \in Seq(Tasks) /\ Len(a \o b) = (i - 1) + (n - i)
        /\ \A k \in 1..((i - 1) + (n - i)) : (a \o b)[k] = IF k <= i - 1 THEN a[k] ELSE b[k - (i - 1)]
    <3>1. /\ a \o b \in Seq(Tasks) /\ Len(a \o b) = Len(a) + Len(b)
          /\ \A k \in 1..(Len(a) + Len(b)) : (a \o b)[k] = IF k <= Len(a) THEN a[k] ELSE b[k - Len(a)]
      BY <1>2, ConcatProperties
    <3>. QED  BY <1>2, <3>1
  <2>1. a \o b \in Seq(Tasks) /\ Len(a \o b) = n - 1 /\ (i - 1) + (n - i) = n - 1
    BY <1>1, <2>0
  <2>2. ASSUME NEW k \in 1..(i - 1) PROVE (a \o b)[k] = s[k]
    <3>1. k \in 1..(n - 1) /\ k <= i - 1
      BY <1>1
    <3>. QED  BY <1>2, <2>0, <2>1, <3>1
  <2>3. ASSUME NEW k \in i..(n - 1) PROVE (a \o b)[k] = s[k + 1]
    <3>1. k - (i - 1) \in 1..(n - i) /\ i + (k - (i - 1)) = k + 1
      BY <1>1
    <3>2. k \in 1..(n - 1) /\ ~(k <= i - 1)
      BY <1>1
    <3>3. (a \o b)[k] = b[k - (i - 1)]
      BY <2>0, <2>1, <3>2
    <3>. QED  BY <1>2, <3>1, <3>3
  <2>. QED  BY <2>1, <2>2, <2>3
<1>4. t = a \o b
  BY DEF Terminal!RemoveAt, a, b, n
<1>5. DOMAIN (a \o b) = 1..(n - 1)
  BY <1>3
<1>6. ASSUME NEW k \in 1..(n - 1) PROVE \E j \in 1..n : s[j] = (a \o b)[k]
  <2>1. CASE k \in 1..(i - 1)
    <3>1. k \in 1..n
      BY <1>1
    <3>. QED  BY <1>3, <2>1, <3>1
  <2>2. CASE k \in i..(n - 1)
    <3>1. k + 1 \in 1..n
      BY <1>1
    <3>. QED  BY <1>3, <2>2, <3>1
  <2>3. k \in 1..(i - 1) \/ k \in i..(n - 1)
    BY <1>1
  <2>. QED  BY <2>1, <2>2, <2>3
<1>7. ASSUME NEW j \in (1..n) \ {i} PROVE \E k \in 1..(n - 1) : (a \o b)[k] = s[j]
  <2>1. CASE j < i
    <3>1. j \in 1..(i - 1) /\ j \in 1..(n - 1)
      BY <1>1, <2>1
    <3>. QED  BY <1>3, <3>1
  <2>2. CASE j > i
    <3>1. j - 1 \in i..(n - 1) /\ j - 1 \in 1..(n - 1) /\ (j - 1) + 1 = j
      BY <1>1, <2>2
    <3>. QED  BY <1>3, <3>1
  <2>3. j < i \/ j > i
    BY <1>1
  <2>. QED  BY <2>1, <2>2, <2>3
<1>. QED
  <2>1. \A k \in DOMAIN (a \o b) : \E j \in DOMAIN s : s[j] = (a \o b)[k]
    BY <1>1, <1>5, <1>6
  <2>2. \A j \in DOMAIN s \ {i} : \E k \in DOMAIN (a \o b) : (a \o b)[k] = s[j]
    BY <1>1, <1>5, <1>7
  <2>. QED  BY <1>3, <1>4, <2>1, <2>2

LEMMA StartKeepsJobs ==
  ASSUME TerminalInv, NEW c \in Tasks, Terminal!Start(c) \/ Terminal!Started(c)
  PROVE  TerminalInv'
<1> USE DEF Watched, InOrder, RunWatched, JobWatched, ClosedFor, Terminal!Alive, Terminal!LeftBehind
<1>1. TermTypes /\ UNCHANGED <<foreground, closed, closing>>
  BY DEF TerminalInv, Terminal!Start, Terminal!Started
<1>2. CASE Terminal!Start(c)
  <2> DEFINE r == Terminal!Spawned("start")
  <2>1. /\ Terminal!Set(c, r) /\ command[c].kind = "none"
        /\ spared' = IF closed THEN spared \cup {c} ELSE spared
        /\ \/ UNCHANGED jobs
           \/ Terminal!Room # {} /\ jobs' = Terminal!RemoveAt(jobs, Terminal!Oldest)
    BY <1>2 DEF Terminal!Start, Terminal!Unseen
  <2>2. command[c] \in Records /\ Watched(c) /\ command'[c] = r
    BY <2>1, CommandFacts
  <2>3. r \in Records /\ r.kind = "start" /\ r.program = "running" /\ r.timer /\ ~r.watch /\ ~r.ended
        /\ r.answer = "none" /\ ~r.expired
    BY DEF Terminal!Spawned, Terminal!Fresh, Records
  <2> HIDE DEF r
  <2>4. /\ jobs' \in Seq(Tasks)
        /\ \A d \in Tasks : /\ Kept(d)' => Kept(d)
                            /\ Kept(d) => Kept(d)' \/ (command[d].ended /\ ~Terminal!LeftBehind(d))
    <3>1. CASE UNCHANGED jobs
      BY <1>1, <3>1 DEF TermTypes, Kept
    <3>2. CASE Terminal!Room # {} /\ jobs' = Terminal!RemoveAt(jobs, Terminal!Oldest)
      <4> DEFINE i == Terminal!Oldest
      <4>1. jobs \in Seq(Tasks) /\ DOMAIN jobs = 1..Len(jobs) /\ Len(jobs) \in Nat
        BY <1>1 DEF TermTypes
      <4>2. Terminal!Room \subseteq 1..Len(jobs)
        BY <4>1 DEF Terminal!Room
      <4>3. i \in Terminal!Room
        BY <3>2, <4>1, <4>2, FirstPlace DEF Terminal!Oldest
      <4>4. i \in 1..Len(jobs) /\ command[jobs[i]].ended /\ ~Terminal!LeftBehind(jobs[i])
        BY <4>2, <4>3 DEF Terminal!Room
      <4> HIDE DEF i
      <4>5. /\ jobs' \in Seq(Tasks)
            /\ \A k \in DOMAIN jobs' : \E j \in DOMAIN jobs : jobs[j] = jobs'[k]
            /\ \A j \in DOMAIN jobs \ {i} : \E k \in DOMAIN jobs' : jobs'[k] = jobs[j]
        <5>1. jobs' = Terminal!RemoveAt(jobs, i)
          BY <3>2 DEF i
        <5>2. jobs \in Seq(Tasks) /\ i \in 1..Len(jobs)
          BY <4>1, <4>4
        <5>3. /\ Terminal!RemoveAt(jobs, i) \in Seq(Tasks)
              /\ \A k \in DOMAIN Terminal!RemoveAt(jobs, i) :
                   \E j \in DOMAIN jobs : jobs[j] = Terminal!RemoveAt(jobs, i)[k]
              /\ \A j \in DOMAIN jobs \ {i} :
                   \E k \in DOMAIN Terminal!RemoveAt(jobs, i) : Terminal!RemoveAt(jobs, i)[k] = jobs[j]
          BY <5>2, RemoveFacts
        <5>. QED  BY <5>1, <5>3
      <4>. QED  BY <4>4, <4>5 DEF Kept
    <3>. QED  BY <2>1, <3>1, <3>2
  <2>5. Watched(c)'
    BY <1>1, <2>1, <2>2, <2>3, <2>4
  <2>6. /\ foreground' \subseteq Tasks /\ spared' \subseteq Tasks /\ closing' \subseteq Tasks
        /\ ~closed => spared' = {} /\ closing' = {}
        /\ \A d \in Tasks \ {c} : (d \in spared' <=> d \in spared)
    BY <1>1, <2>1 DEF TermTypes
  <2>. QED  BY <1>1, <2>1, <2>3, <2>4, <2>5, <2>6, OneChanges
<1>3. CASE Terminal!Started(c)
  <2> DEFINE r == [command[c] EXCEPT !.answer = "started"]
  <2>1. /\ Terminal!Set(c, r) /\ command[c].kind = "start" /\ jobs' = Append(jobs, c) /\ UNCHANGED spared
    BY <1>3 DEF Terminal!Started
  <2>2. command[c] \in Records /\ Watched(c) /\ command'[c] = r
    BY <2>1, CommandFacts
  <2>3. /\ jobs' \in Seq(Tasks) /\ Kept(c)'
        /\ \A d \in Tasks \ {c} : Kept(d)' <=> Kept(d)
    <3>1. jobs \in Seq(Tasks) /\ Len(jobs) \in Nat /\ DOMAIN jobs = 1..Len(jobs)
      BY <1>1 DEF TermTypes
    <3>2. /\ jobs' \in Seq(Tasks) /\ DOMAIN jobs' = 1..(Len(jobs) + 1) /\ jobs'[Len(jobs) + 1] = c
          /\ \A k \in 1..Len(jobs) : jobs'[k] = jobs[k]
      BY <2>1, <3>1, AppendProperties
    <3>3. \A k \in 1..(Len(jobs) + 1) : k \in 1..Len(jobs) \/ k = Len(jobs) + 1
      BY <3>1
    <3>4. 1..Len(jobs) \subseteq 1..(Len(jobs) + 1) /\ Len(jobs) + 1 \in 1..(Len(jobs) + 1)
      BY <3>1
    <3>. QED  BY <3>1, <3>2, <3>3, <3>4 DEF Kept
  <2>4. r \in Records /\ Watched(c)'
    BY <1>1, <2>1, <2>2, <2>3 DEF Records
  <2>5. /\ foreground' \subseteq Tasks /\ spared' \subseteq Tasks /\ closing' \subseteq Tasks
        /\ ~closed => spared' = {} /\ closing' = {}
    BY <1>1, <2>1 DEF TermTypes
  <2>. QED  BY <1>1, <2>1, <2>3, <2>4, <2>5, OneChanges
<1>. QED  BY <1>2, <1>3

\* What close sees it stops and waits for; it sees every command that was kept
\* or is in the foreground.
LEMMA CloseKeeps ==
  ASSUME TerminalInv, Terminal!Close
  PROVE  TerminalInv'
<1> DEFINE kept == {jobs[i] : i \in DOMAIN jobs}
           stopped == {c \in kept : ~command[c].ended \/ Terminal!LeftBehind(c)}
           running == {c \in foreground : command[c].program # "exited"}
           Changed(c) == CASE c \in stopped -> [command[c] EXCEPT !.kill = TRUE, !.timer = FALSE, !.watch = FALSE]
                           [] c \in kept \ stopped -> [command[c] EXCEPT !.timer = FALSE, !.watch = FALSE]
                           [] c \in running -> [command[c] EXCEPT !.kill = TRUE]
                           [] OTHER -> command[c]
<1>1. /\ ~closed /\ closed' /\ jobs' = <<>> /\ UNCHANGED foreground
      /\ command' = [c \in Tasks |-> Changed(c)]
      /\ closing' = stopped \cup foreground
      /\ spared' = {c \in Tasks : command[c].kind = "start" /\ command[c].answer = "none"}
  BY DEF Terminal!Close, Terminal!Stopping
<1>2. TermTypes /\ closed' = TRUE
  BY <1>1 DEF TerminalInv, Terminal!Close
<1>3. /\ kept \subseteq Tasks /\ stopped \subseteq kept /\ \A c : c \in kept <=> Kept(c)
  BY <1>2 DEF TermTypes, Kept
<1>4. ASSUME NEW c \in Tasks
      PROVE  /\ command'[c] \in Records /\ command'[c].kind = command[c].kind
             /\ command'[c].program = command[c].program /\ command'[c].left = command[c].left
             /\ command'[c].ended = command[c].ended /\ command'[c].expired = command[c].expired
             /\ command'[c].timedOut = command[c].timedOut /\ command'[c].answer = command[c].answer
             /\ c \notin kept => command'[c].timer = command[c].timer /\ command'[c].watch = command[c].watch
             /\ command'[c].kill = (command[c].kill \/ c \in stopped \/ (c \notin kept /\ c \in running))
             /\ command'[c].timer => command[c].timer
             /\ command'[c].watch => command[c].watch
  <2> HIDE DEF kept, stopped, running
  <2>1. command[c] \in Records /\ command'[c] = Changed(c) /\ (c \in kept => c \notin running)
    <3>1. c \in kept => c \notin foreground
      BY <1>3 DEF TerminalInv, Watched, InOrder, JobWatched
    <3>. QED  BY <1>1, <1>2, <3>1 DEF TermTypes, running
  <2>2. CASE c \in stopped
    <3>1. command'[c] = [command[c] EXCEPT !.kill = TRUE, !.timer = FALSE, !.watch = FALSE]
      BY <1>3, <2>1, <2>2
    <3>. QED  BY <1>3, <2>1, <2>2, <3>1 DEF Records
  <2>3. CASE c \in kept \ stopped
    <3>1. command'[c] = [command[c] EXCEPT !.timer = FALSE, !.watch = FALSE]
      BY <2>1, <2>3
    <3>. QED  BY <2>1, <2>3, <3>1 DEF Records
  <2>4. CASE c \notin kept /\ c \in running
    <3>1. command'[c] = [command[c] EXCEPT !.kill = TRUE]
      BY <1>3, <2>1, <2>4
    <3>. QED  BY <2>1, <2>4, <3>1 DEF Records
  <2>5. CASE c \notin kept /\ c \notin running
    <3>1. command'[c] = command[c]
      BY <1>3, <2>1, <2>5
    <3>. QED  BY <1>3, <2>1, <2>5, <3>1 DEF Records
  <2>. QED  BY <2>2, <2>3, <2>4, <2>5
<1>5. TermTypes'
  <2>1. command' \in [Tasks -> Records]
    BY <1>1, <1>4
  <2>2. <<>> \in Seq(Tasks)
    OBVIOUS
  <2>. QED  BY <1>1, <1>2, <1>3, <2>1, <2>2 DEF TermTypes
<1>6. ASSUME NEW c \in Tasks PROVE Watched(c)'
  <2>1. Watched(c) /\ command[c] \in Records /\ ~Kept(c)'
    <3>0. \A k : k \notin DOMAIN <<>>
      OBVIOUS
    <3>1. DOMAIN jobs' = {}
      BY <1>1, <3>0
    <3>. QED  BY <1>2, <3>1 DEF TerminalInv, TermTypes, Kept
  <2>2. Terminal!Alive(c)' = Terminal!Alive(c)
    BY <1>4 DEF Terminal!Alive
  <2>3. c \in stopped <=> Kept(c) /\ (~command[c].ended \/ Terminal!LeftBehind(c))
    BY <1>3
  <2>4. c \in running <=> c \in foreground /\ command[c].program # "exited"
    OBVIOUS
  <2>5. /\ c \in closing' <=> c \in stopped \/ c \in foreground
        /\ c \in spared' <=> command[c].kind = "start" /\ command[c].answer = "none"
    BY <1>1
  <2>6. c \in kept <=> Kept(c)
    BY <1>3
  <2> HIDE DEF kept, stopped, running, Changed
  <2>7. InOrder(c)'
    BY <1>1, <1>4, <2>1, <2>3, <2>4, <2>6 DEF Watched, InOrder
  <2>8. RunWatched(c)'
    BY <1>1, <1>4, <2>1, <2>4, <2>6 DEF Watched, InOrder, RunWatched, Records
  <2>9. JobWatched(c)'
    <3> SUFFICES ASSUME command[c].kind = "start" PROVE JobWatched(c)'
      BY <1>4 DEF JobWatched
    <3>1. /\ c \notin foreground /\ command[c].answer \in {"none", "started"}
          /\ command[c].expired => ~Terminal!Alive(c)
          /\ Terminal!Alive(c) /\ command[c].ended => command[c].watch
          /\ command[c].answer = "started" /\ (~command[c].ended \/ Terminal!LeftBehind(c)) => Kept(c)
      BY <1>1, <2>1 DEF Watched, JobWatched
    <3>2. Terminal!Alive(c) /\ c \notin spared' => c \in stopped
      BY <2>3, <2>5, <3>1 DEF Terminal!LeftBehind
    <3>3. c \in stopped => command'[c].kill
      BY <1>4
    <3>. QED  BY <1>1, <1>2, <1>4, <2>2, <2>5, <3>1, <3>2, <3>3 DEF JobWatched
  <2>10. ClosedFor(c)'
    <3>1. command[c].kind = "run" /\ Terminal!Alive(c) => c \in foreground
      BY <2>1 DEF Watched, InOrder, RunWatched, Terminal!Alive, Records
    <3>2. command[c].kind = "none" => ~Terminal!Alive(c)
      BY <2>1 DEF Watched, InOrder, Terminal!Alive
    <3>3. command[c].kind = "start" /\ Terminal!Alive(c) /\ c \notin spared' => c \in stopped
      BY <1>1, <2>1, <2>3, <2>5 DEF Watched, JobWatched, Terminal!LeftBehind, Records
    <3>4. command[c].kind \in {"none", "run", "start"}
      BY <2>1 DEF Records
    <3>. QED  BY <2>2, <2>5, <3>1, <3>2, <3>3, <3>4 DEF ClosedFor
  <2>. QED  BY <2>7, <2>8, <2>9, <2>10 DEF Watched
<1>. QED  BY <1>5, <1>6 DEF TerminalInv

LEMMA ClosedOneKeeps ==
  ASSUME TerminalInv, NEW c \in Tasks, Terminal!ClosedOne(c)
  PROVE  TerminalInv'
<1> USE DEF Watched, InOrder, RunWatched, JobWatched, ClosedFor, Terminal!Alive, Terminal!LeftBehind, Kept
<1> DEFINE r == [command[c] EXCEPT !.kill = FALSE]
<1>1. /\ Terminal!Set(c, r) /\ closing' = closing \ {c} /\ UNCHANGED <<jobs, foreground, closed, spared>>
      /\ ~Terminal!Alive(c) /\ command[c].program = "exited"
  BY DEF Terminal!ClosedOne
<1>2. command[c] \in Records /\ Watched(c) /\ command'[c] = r
  BY <1>1, CommandFacts
<1>3. r \in Records /\ Watched(c)'
  BY <1>1, <1>2 DEF Records
<1>4. /\ foreground' \subseteq Tasks /\ spared' \subseteq Tasks /\ closing' \subseteq Tasks /\ jobs' \in Seq(Tasks)
      /\ ~closed => spared' = {} /\ closing' = {}
      /\ \A d \in Tasks \ {c} : (d \in closing' <=> d \in closing)
  BY <1>1 DEF TerminalInv, TermTypes
<1>. QED  BY <1>1, <1>3, <1>4, OneChanges

LEMMA TerminalNext == TerminalInv /\ [Terminal!Next]_terminalPart => TerminalInv'
<1> SUFFICES ASSUME TerminalInv, [Terminal!Next]_terminalPart PROVE TerminalInv'
  OBVIOUS
<1>1. CASE UNCHANGED terminalPart
  BY <1>1 DEF terminalPart, TerminalInv, TermTypes, Watched, InOrder, RunWatched, JobWatched, ClosedFor,
              Kept, Terminal!Alive, Terminal!LeftBehind
<1>. QED
  BY <1>1, CloseKeeps, SystemKeeps, TimersKeep, RunsKeep, StartKeepsJobs, ClosedOneKeeps
  DEF Terminal!Next, Terminal!Heard, Terminal!Timers

LEMMA TerminalHolds ==
  TerminalInv => Terminal!TypeOK /\ Terminal!NothingUnsupervised /\ Terminal!AnswersAreHonest
<1> SUFFICES ASSUME TerminalInv PROVE Terminal!TypeOK /\ Terminal!NothingUnsupervised /\ Terminal!AnswersAreHonest
  OBVIOUS
<1>1. Terminal!TypeOK
  BY DEF TerminalInv, TermTypes, Records, Terminal!TypeOK
<1>2. \A c \in Tasks : Watched(c) /\ command[c] \in Records
  BY DEF TerminalInv, TermTypes
<1>3. Terminal!NothingUnsupervised
  <2>1. ASSUME NEW c \in Tasks \ spared, Terminal!Alive(c)
        PROVE  /\ command[c].timer \/ command[c].kill \/ command[c].watch
                  \/ (command[c].program = "dead" /\ c \in foreground)
               /\ closed => c \in closing
    <3>1. /\ InOrder(c) /\ RunWatched(c) /\ JobWatched(c) /\ ClosedFor(c)
          /\ command[c].kind \in {"none", "run", "start"}
          /\ command[c].program \in {"none", "running", "dead", "exited"}
      BY <1>2 DEF Watched, Records
    <3>2. CASE command[c].kind = "none"
      BY <2>1, <3>1, <3>2 DEF InOrder, Terminal!Alive
    <3>3. CASE command[c].kind = "run"
      <4>1. CASE command[c].program = "running"
        BY <2>1, <3>1, <3>3, <4>1 DEF RunWatched, ClosedFor
      <4>2. CASE command[c].program # "running" /\ command[c].left
        BY <2>1, <3>1, <3>3, <4>2 DEF RunWatched, ClosedFor, InOrder
      <4>. QED  BY <2>1, <4>1, <4>2 DEF Terminal!Alive
    <3>4. CASE command[c].kind = "start"
      BY <2>1, <3>1, <3>4 DEF JobWatched, ClosedFor
    <3>. QED  BY <3>1, <3>2, <3>3, <3>4
  <2>. QED  BY <2>1 DEF Terminal!NothingUnsupervised
<1>4. Terminal!AnswersAreHonest
  BY <1>2 DEF Watched, RunWatched, JobWatched, Kept, Terminal!AnswersAreHonest
<1>. QED  BY <1>1, <1>3, <1>4

-----------------------------------------------------------------------------
(* The adapters together: a behaviour is of one part, and keeps it.        *)

AdaptersInv ==
  /\ part = "browser" => BrowserInv
  /\ part = "computer" => ComputerInv
  /\ part = "terminal" => TerminalInv
  /\ part = "http" => HttpInv

\* Every step of whichever adapter keeps its invariant, for any number of
\* tasks, addresses, documents, operations and jobs (execute, run, startBackground,
\* stopTree).
THEOREM AdaptersInvHolds == Spec => []AdaptersInv
<1>1. Init => AdaptersInv
  BY BrowserInit, ComputerInit, TerminalInit, HttpInit DEF Init, AdaptersInv
<1>2. AdaptersInv /\ [Next]_adapterVars => AdaptersInv'
  <2> SUFFICES ASSUME AdaptersInv, [Next]_adapterVars PROVE AdaptersInv'
    OBVIOUS
  <2>1. CASE UNCHANGED adapterVars
    <3>1. UNCHANGED <<part, browserPart, computerPart, terminalPart, httpPart>>
      BY <2>1 DEF adapterVars
    <3>. QED  BY <3>1, BrowserNext, ComputerNext, TerminalNext, HttpNext DEF AdaptersInv
  <2>2. CASE Next
    BY <2>2, BrowserNext, ComputerNext, TerminalNext, HttpNext DEF Next, AdaptersInv
  <2>. QED  BY <2>1, <2>2
<1>. QED  BY <1>1, <1>2, PTL DEF Spec

\* Every adapter's state stays of its type.
THEOREM AdaptersTypes == Spec => []TypeOK
<1>1. AdaptersInv => TypeOK
  BY BrowserHolds, ComputerHolds, TerminalHolds, HttpHolds DEF AdaptersInv, TypeOK
<1>. QED  BY <1>1, AdaptersInvHolds, PTL

\* A browser's action that is answered as failed completed nothing, of its
\* inputs at most one landed, late or not, and only one Playwright keeps no
\* record of; a computer's sent nothing, whichever helper was stopped
\* (executeOne, inputSent, HelperNotStarted).
THEOREM FailuresTellTheTruth == Spec => []FailuresAreTrue
<1>1. AdaptersInv => FailuresAreTrue
  BY BrowserHolds, ComputerHolds DEF AdaptersInv, FailuresAreTrue
<1>. QED  BY <1>1, AdaptersInvHolds, PTL

\* Input reaches the document and the one element it was checked on, or
\* nothing, but for one click or key on its way while the page navigates, which
\* is then the action's last; and no targeted read but a screenshot is answered
\* from beside a filled secret field of the document it looked at (actOn,
\* moved, typeInto, clearOfSecrets, matchElement).
THEOREM InputActsWhereChecked == Spec => []ActsWhereChecked
<1>1. AdaptersInv => ActsWhereChecked
  BY BrowserHolds, ComputerHolds DEF AdaptersInv, ActsWhereChecked
<1>. QED  BY <1>1, AdaptersInvHolds, PTL

\* No process of a command is left with nobody to stop it, and what a run's
\* answer and a job's id say is true (releaseWhenEmpty, startBackground, close).
THEOREM CommandsAreSupervised == Spec => []NothingUnsupervised
<1>1. AdaptersInv => NothingUnsupervised
  BY TerminalHolds DEF AdaptersInv, NothingUnsupervised
<1>. QED  BY <1>1, AdaptersInvHolds, PTL

\* A call goes where it was checked to go, however its host is bound anew,
\* carries there only what is meant for it, and says truly whether it may be
\* made again (HttpRuntime.execute, assertSafeDestination, headersFor).
THEOREM CallsStayInLimits == Spec => []CallsKeepTheirLimits
<1>1. AdaptersInv => CallsKeepTheirLimits
  BY HttpHolds DEF AdaptersInv, CallsKeepTheirLimits
<1>. QED  BY <1>1, AdaptersInvHolds, PTL
=============================================================================
