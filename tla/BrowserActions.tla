--------------------------- MODULE BrowserActions ---------------------------
(***************************************************************************)
(* The actions of packages/browser-runtime/src/index.ts: one runtime       *)
(* serves every task, so actions queue; each is checked against a page     *)
(* that goes on changing by itself, and is held to the document it was     *)
(* checked on until its input is out. One that fails once input is known   *)
(* to be out reports an unknown outcome, not a plain failure. A read of    *)
(* part of a page is refused while a secret field on it is filled.         *)
(*                                                                         *)
(* A step ends at the next `await` that another can run in. A page is its  *)
(* current document: its address, whether it is an approval console,       *)
(* whether it holds a filled secret field and the target; frames are taken *)
(* with their page. Playwright is external: an input handed to it is on    *)
(* its way for a while, in which the page may navigate and the action give *)
(* up on it. One made through an element reaches that element or nothing;  *)
(* a click and a key go to whatever document is there by then.             *)
(***************************************************************************)
EXTENDS Naturals, Sequences, FiniteSets

CONSTANTS
  Tasks,
  Addresses, AnyPage,  \* addresses; what an action names that names none
  Offered,             \* the actions asked for: a kind and the address named
  NoAction, NoDocument,
  MaxDocuments,        \* bound: documents the page goes through
  MaxChanges           \* bound: other changes of the page

BrowserAssumption == AnyPage \notin Addresses /\ NoDocument \notin Nat

VARIABLES
  queue,      \* actions asked for and not begun, in order
  action,     \* the one running
  page,       \* the active page's document
  report,     \* per task: what its action reported
  flying,     \* inputs handed to Playwright that may still reach a page
  landed,     \* history: inputs that reached a page, with what they reached
  reads,      \* history: answers of targeted reads, with what they looked at
  navigations, changes

browserVars == <<queue, action, page, report, flying, landed, reads,
                 navigations, changes>>

\* What each action sends its page, in order: a field cleared or set (select,
\* upload), a click, a key pressed on an element, or text typed where the focus
\* is. An action's text is two keys.
Inputs ==
  [click |-> <<"click">>, press |-> <<"press">>, select |-> <<"set">>,
   type |-> <<"clear", "keys", "keys">>, fill_form |-> <<"clear", "keys", "keys", "click">>,
   close |-> <<>>, inspect |-> <<>>, screenshot |-> <<>>, wait |-> <<>>, navigate |-> <<>>]
Kinds == DOMAIN Inputs
InputKinds == {k \in Kinds : Inputs[k] # <<>>}
ThroughElement == {"clear", "set"}
Unlogged == {"clear", "set", "press"}  \* Playwright logs only a click's dispatch
NewDocument == [id : {0}, address : Addresses, surface : BOOLEAN, secret : {FALSE}, target : BOOLEAN]
Document == [id : Nat, address : Addresses, surface : BOOLEAN, secret : BOOLEAN, target : BOOLEAN]

Init ==
  /\ queue = <<>> /\ action = NoAction
  /\ page \in NewDocument
  /\ report = [t \in Tasks |-> "none"]
  /\ flying = {} /\ landed = {} /\ reads = {} /\ navigations = 0 /\ changes = 0

-----------------------------------------------------------------------------
(* The page, by itself or at its user's hand *)

Goes(p) ==
  /\ navigations < MaxDocuments /\ navigations' = navigations + 1
  /\ page' = [p EXCEPT !.id = navigations']

PageNavigates ==
  /\ \E p \in NewDocument : Goes(p)
  /\ UNCHANGED <<queue, action, report, flying, landed, reads, changes>>

\* It rewrites its own path, renders its target anew, or a secret is typed.
PageChanges ==
  /\ changes < MaxChanges /\ changes' = changes + 1
  /\ page' \in {[page EXCEPT !.address = a] : a \in Addresses}
            \cup {[page EXCEPT !.target = ~@], [page EXCEPT !.secret = TRUE]}
  /\ UNCHANGED <<queue, action, report, flying, landed, reads, navigations>>

-----------------------------------------------------------------------------
(* execute: one action at a time, in order of arrival *)

\* Tasks are alike, so they ask in one order.
Submit(t, asked) ==
  /\ report[t] = "none" /\ t = CHOOSE u \in Tasks : report[u] = "none"
  /\ report' = [report EXCEPT ![t] = "asked"]
  /\ queue' = Append(queue, [task |-> t, kind |-> asked.kind, named |-> asked.named])
  /\ UNCHANGED <<action, page, flying, landed, reads, navigations, changes>>

At(step) == action # NoAction /\ action.at = step
Answer(what) == /\ report' = [report EXCEPT ![action.task] = what]
                /\ action' = NoAction
\* variant: executeOne's catch without inputSent
FailPlainly(sent) == Answer("failed")
\* executeOne's catch: what went out makes the outcome unknown.
FailWith(sent) == Answer(IF sent THEN "unknown" ELSE "failed")
\* A click that throws while under way has it in its log that it was performed.
Performed == At("sent") /\ Head(action.left) = "click"
Fail == FailWith(action.sent \/ Performed)
GoesTo(step) == action' = [action EXCEPT !.at = step] /\ UNCHANGED report

\* Everything the action before left is reset here: its signal, what it sent.
Begun(asked) ==
  [task |-> asked.task, kind |-> asked.kind, named |-> asked.named, at |-> "pinning",
   sent |-> FALSE, pin |-> NoDocument, found |-> NoDocument, left |-> Inputs[asked.kind],
   saw |-> FALSE]

\* A task cancelled while it waited for its turn is refused.
Begin ==
  /\ action = NoAction /\ queue # <<>>
  /\ queue' = Tail(queue)
  /\ \/ action' = Begun(Head(queue)) /\ UNCHANGED report
     \/ report' = [report EXCEPT ![Head(queue).task] = "failed"] /\ UNCHANGED action
  /\ UNCHANGED <<page, flying, landed, reads, navigations, changes>>

KeepsTheRest == UNCHANGED <<queue, page, flying, landed, reads, navigations, changes>>

\* run: the document is taken before any check.
Pin ==
  /\ At("pinning")
  /\ action' = [action EXCEPT !.at = "address",
                               !.pin = IF action.kind \in InputKinds THEN page.id ELSE @]
  /\ UNCHANGED report /\ KeepsTheRest

\* act: a page elsewhere than the address named is refused, but by navigate.
CheckAddress ==
  /\ At("address")
  /\ IF action.kind # "navigate" /\ action.named \notin {AnyPage, page.address} THEN Fail
     ELSE GoesTo("surface")
  /\ KeepsTheRest

\* ... and an approval console takes no input.
CheckSurface ==
  /\ At("surface")
  /\ IF action.kind \in InputKinds /\ page.surface THEN Fail
     ELSE GoesTo(CASE action.kind \in InputKinds -> "finding"
                   [] action.kind = "close" -> "closing"
                   [] action.kind = "navigate" -> "navigating"
                   [] OTHER -> "secrets")
  /\ KeepsTheRest

\* A cancel, or a timeout, at any wait, that for an input on its way included.
Abandon ==
  /\ action # NoAction
  /\ Fail
  /\ KeepsTheRest

\* Anything after the effect: the settle, the snapshot, the windows opened.
Finish ==
  /\ At("settling")
  /\ Answer("done")
  /\ KeepsTheRest

-----------------------------------------------------------------------------
(* actOn and typeInto *)

\* moved: the address counts only until some input is out.
Moved ==
  \/ page.id # action.pin
  \/ ~action.sent /\ action.named \notin {AnyPage, page.address}

\* The target, found first where the page is, and then only in that document.
Find ==
  /\ At("finding")
  /\ IF action.found \notin {NoDocument, page.id} THEN Fail
     ELSE /\ page.target
          /\ action' = [action EXCEPT !.found = page.id, !.at = "ready"]
          /\ UNCHANGED report
  /\ KeepsTheRest

\* variant: the wait for the element is not followed by a look at the page
ReadyUnasked == At("ready") /\ GoesTo("acting") /\ KeepsTheRest

\* The last thing before the input: the page is still where it was checked.
Ready ==
  /\ At("ready")
  /\ IF Moved THEN Fail ELSE GoesTo("acting")
  /\ KeepsTheRest

Attached == page.id = action.found /\ page.target

\* Playwright is handed the next input.
Handed ==
  flying' = flying \cup {[task |-> action.task, pin |-> action.pin, sentTo |-> page.id,
                          input |-> Head(action.left), left |-> Len(action.left)]}
Send ==
  /\ At("acting") /\ Attached
  /\ Handed /\ GoesTo("sent")
  /\ UNCHANGED <<queue, page, landed, reads, navigations, changes>>

\* Its element went away before or after that: it is found again, for a field
\* that was cleared to be cleared once more, while the page stays.
Again(sent, left) ==
  /\ action' = [action EXCEPT !.at = "finding", !.sent = sent, !.left = left]
  /\ UNCHANGED report
Undelivered ==
  /\ At("acting") /\ ~Attached
  /\ IF Moved THEN Fail ELSE Again(action.sent, action.left)
  /\ KeepsTheRest

\* The call returned: on to the text, the next key, or the next field or button.
Sent(rest) ==
  [action EXCEPT !.sent = TRUE, !.left = rest,
                 !.found = IF rest # <<>> /\ Head(rest) = "click" THEN NoDocument ELSE @,
                 !.at = CASE rest = <<>> -> "settling"
                          [] rest # <<>> /\ Head(rest) = "click" -> "finding"
                          [] OTHER -> IF Head(action.left) = "clear" THEN "focusing" ELSE "typing"]

Waiting(f) == At("sent") /\ action.task = f.task
Answered(f) ==
  IF Waiting(f) THEN \/ action' = Sent(Tail(action.left)) /\ UNCHANGED report
                     \/ Fail
  ELSE UNCHANGED <<action, report>>
GoneFrom(f) ==
  IF Waiting(f) THEN IF action.sent \/ Performed \/ ~Moved THEN Again(action.sent \/ Performed, action.left)
                     ELSE Fail
  ELSE UNCHANGED <<action, report>>

\* An input reaches its page, whoever still waits for it; a document that came
\* in between gets a click or a key, or nothing; a page whose element went away
\* nothing but a key.
Arrive(f) ==
  /\ f \in flying /\ flying' = flying \ {f}
  /\ LET there == page.id = f.pin
         element == f.input \in ThroughElement \cup {"click"}
         reaches == [task |-> f.task, pin |-> f.pin, sentTo |-> f.sentTo, input |-> f.input, left |-> f.left,
                     document |-> page.id, surface |-> page.surface]
     IN \/ /\ IF there THEN element => page.target ELSE f.input \notin ThroughElement
           /\ landed' = landed \cup {reaches} /\ Answered(f)
        \/ ~there /\ UNCHANGED landed /\ Answered(f)
        \/ there /\ element /\ ~page.target /\ UNCHANGED landed /\ GoneFrom(f)
  /\ UNCHANGED <<queue, page, reads, navigations, changes>>

\* The cleared field is waited for and focused; from then on its text counts
\* as sent, and the first key goes out.
Focus ==
  /\ At("focusing")
  /\ IF Attached THEN Handed /\ GoesTo("sent")
     ELSE IF Moved THEN Fail /\ UNCHANGED flying
     ELSE Again(action.sent, Inputs[action.kind]) /\ UNCHANGED flying
  /\ UNCHANGED <<queue, page, landed, reads, navigations, changes>>

\* A key goes wherever the focus is. A navigation is told of before the answer
\* of a call made after it, and the document is then asked about first; one
\* that is not told of yet is one that comes while the key is on its way.
Key ==
  /\ At("typing")
  /\ IF page.id # action.pin THEN Fail /\ UNCHANGED flying ELSE Handed /\ GoesTo("sent")
  /\ UNCHANGED <<queue, page, landed, reads, navigations, changes>>

\* close is counted as sent before the call, which has nothing to wait for.
Close ==
  /\ At("closing")
  /\ IF action.sent
     THEN /\ GoesTo("settling")
          /\ landed' = landed \cup {[task |-> action.task, pin |-> action.pin, sentTo |-> page.id, input |-> "close",
                                    left |-> 0, document |-> page.id, surface |-> page.surface]}
          /\ \E p \in NewDocument : Goes(p)
     ELSE action' = [action EXCEPT !.sent = TRUE] /\ UNCHANGED <<report, page, landed, navigations>>
  /\ UNCHANGED <<queue, flying, reads, changes>>

Navigate ==
  /\ At("navigating") /\ action.named # AnyPage
  /\ \E p \in NewDocument : Goes(p)
  /\ GoesTo("settling")
  /\ UNCHANGED <<queue, flying, landed, reads, changes>>

-----------------------------------------------------------------------------
(* Targeted reads: inspect, scroll into view, screenshot, and the polls of wait *)

\* clearOfSecrets: a read is refused; a poll that finds one looks for nothing.
CheckSecrets ==
  /\ At("secrets")
  /\ IF ~page.secret THEN GoesTo(IF action.kind = "screenshot" THEN "capturing" ELSE "looking")
     ELSE action.kind # "wait" /\ Fail
  /\ KeepsTheRest

Look ==
  /\ At("looking")
  /\ action' = [action EXCEPT !.at = "checking again", !.saw = page.secret, !.found = page.id]
  /\ UNCHANGED report /\ KeepsTheRest

Read(secret, looked) ==
  reads' = reads \cup {[kind |-> action.kind, secret |-> secret, looked |-> looked, after |-> page.id]}

\* A screenshot is of the whole page, whatever its target, and not asked about
\* again.
Capture ==
  /\ At("capturing")
  /\ Read(page.secret, page.id) /\ GoesTo("settling")
  /\ UNCHANGED <<queue, page, flying, landed, navigations, changes>>

\* Whatever was found, or not, a field filled meanwhile voids it. What stands
\* is answered, or for a wait may be polled for again.
CheckAgain ==
  /\ At("checking again")
  /\ \/ /\ page.secret
        /\ IF action.kind = "wait" THEN GoesTo("secrets") ELSE Fail
        /\ UNCHANGED reads
     \/ /\ ~page.secret /\ action.kind = "wait"
        /\ GoesTo("secrets") /\ UNCHANGED reads
     \/ /\ ~page.secret
        /\ Read(action.saw, action.found) /\ GoesTo("settling")
  /\ UNCHANGED <<queue, page, flying, landed, navigations, changes>>

Step ==
  \/ Begin \/ Pin \/ CheckAddress \/ CheckSurface \/ Abandon \/ Finish
  \/ Find \/ Ready \/ Send \/ Undelivered \/ Focus \/ Key \/ Close \/ Navigate
  \/ CheckSecrets \/ Look \/ CheckAgain \/ Capture

Next ==
  \/ PageNavigates
  \/ PageChanges
  \/ \E t \in Tasks, asked \in Offered : Submit(t, asked)
  \/ \E f \in flying : Arrive(f)
  \/ Step

\* Every call is bounded by the action's timeout, so each wait ends.
Fairness == WF_browserVars(Begin) /\ WF_browserVars(Abandon)
Spec == Init /\ [][Next]_browserVars /\ Fairness

-----------------------------------------------------------------------------
(* Properties *)

TypeOK ==
  /\ page \in Document
  /\ action = NoAction \/ action.kind \in Kinds
  /\ report \in [Tasks -> {"none", "asked", "done", "failed", "unknown"}]

\* An action that reports a plain failure completed nothing, then or later,
\* whatever it failed on and whichever ran before it: none of its clicks, typed
\* text or closes reached a page, and of the rest at most the one call it
\* failed in did, of those whose dispatch Playwright keeps no record of
\* (executeOne, inputSent).
FailedCompletedNothing ==
  \A l \in landed : report[l.task] = "failed" =>
    l.input \in Unlogged /\ \A m \in landed : m.task = l.task => m = l

\* Input is handed over only while the page is, as far as it has been told, at
\* the document the action was checked on, and reaches that document or
\* nothing, however the page navigates and renders itself; but for the one
\* click or key already on its way when the page left, which is the last the
\* action sends. So none reaches an approval console otherwise (actOn, moved,
\* typeInto).
Astray(l) == l.document # l.pin \/ l.surface
InputOnCheckedPage ==
  \A l \in landed : l.pin # NoDocument =>
    /\ l.sentTo = l.pin
    /\ Astray(l) => /\ l.input \notin ThroughElement
                    /\ \A m \in landed : m.task = l.task /\ m # l => m.left > l.left

\* What a targeted read answers was not looked at while a secret field was
\* filled, unless the page has left the document it was looked at in before it
\* could be asked again, or the read is a screenshot, which looks at all of the
\* page (clearOfSecrets, waitForTarget).
SecretsUnread == \A r \in reads : r.secret => r.looked # r.after \/ r.kind = "screenshot"

\* An action asked for is answered, whatever those before it wait on (execute).
EveryActionAnswers == \A t \in Tasks : report[t] = "asked" ~> report[t] # "asked"
=============================================================================
