----------------------------- MODULE MCAdapters -----------------------------
(***************************************************************************)
(* The adapters, checked side by side: the browser's actions, the          *)
(* computer, the terminal, and governed HTTP calls. No state is shared     *)
(* between them: `part` says which one a behaviour is of, and the others   *)
(* stay where they start.                                                  *)
(***************************************************************************)
EXTENDS Naturals, Sequences, TLC

CONSTANTS
  Tasks, Locations, AnyPage, NoAction, NoDocument, MaxDocuments, MaxChanges,
  Wanted, MaxElements, Nobody, MaxOperations, MaxJobs, MaxRebinds

VARIABLES
  part,
  queue, action, page, report, flying, landed, reads, navigations, changes,
  platform, screen, request, step, helper, cancelled, cancelledBefore, observed,
  chosen, sent, captures, outcome, operations,
  command, jobs, foreground, closed, closing, spared,
  settings, call, sources, answers, rebinds, stage, pinned, socket, carried, written, received,
  answered, aborted, ended

\* Actions that name no page, and one page's address.
Offered ==
  {[kind |-> k, named |-> AnyPage] : k \in {"fill_form", "inspect", "wait", "screenshot", "select"}}
    \cup {[kind |-> k, named |-> CHOOSE a \in Locations : TRUE]
            : k \in {"click", "press", "close", "navigate"}}

\* Two buttons whose names begin alike, in every order and up to the cap.
Save == [name |-> "save", sure |-> TRUE]
SaveAs == [name |-> "saveas", sure |-> TRUE]
Unsure(e) == [e EXCEPT !.sure = FALSE]
Screens == {<<>>, <<Save>>, <<Save, SaveAs>>, <<Unsure(SaveAs), Unsure(Save)>>,
            <<Save, SaveAs, Save>>, <<Save, Save, SaveAs>>, <<SaveAs, SaveAs>>}
Matches(name, wanted) == name = wanted \/ (name = "saveas" /\ wanted = "save")

Browser == INSTANCE BrowserActions WITH Addresses <- Locations
Computer == INSTANCE ComputerActions
\* A task has one command.
Terminal == INSTANCE TerminalJobs WITH Commands <- Tasks
Http == INSTANCE HttpRequests WITH outcome <- ended

ASSUME AdaptersAssumption ==
  /\ Browser!BrowserAssumption
  /\ Computer!ComputerAssumption /\ Terminal!TerminalAssumption

browserPart == <<queue, action, page, report, flying, landed, reads, navigations, changes>>
computerPart == <<platform, screen, request, step, helper, cancelled, cancelledBefore, observed,
                  chosen, sent, captures, outcome, operations>>
terminalPart == <<command, jobs, foreground, closed, closing, spared>>
httpPart == <<settings, call, sources, answers, rebinds, stage, pinned, socket, carried, written,
              received, answered, aborted, ended>>
adapterVars == <<part, browserPart, computerPart, terminalPart, httpPart>>

\* Of the parts that stay, one of their initial states is enough.
Init ==
  /\ part \in {"browser", "computer", "terminal", "http"}
  /\ Browser!Init /\ Computer!Init /\ Terminal!Init
  /\ part # "browser" => page = CHOOSE p \in Browser!NewDocument : TRUE
  /\ part # "computer" => platform = [os |-> "mac", tree |-> TRUE, ocr |-> TRUE] /\ screen = <<>>
  /\ IF part = "http" THEN Http!Init
     ELSE /\ settings = [unhinged |-> FALSE, localhost |-> FALSE] /\ sources = {} /\ answers = {}
          /\ call = [from |-> "page", host |-> "api", action |-> "get", body |-> FALSE]
          /\ rebinds = 0 /\ stage = "checking" /\ ended = "none"
          /\ pinned = {} /\ socket = {} /\ carried = {} /\ written = "none"
          /\ received = FALSE /\ answered = "none" /\ aborted = "no"

Next ==
  \/ part = "browser" /\ Browser!Next /\ UNCHANGED <<part, computerPart, terminalPart, httpPart>>
  \/ part = "computer" /\ Computer!Next /\ UNCHANGED <<part, browserPart, terminalPart, httpPart>>
  \/ part = "terminal" /\ Terminal!Next /\ UNCHANGED <<part, browserPart, computerPart, httpPart>>
  \/ part = "http" /\ Http!Next /\ UNCHANGED <<part, browserPart, computerPart, terminalPart>>

\* Each part's own fairness, of the part that runs.
Fairness ==
  /\ WF_browserPart(part = "browser" /\ Browser!Begin)
  /\ WF_browserPart(part = "browser" /\ Browser!Abandon)
  /\ WF_computerPart(part = "computer" /\ Computer!Begin)
  /\ WF_computerPart(part = "computer" /\ (Computer!Done \/ Computer!Stop))
  /\ \A c \in Tasks :
       /\ WF_terminalPart(part = "terminal" /\ Terminal!Heard(c))
       /\ WF_terminalPart(part = "terminal" /\ Terminal!Timers(c))
       /\ WF_terminalPart(part = "terminal" /\ Terminal!Kill(c))
  /\ WF_httpPart(part = "http" /\ Http!Checked)
  /\ WF_httpPart(part = "http" /\ Http!Brokered)
  /\ WF_httpPart(part = "http" /\ Http!Deadline)

Spec == Init /\ [][Next]_adapterVars /\ Fairness

TypeOK ==
  /\ part = "browser" => Browser!TypeOK
  /\ part = "computer" => Computer!TypeOK
  /\ part = "terminal" => Terminal!TypeOK
  /\ part = "http" => Http!TypeOK

(* The properties of the parts, each argued in its part's module *)

\* An action answered as failed completed nothing, and of the browser's at most
\* the one call it failed in reached a page, of those that leave no record
\* (executeOne, HelperNotStarted).
FailuresAreTrue ==
  /\ part = "browser" => Browser!FailedCompletedNothing
  /\ part = "computer" => Computer!FailedSentNothing

\* Input reaches the document and the element it was checked on, or nothing,
\* but for the one click or key on its way when a page leaves, and a targeted
\* read of text does not answer from beside a filled secret field (actOn,
\* clearOfSecrets, matchElement).
ActsWhereChecked ==
  /\ part = "browser" => Browser!InputOnCheckedPage /\ Browser!SecretsUnread
  /\ part = "computer" => Computer!PressedTheOneNamed

\* No process of a command is left with nobody to stop it, and a command's
\* answer and a job's id say what became of it (releaseWhenEmpty,
\* startBackground).
NothingUnsupervised ==
  part = "terminal" => Terminal!NothingUnsupervised /\ Terminal!AnswersAreHonest

\* A call goes where it was checked to go, carries only what is meant for
\* there, and says truly whether it may be made again (execute).
CallsKeepTheirLimits ==
  part = "http" => /\ Http!FailureTellsTheTruth /\ Http!ConnectsWhereChecked
                   /\ Http!SecretsStayScoped /\ Http!AbortedIsUnsent

\* Something of `t` is yet to end: an action of the browser is unanswered, an
\* operation of the computer, a process of its command, a call.
Unfinished(t) ==
  \/ part = "browser" /\ report[t] = "asked"
  \/ part = "computer" /\ Computer!Busy
  \/ part = "terminal" /\ Terminal!Alive(t) /\ t \notin spared
  \/ part = "http" /\ call.from = "task" /\ stage # "settled"

\* Whatever is asked of the browser or the desktop is answered, every task's call ends,
\* and every process a command started is over in the end: the parts'
\* EveryActionAnswers, EveryOperationAnswers, EveryCallSettles and
\* EveryGroupEnds in one formula (execute, run, stop, stopTree).
EverythingEnds == \A t \in Tasks : Unfinished(t) ~> ~Unfinished(t)
=============================================================================
