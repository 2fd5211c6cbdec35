-------------------------- MODULE ComputerActions --------------------------
(***************************************************************************)
(* A computer action, in packages/computer-runtime/src/index.ts: every     *)
(* look at the desktop and every input is a helper process, and a cancel   *)
(* or the helper's timeout may stop it before or after it did its work. A  *)
(* named target is found in the elements the platform reports, or in the   *)
(* words read off a screen capture taken for that and deleted again.       *)
(*                                                                         *)
(* A step starts a helper, lets it act, or handles its end. The helpers    *)
(* are external; one that exits on its own with an error has sent nothing. *)
(***************************************************************************)
EXTENDS Naturals, Sequences, FiniteSets

CONSTANTS
  Screens,      \* the element lists a desktop may show: [name, sure]
  Wanted,       \* the names a target may be given by
  Matches(_, _),\* whether an element's name holds the one wanted
  MaxElements,  \* elements kept of a list
  Nobody,
  MaxOperations \* bound: operations run

ComputerAssumption == MaxElements \in Nat /\ MaxOperations \in Nat

VARIABLES
  platform,  \* "mac", "linux" or "windows", and whether it has a tree and OCR
  screen,    \* what the desktop shows
  request,   \* the operation running
  step,      \* which helper it is at: observe, capture, read, probe, input
  helper,    \* that helper: "none", "started", "acted"
  cancelled, cancelledBefore,
  observed,  \* the elements the operation looked at
  chosen,    \* the index of the one it will press
  sent,      \* history: what input helpers of this operation did
  captures,  \* capture files in the artifact directory
  outcome,   \* what the operation answered
  operations

computerVars == <<platform, screen, request, step, helper, cancelled, cancelledBefore,
                  observed, chosen, sent, captures, outcome, operations>>

Inputs == {"click", "drag", "type", "key", "scroll"}
Requests ==
  [action : {"inspect", "screenshot"} \cup Inputs, target : {Nobody}, normalized : BOOLEAN]
    \cup [action : {"click", "drag"}, target : Wanted, normalized : {FALSE}]
Idle == [action |-> "none", target |-> Nobody, normalized |-> FALSE]

Init ==
  /\ platform \in [os : {"mac", "linux", "windows"}, tree : BOOLEAN, ocr : BOOLEAN]
  /\ platform.os = "linux" => ~platform.tree
  /\ screen \in Screens
  /\ request = Idle /\ step = "done" /\ helper = "none"
  /\ cancelled = FALSE /\ cancelledBefore = FALSE
  /\ observed = <<>> /\ chosen = 0 /\ sent = {} /\ captures = {}
  /\ outcome = "none" /\ operations = 0

Named == request.target # Nobody
Busy == outcome = "none" /\ request # Idle

\* What the adapter asks before its input: X11's size for a normalized point,
\* macOS's secure-input state before keystrokes.
Probes(r) == \/ platform.os = "linux" /\ r.normalized /\ r.action \in {"click", "drag"}
             \/ platform.os = "mac" /\ r.action \in {"type", "key"}
AdapterStep(r) == IF Probes(r) THEN "probe" ELSE "input"

Answer(o) ==
  /\ outcome' = o /\ step' = "done" /\ helper' = "none"
  /\ UNCHANGED <<platform, screen, request, cancelled, cancelledBefore, operations>>

\* execute: a cancelled operation never begins; a named target needs a way to
\* see one; inspect and a target look first, other actions go to the adapter.
Start(r) ==
  /\ ~Busy /\ operations < MaxOperations
  /\ r.target # Nobody => platform.tree \/ platform.ocr
  /\ request' = r /\ operations' = operations + 1
  /\ step' = IF r.action = "inspect" \/ r.target # Nobody THEN "observe"
             ELSE IF r.action = "screenshot" THEN "capture" ELSE AdapterStep(r)
  /\ cancelled' = FALSE /\ cancelledBefore' = FALSE
  /\ helper' = "none" /\ observed' = <<>> /\ chosen' = 0 /\ sent' = {} /\ outcome' = "none"
  /\ UNCHANGED <<platform, screen, captures>>

\* The task's cancel, or its budget.
Cancel ==
  /\ Busy /\ ~cancelled
  /\ cancelled' = TRUE
  /\ UNCHANGED <<platform, screen, request, step, helper, cancelledBefore, observed, chosen,
                 sent, captures, outcome, operations>>

\* The desktop shows something else.
ScreenChanges(s) ==
  /\ s # screen /\ screen' = s
  /\ UNCHANGED <<platform, request, step, helper, cancelled, cancelledBefore, observed,
                 chosen, sent, captures, outcome, operations>>

-----------------------------------------------------------------------------
(* A helper *)

Begin ==
  /\ Busy /\ helper = "none" /\ ~cancelled
  /\ helper' = "started"
  /\ UNCHANGED <<platform, screen, request, step, cancelled, cancelledBefore, observed,
                 chosen, sent, captures, outcome, operations>>

\* variant: the list is not cut
Uncut == screen

\* The helper does its work: elements are listed, cut at the cap, only where
\* there is a tree, which states them; a capture file is written, or read, less
\* surely; input is sent, at the point.
Kept == SubSeq(screen, 1, IF Len(screen) < MaxElements THEN Len(screen) ELSE MaxElements)
Act ==
  /\ Busy /\ helper = "started" /\ helper' = "acted"
  /\ observed' = CASE step = "observe" /\ platform.tree ->
                        [i \in DOMAIN Kept |-> [Kept[i] EXCEPT !.sure = TRUE]]
                   [] step = "read" -> Kept
                   [] OTHER -> observed
  /\ captures' = IF step = "capture"
                 THEN captures \cup {[of |-> operations, kept |-> request.action = "screenshot"]}
                 ELSE captures
  /\ sent' = IF step = "input" THEN sent \cup {[at |-> chosen]} ELSE sent
  /\ UNCHANGED <<platform, screen, request, step, cancelled, cancelledBefore, chosen, outcome, operations>>

-----------------------------------------------------------------------------
(* The target *)

\* Names as written beat names that hold the one wanted; a word read off a
\* capture has to be sure.
Best(elements, wanted) ==
  LET exact == {i \in DOMAIN elements : elements[i].name = wanted}
  IN IF exact # {} THEN exact ELSE {i \in DOMAIN elements : Matches(elements[i].name, wanted)}

\* matchElement, then the adapter's turn; cancelledBefore is read just there.
Resolve ==
  IF Cardinality(Best(observed', request.target)) # 1
  THEN Answer("failed") /\ UNCHANGED chosen
  ELSE LET i == CHOOSE i \in Best(observed', request.target) : TRUE
       IN IF ~observed'[i].sure
          THEN Answer("failed") /\ UNCHANGED chosen
          ELSE /\ chosen' = i /\ step' = AdapterStep(request) /\ helper' = "none"
               /\ cancelledBefore' = cancelled
               /\ UNCHANGED <<platform, screen, request, cancelled, outcome, operations>>

-----------------------------------------------------------------------------
(* The end of a helper *)

MoveTo(s) ==
  /\ step' = s /\ helper' = "none"
  /\ UNCHANGED <<platform, screen, request, cancelled, cancelledBefore, chosen, outcome, operations>>

\* observe's fallback: no elements, and the screen can be read.
Unseen == observed' = <<>> /\ platform.ocr
Looked == IF Named THEN Resolve ELSE Answer("success") /\ UNCHANGED chosen

\* readScreen's finally: the capture it took is deleted, best effort.
Delete == \/ captures' = captures \ {[of |-> operations, kept |-> FALSE]}
          \/ captures' = captures

Done ==
  /\ Busy /\ helper = "acted" /\ UNCHANGED <<sent, observed>>
  /\ CASE step = "observe" /\ Unseen -> MoveTo("capture") /\ UNCHANGED captures
       [] step = "observe" /\ ~Unseen -> Looked /\ UNCHANGED captures
       [] step = "capture" /\ request.action = "screenshot" -> Answer("success") /\ UNCHANGED <<chosen, captures>>
       [] step = "capture" /\ request.action # "screenshot" -> MoveTo("read") /\ UNCHANGED captures
       [] step = "read" -> Delete /\ Looked
       [] step = "probe" -> UNCHANGED captures /\ (MoveTo("input") \/ (Answer("failed") /\ UNCHANGED chosen))
       [] OTHER -> Answer("success") /\ UNCHANGED <<chosen, captures>>

\* Stopped: it exits with an error, its timeout or the cancel kills it, or the
\* cancel had landed before it started. Only input may have reached anything.
Stopped(how) ==
  CASE step = "input" /\ (how = "timeout" \/ (how = "killed" /\ ~cancelledBefore)) -> Answer("unknown") /\ UNCHANGED <<chosen, captures>>
    [] step \in {"capture", "read"} /\ request.action = "inspect" /\ ~cancelled ->
         /\ IF step = "read" THEN Delete ELSE UNCHANGED captures
         /\ Answer("success") /\ UNCHANGED chosen
    [] step = "read" /\ (request.action # "inspect" \/ cancelled) -> Delete /\ Answer("failed") /\ UNCHANGED chosen
    [] step = "probe" /\ platform.os = "mac" -> MoveTo("input") /\ UNCHANGED captures
    [] OTHER -> Answer("failed") /\ UNCHANGED <<chosen, captures>>

\* A reading that failed reports nothing: what was seen before it stands.
Stop ==
  /\ Busy /\ UNCHANGED sent
  /\ observed' = IF step = "read" THEN <<>> ELSE observed
  /\ \/ helper = "none" /\ cancelled /\ Stopped("unstarted")
     \/ helper = "started" /\ Stopped("error")
     \/ helper \in {"started", "acted"} /\ (Stopped("timeout") \/ (cancelled /\ Stopped("killed")))

Next ==
  \/ \E r \in Requests : Start(r)
  \/ Cancel \/ Begin \/ Act \/ Done \/ Stop
  \/ \E s \in Screens : ScreenChanges(s)

\* Every helper has a timeout.
Spec == Init /\ [][Next]_computerVars /\ WF_computerVars(Begin) /\ WF_computerVars(Done \/ Stop)

-----------------------------------------------------------------------------
(* Properties *)

TypeOK ==
  /\ step \in {"observe", "capture", "read", "probe", "input", "done"}
  /\ helper \in {"none", "started", "acted"}
  /\ outcome \in {"none", "success", "failed", "unknown"}
  /\ chosen \in 0..MaxElements
  /\ captures \subseteq [of : 1..MaxOperations, kept : BOOLEAN]

\* An action answered as failed or cancelled sent no input, whichever of its
\* helpers was stopped, and one answered as done sent its input once; what may
\* have reached the desktop is answered as unknown (execute's catch,
\* HelperNotStarted, geometry).
FailedSentNothing ==
  /\ outcome = "failed" => sent = {}
  /\ outcome = "success" /\ request.action \in Inputs => sent # {}

\* A press on a named target lands on the one element of that name: of what
\* was shown when it looked, cut at the cap, no other matched as well, and a
\* word only read off the screen was sure (matchElement).
PressedTheOneNamed ==
  Named => \A s \in sent :
    /\ s.at \in DOMAIN observed
    /\ observed[s.at].sure
    /\ \A i \in DOMAIN observed \ {s.at} :
         /\ observed[i].name # request.target
         /\ Matches(observed[i].name, request.target) => observed[s.at].name = request.target

\* Every operation is answered, each of its helpers stopping by its timeout
\* (run).
EveryOperationAnswers == Busy ~> ~Busy
=============================================================================
