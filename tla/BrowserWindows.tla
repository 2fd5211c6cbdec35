--------------------------- MODULE BrowserWindows ---------------------------
(***************************************************************************)
(* The windows pages open, in packages/browser-runtime/src/index.ts: the   *)
(* action that was running when Chromium created one reports it and, in    *)
(* block mode, closes it, whenever Playwright hands it over; an action     *)
(* waits for the windows it is owed, up to its timeout. In a browser the   *)
(* runtime is attached to, the operator's own windows are left alone as    *)
(* far as Chromium tells them apart: a tab without an opener, or one a     *)
(* frame opened, counts by when it came.                                   *)
(*                                                                         *)
(* A step is one event of the runtime's process. Chromium and Playwright   *)
(* are external: a window is created, handed over later, or destroyed.     *)
(* Window 0 is the tab actions land on, the operator's when attached.      *)
(***************************************************************************)
EXTENDS Naturals, FiniteSets

CONSTANTS
  NoWindow,
  MaxWindows,  \* bound: windows opened
  MaxActions   \* bound: actions run

WindowsAssumption == NoWindow \notin Nat /\ MaxWindows \in Nat /\ MaxActions \in Nat

VARIABLES
  attached, block, \* how the runtime was started: over CDP; popups are blocked
  session,         \* the browser-level CDP session that tells of windows was made
  acting,          \* what the running action is, or "no"
  actions,         \* actions begun
  actingTarget,    \* the page a driving action acts on, once looked up
  drivenTarget,    \* the active page, once driven
  window,          \* per window: whose it is, if Chromium tells, and where it stands
  ownTargets, createdActing, owed, lapsing, \* as in the class
  judging,         \* windows handed over and not looked up yet, and if an action ran
  popups,          \* windows collected for an action to report
  returned         \* history: the actions that returned, and the windows they told of

windowVars == <<attached, block, session, acting, actions, actingTarget, drivenTarget, window,
                ownTargets, createdActing, owed, lapsing, judging, popups, returned>>

Windows == 0..MaxWindows
\* `plain`: what Chromium tells of it says whose it is. `unasked`: its id could
\* not be looked up. `late`: given up on, or created after its action settled. `told`: how often reported.
Absent == [whose |-> "operator", plain |-> TRUE, popup |-> FALSE, unasked |-> FALSE, action |-> 0,
           at |-> "absent", closedBy |-> "nobody", late |-> FALSE, told |-> 0]
Live(w) == window[w].at \in {"created", "open"}

Init ==
  /\ attached \in BOOLEAN /\ block \in BOOLEAN /\ session \in BOOLEAN
  /\ acting = "no" /\ actions = 0
  /\ actingTarget = NoWindow /\ drivenTarget = NoWindow
  /\ window = [w \in Windows |-> IF w = 0 THEN [Absent EXCEPT !.at = "open"] ELSE Absent]
  /\ ownTargets = {} /\ createdActing = {} /\ owed = {} /\ lapsing = {}
  /\ judging = {} /\ popups = {} /\ returned = [actions |-> {}, windows |-> {}]

\* An action reads the page, or drives it: navigates it or sends it input.
Begin(kind) ==
  /\ acting = "no" /\ actions < MaxActions
  /\ acting' = kind /\ actions' = actions + 1 /\ actingTarget' = NoWindow
  /\ UNCHANGED <<attached, block, session, drivenTarget, window, ownTargets, createdActing, owed,
                 lapsing, judging, popups, returned>>

\* run looks its page up first, or fails to and goes on without; drive marks it
\* before a navigation, after input.
LookUpPage ==
  /\ acting = "drives" /\ attached /\ session /\ actingTarget = NoWindow
  /\ actingTarget' = 0
  /\ UNCHANGED <<attached, block, session, acting, actions, drivenTarget, window, ownTargets,
                 createdActing, owed, lapsing, judging, popups, returned>>
Drive ==
  /\ acting = "drives" /\ attached
  /\ drivenTarget' = 0
  /\ UNCHANGED <<attached, block, session, acting, actions, actingTarget, window, ownTargets,
                 createdActing, owed, lapsing, judging, popups, returned>>

-----------------------------------------------------------------------------
(* Chromium *)

\* Windows the runtime owns, an action's popup among them before it is judged.
Runtimes == ownTargets \cup {drivenTarget, actingTarget} \cup createdActing

\* What Chromium names as a window's opener: the page that opened it, a frame,
\* or nothing, of one that starts at an address (a tab opened with a modifier or
\* a middle click) or blank, as no page can have the browser open one.
Openers == {"page", "frame", "address", "blank"}
LookingUp == acting = "drives" /\ actingTarget = NoWindow

\* variant: a window is the running action's whichever page opened it
TheirsBlank(by, named) ==
  attached /\ IF acting = "no" THEN named # "page" \/ by \notin Runtimes ELSE named = "blank"

\* Target.targetCreated: whether a window counts as the operator's.
Theirs(by, named) ==
  /\ attached
  /\ \/ acting = "no" /\ named # "page"
     \/ acting # "no" /\ named = "blank"
     \/ named = "page" /\ by \notin Runtimes /\ ~LookingUp

\* Whose it is in fact: of the page it was opened by, which is the runtime's
\* once driven; all of a launched browser's are the runtime's.
Whose(by) ==
  CASE ~attached -> "runtime"
    [] attached /\ by = NoWindow -> "operator"
    [] attached /\ by = 0 -> IF 0 \in {drivenTarget, actingTarget} THEN "runtime" ELSE "operator"
    [] OTHER -> window[by].whose

\* Whether Chromium's word is enough to tell: it names a page that is plain
\* itself, and known not to be the one driven. One that names none is taken for
\* the running action's, and for the operator's between actions.
Plain(by, named) ==
  CASE named = "page" -> window[by].plain /\ (LookingUp => Whose(by) = "runtime")
    [] named = "blank" -> TRUE
    [] OTHER -> (acting = "no") = (Whose(by) = "operator")

\* A page opens one; or, when attached, the operator does.
Create(w, by, named) ==
  /\ window[w].at = "absent" /\ \A v \in 0..w-1 : window[v].at # "absent"
  /\ IF by = NoWindow THEN attached /\ named \in {"address", "blank"} ELSE Live(by) /\ named # "blank"
  /\ window' = [window EXCEPT ![w] =
       [Absent EXCEPT !.at = "created", !.popup = named \in {"page", "frame"},
                      !.whose = Whose(by), !.plain = ~attached \/ Plain(by, named),
                      !.action = IF acting = "no" THEN 0 ELSE actions, !.late = acting = "settling"]]
  /\ IF ~session \/ Theirs(by, named) THEN UNCHANGED <<createdActing, ownTargets, owed>>
     ELSE /\ owed' = owed \cup {w}
          /\ IF acting # "no"
             THEN createdActing' = createdActing \cup {w} /\ UNCHANGED ownTargets
             ELSE ownTargets' = ownTargets \cup (IF named = "page" /\ by \in Runtimes THEN {w} ELSE {})
                  /\ UNCHANGED createdActing
  /\ UNCHANGED <<attached, block, session, acting, actions, actingTarget, drivenTarget, lapsing,
                 judging, popups, returned>>

\* Target.targetDestroyed: the page or the operator closed it, or the runtime.
Destroyed(w, by, tells) ==
  /\ window' = [window EXCEPT ![w].at = IF @ = "created" THEN "gone" ELSE "closed", ![w].closedBy = by,
                     ![w].told = IF tells THEN @ + 1 ELSE @]
  /\ popups' = IF tells THEN popups \cup {w} ELSE popups
  /\ owed' = owed \ {w} /\ lapsing' = lapsing \ {w}

Closes(w) ==
  /\ w # 0 /\ Live(w)
  /\ Destroyed(w, "others", FALSE)
  /\ UNCHANGED <<attached, block, session, acting, actions, actingTarget, drivenTarget, ownTargets,
                 createdActing, judging, returned>>

-----------------------------------------------------------------------------
(* Playwright hands a window over *)

\* adopt: reported, and in block mode closed.
Adopt(w) ==
  IF block /\ Live(w) THEN Destroyed(w, "runtime", TRUE)
  ELSE /\ window' = [window EXCEPT ![w].at = IF @ = "created" THEN "open" ELSE @, ![w].told = @ + 1]
       /\ popups' = popups \cup {w}
       /\ owed' = owed \ {w} /\ UNCHANGED lapsing

\* In a launched browser, or without the session that tells of windows, one is
\* adopted as it is handed over; else it is judged first, by its id.
HandOver(w) ==
  /\ window[w].at = "created"
  /\ IF attached /\ session
     THEN /\ judging' = judging \cup {[window |-> w, acting |-> acting # "no"]}
          /\ window' = [window EXCEPT ![w].at = "open"]
          /\ UNCHANGED <<owed, lapsing, popups>>
     ELSE Adopt(w) /\ UNCHANGED judging
  /\ UNCHANGED <<attached, block, session, acting, actions, actingTarget, drivenTarget, ownTargets,
                 createdActing, returned>>

\* adoptable: one created while an action ran, or by a window of the
\* runtime's, is adopted; one that closed meanwhile is reported.
Judge(j) ==
  LET w == j.window IN
  /\ j \in judging /\ judging' = judging \ {j}
  /\ IF window[w].at = "closed"
     THEN Adopt(w) /\ UNCHANGED <<ownTargets, createdActing>>
     ELSE /\ createdActing' = createdActing \ {w}
          /\ ownTargets' = ownTargets \cup (createdActing \cap {w})
          /\ IF w \in createdActing \cup ownTargets THEN Adopt(w)
             ELSE owed' = owed \ {w} /\ UNCHANGED <<window, lapsing, popups>>
  /\ UNCHANGED <<attached, block, session, acting, actions, actingTarget, drivenTarget, returned>>

\* Its id could not be looked up, asked twice: it counts by when it was handed
\* over, whosever it is, and stays owed while it is open.
JudgeUnasked(j) ==
  LET w == j.window
      closes == j.acting /\ block
  IN /\ j \in judging /\ judging' = judging \ {j}
     /\ window[w].at = "open"
     /\ popups' = IF j.acting THEN popups \cup {w} ELSE popups
     /\ window' = [window EXCEPT ![w].unasked = TRUE,
                     ![w].told = IF j.acting THEN @ + 1 ELSE @,
                     ![w].at = IF closes THEN "closed" ELSE @,
                     ![w].closedBy = IF closes THEN "runtime" ELSE @]
     /\ owed' = IF closes THEN owed \ {w} ELSE owed
     /\ lapsing' = IF closes THEN lapsing \ {w} ELSE lapsing
     /\ UNCHANGED <<attached, block, session, acting, actions, actingTarget, drivenTarget,
                    ownTargets, createdActing, returned>>

\* The time a given-up popup had to load runs out: it is closed by its id, and
\* handed over closed.
Lapse(w) ==
  /\ w \in lapsing /\ Live(w)
  /\ Destroyed(w, "runtime", window[w].at = "created")
  /\ UNCHANGED <<attached, block, session, acting, actions, actingTarget, drivenTarget, ownTargets,
                 createdActing, judging, returned>>

-----------------------------------------------------------------------------
(* The end of an action *)

\* giveUpOwed: no later action waits for what this one gives up on.
GiveUp ==
  /\ lapsing' = IF block THEN lapsing \cup {w \in owed : window[w].popup} ELSE lapsing
  /\ window' = [w \in Windows |-> [window[w] EXCEPT !.late = @ \/ w \in owed]]
  /\ owed' = {}

\* awaitOpenedWindows: all that was owed is there, or the action's time is out.
Settle ==
  /\ acting \in {"reads", "drives"}
  /\ GiveUp
  /\ acting' = "settling"
  /\ UNCHANGED <<attached, block, session, actions, actingTarget, drivenTarget, ownTargets,
                 createdActing, judging, popups, returned>>

\* The judgements and the closes are waited for.
Return ==
  /\ acting = "settling" /\ judging = {}
  /\ returned' = [actions |-> returned.actions \cup {actions}, windows |-> returned.windows \cup popups]
  /\ popups' = {} /\ acting' = "no" /\ actingTarget' = NoWindow
  /\ UNCHANGED <<attached, block, session, actions, drivenTarget, window, ownTargets, createdActing,
                 owed, lapsing, judging>>

\* One that fails leaves what it collected to the next that returns.
Fails ==
  /\ acting # "no"
  /\ GiveUp
  /\ acting' = "no" /\ actingTarget' = NoWindow
  /\ UNCHANGED <<attached, block, session, actions, drivenTarget, ownTargets, createdActing, judging,
                 popups, returned>>

Next ==
  \/ \E kind \in {"reads", "drives"} : Begin(kind)
  \/ LookUpPage \/ Drive
  \/ \E w \in 1..MaxWindows, by \in Windows \cup {NoWindow}, named \in Openers : Create(w, by, named)
  \/ \E w \in Windows : Closes(w) \/ HandOver(w) \/ Lapse(w)
  \/ \E j \in judging : Judge(j) \/ JudgeUnasked(j)
  \/ Settle
  \/ Return
  \/ Fails

Spec == Init /\ [][Next]_windowVars

-----------------------------------------------------------------------------
(* Properties *)

TypeOK ==
  /\ owed \cup lapsing \cup ownTargets \subseteq Windows
  /\ \A w \in owed : Live(w)

\* An action that returns tells of every window its page opened while it ran
\* that was not gone before it could be seen, or given up on at its timeout,
\* where Chromium tells of windows and of this one's opener; and no window is
\* told of twice (awaitOpenedWindows, adoptable, adopt).
WindowsAreReported ==
  \A w \in Windows :
    /\ (/\ session /\ window[w].plain
        /\ window[w].action \in returned.actions /\ window[w].whose = "runtime"
        /\ ~window[w].late /\ window[w].at # "gone") => w \in returned.windows
    /\ window[w].told <= 1

\* The operator's windows are theirs, where Chromium tells whose a window is: the
\* runtime closes none that the operator opened blank, or that a page of theirs
\* opened by name, whatever action was running. Left out, as the code has it: a
\* tab with an address and no opener, or a frame's, that comes while an action
\* runs; a page's while the page a driving action acts on is not known; one
\* handed over during an action whose id could not be looked up; and every one
\* handed over without the session that tells of them. The runtime closes none
\* at all unless popups are blocked (Target.targetCreated, adoptable, giveUpOwed).
OperatorsWindowsStay ==
  \A w \in Windows :
    /\ session /\ window[w].whose = "operator" /\ window[w].plain /\ ~window[w].unasked
       => window[w].closedBy # "runtime"
    /\ window[w].closedBy = "runtime" => block
=============================================================================
