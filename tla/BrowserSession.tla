--------------------------- MODULE BrowserSession ---------------------------
(***************************************************************************)
(* The browser a runtime keeps between actions: ensureContext and close of *)
(* browser-runtime/src/index.ts, connectBrowser of browser-connection.ts.  *)
(* An action that finds no context starts a pinning proxy, launches or     *)
(* attaches, and installs the guards every request must pass before it     *)
(* acts. A browser may die at any await, a guard may fail to install, and  *)
(* the runtime may be closed while an action is under way.                 *)
(***************************************************************************)
EXTENDS Integers, Sequences, FiniteSets, SequencesExt

CONSTANT MaxStarts \* bound: proxies and browsers started

VARIABLES
  cdp, unhinged, replay,        \* the options
  browsers,                     \* the live ones
  proxies,                      \* those listening
  proxy, connection, context,   \* the runtime's fields: an id, or 0
  step, mine,                   \* where the action stands, and its browser
  close,                        \* where each close() stands: a teardown's, the shutdown's
  closes,                       \* the connection each close() read
  starts, overlapped            \* ids given out; an action ran beside the shutdown

options == <<cdp, unhinged, replay>>
fields == <<proxy, connection, context>>
sessionVars == <<options, browsers, proxies, fields, step, mine, close, closes, starts, overlapped>>

Closers == {"teardown", "shutdown"}
GuardNames == {"route", "websocket", "har"}
Pinned == ~unhinged /\ ~cdp
\* The guards of this runtime's options, in the order they are installed.
Guards == <<"route">> \o (IF cdp /\ ~unhinged THEN <<"websocket">> ELSE <<>>) \o (IF replay THEN <<"har">> ELSE <<>>)

Alive(id) == \E b \in browsers : b.id = id
The(id) == CHOOSE b \in browsers : b.id = id
Installed(id) == IF Alive(id) THEN The(id).guards ELSE {}
Missing(id) == SelectSeq(Guards, LAMBDA g : g \notin Installed(id))
With(id, fresh) == (browsers \ {The(id)}) \union {fresh}

\* A browser ends: its context's close event clears the runtime's field, once
\* the handler is registered, whichever context the field holds by then.
Ends(id) ==
  /\ browsers' = {b \in browsers : b.id # id}
  /\ context' = IF Alive(id) /\ The(id).heard THEN 0 ELSE context

Init ==
  /\ cdp \in BOOLEAN /\ unhinged \in BOOLEAN /\ replay \in BOOLEAN
  /\ browsers = {} /\ proxies = {}
  /\ proxy = 0 /\ connection = 0 /\ context = 0
  /\ step = "idle" /\ mine = 0
  /\ close = [c \in Closers |-> "no"] /\ closes = [c \in Closers |-> 0]
  /\ starts = 0 /\ overlapped = FALSE

-----------------------------------------------------------------------------
(* ensureContext *)

\* An action's turn in the queue. A replay over an attached browser is refused.
Start ==
  /\ step = "idle" /\ ~(replay /\ cdp)
  /\ IF context # 0 THEN step' = "act" /\ mine' = context
     ELSE step' = "begin" /\ UNCHANGED mine
  /\ overlapped' = (overlapped \/ close["shutdown"] # "no")
  /\ UNCHANGED <<options, browsers, proxies, fields, close, closes, starts>>

\* A proxy a closed context left is closed first.
CloseProxy ==
  /\ step = "begin" /\ step' = "proxy"
  /\ proxies' = proxies \ {proxy} /\ proxy' = 0
  /\ UNCHANGED <<options, browsers, connection, context, mine, close, closes, starts, overlapped>>

StartProxy ==
  /\ step = "proxy"
  /\ \/ ~Pinned /\ step' = "connect" /\ UNCHANGED <<proxies, proxy, starts>>
     \/ Pinned /\ step' = "idle" /\ UNCHANGED <<proxies, proxy, starts>>
     \/ /\ Pinned /\ starts < MaxStarts
        /\ starts' = starts + 1
        /\ proxies' = proxies \union {starts'} /\ proxy' = starts'
        /\ step' = "connect"
  /\ UNCHANGED <<options, browsers, connection, context, mine, close, closes, overlapped>>

\* connectBrowser: a launch or a context that fails leaves no browser behind.
Connect ==
  /\ step = "connect"
  /\ \/ step' = "idle" /\ UNCHANGED <<browsers, connection, context, mine, starts>>
     \/ /\ starts < MaxStarts /\ starts' = starts + 1
        /\ browsers' = browsers \union
             {[id |-> starts', proxy |-> IF Pinned THEN proxy ELSE 0, guards |-> {}, heard |-> FALSE]}
        /\ connection' = starts' /\ context' = starts' /\ mine' = starts'
        /\ step' = "guard"
  /\ UNCHANGED <<options, proxies, proxy, close, closes, overlapped>>

\* A guard that fails tears the context down, so that the next action starts over.
TearDown ==
  /\ step' = "teardown"
  /\ close' = [close EXCEPT !["teardown"] = "unroute"]
  /\ closes' = [closes EXCEPT !["teardown"] = connection]

\* A guard goes into the context the field holds; a call that fails or runs out
\* of time may have installed it all the same.
Guard ==
  /\ step = "guard" /\ Missing(mine) # <<>>
  /\ LET b == The(context)
         guarded == With(context, [b EXCEPT !.guards = @ \union {Head(Missing(mine))}])
     IN \/ Alive(context) /\ browsers' = guarded /\ UNCHANGED <<step, close, closes>>
        \/ Alive(context) /\ browsers' = guarded /\ TearDown
        \/ UNCHANGED browsers /\ TearDown
  /\ UNCHANGED <<options, proxies, fields, mine, starts, overlapped>>

\* The handlers are registered on the field, which a close() may have cleared.
Listen ==
  /\ step = "guard" /\ Alive(mine) /\ Missing(mine) = <<>>
  /\ IF context = 0 THEN step' = "idle" /\ UNCHANGED browsers
     ELSE step' = "act" /\ browsers' = With(mine, [The(mine) EXCEPT !.heard = TRUE])
  /\ UNCHANGED <<options, proxies, fields, mine, close, closes, starts, overlapped>>

\* The action runs to its end, whatever that is.
Act ==
  /\ step = "act" /\ step' = "idle"
  /\ UNCHANGED <<options, browsers, proxies, fields, mine, close, closes, starts, overlapped>>

-----------------------------------------------------------------------------
(* close(), by a teardown or by the shutdown *)

Shutdown ==
  /\ close["shutdown"] = "no"
  /\ close' = [close EXCEPT !["shutdown"] = "unroute"]
  /\ closes' = [closes EXCEPT !["shutdown"] = connection]
  /\ overlapped' = (step # "idle")
  /\ UNCHANGED <<options, browsers, proxies, fields, step, mine, starts>>

\* An attached browser is not closed: its guard is taken away.
Unroute(c) ==
  /\ close[c] = "unroute"
  /\ close' = [close EXCEPT ![c] = "browser"]
  /\ browsers' = IF cdp /\ Alive(closes[c])
                 THEN With(closes[c], [The(closes[c]) EXCEPT !.guards = @ \ {"route"}]) ELSE browsers
  /\ UNCHANGED <<options, proxies, fields, step, mine, closes, starts, overlapped>>
CloseBrowser(c) ==
  /\ close[c] = "browser"
  /\ close' = [close EXCEPT ![c] = "proxy"]
  /\ IF cdp THEN UNCHANGED <<browsers, context>> ELSE Ends(closes[c])
  /\ UNCHANGED <<options, proxies, proxy, connection, step, mine, closes, starts, overlapped>>
EndProxy(c) ==
  /\ close[c] = "proxy"
  /\ close' = [close EXCEPT ![c] = "clear"]
  /\ proxies' = proxies \ {proxy}
  /\ UNCHANGED <<options, browsers, fields, step, mine, closes, starts, overlapped>>
Clear(c) ==
  /\ close[c] = "clear"
  /\ close' = [close EXCEPT ![c] = IF c = "teardown" THEN "no" ELSE "done"]
  /\ proxy' = 0 /\ connection' = 0 /\ context' = 0
  /\ step' = IF c = "teardown" THEN "idle" ELSE step
  /\ UNCHANGED <<options, browsers, proxies, mine, closes, starts, overlapped>>

\* The browser crashes, or its window is closed.
Crash ==
  /\ \E b \in browsers : Ends(b.id)
  /\ UNCHANGED <<options, proxies, proxy, connection, step, mine, close, closes, starts, overlapped>>

Next ==
  \/ Start \/ CloseProxy \/ StartProxy \/ Connect \/ Guard \/ Listen \/ Act
  \/ Shutdown \/ Crash
  \/ \E c \in Closers : Unroute(c) \/ CloseBrowser(c) \/ EndProxy(c) \/ Clear(c)

Spec == Init /\ [][Next]_sessionVars

-----------------------------------------------------------------------------
(* Properties *)

\* Every field keeps its shape, and no two live browsers share an id.
TypeOK ==
  /\ \A b \in browsers : b.guards \subseteq GuardNames /\ b.id \in 1..starts /\ b.proxy \in 0..starts
  /\ \A b, c \in browsers : b.id = c.id => b = c
  /\ proxies \subseteq 1..starts
  /\ {proxy, connection, context, mine} \subseteq 0..starts
  /\ step \in {"idle", "begin", "proxy", "connect", "guard", "teardown", "act"}
  /\ close["teardown"] # "no" <=> step = "teardown"

\* Until the runtime is closed, an action acts only through a browser that has
\* every guard of the options and whose own proxy is still listening, however
\* earlier guards failed and browsers died (ensureContext's teardown).
ActsGuarded ==
  (step = "act" /\ close["shutdown"] = "no" /\ Alive(mine)) =>
     /\ ToSet(Guards) \subseteq Installed(mine)
     /\ Pinned => The(mine).proxy \in proxies

\* Between actions at most one proxy listens and no launched browser is beyond
\* the runtime's reach, and a runtime closed while no action ran leaves neither
\* (the proxy closed before a relaunch, close()).
NothingLeftBehind ==
  /\ (step = "idle" /\ close["shutdown"] = "no") =>
       /\ proxies \subseteq {proxy}
       /\ ~cdp => \A b \in browsers : b.id = connection
  /\ (close["shutdown"] = "done" /\ ~overlapped) => proxies = {} /\ (~cdp => browsers = {})
=============================================================================
