----------------------------- MODULE HttpServer -----------------------------
(***************************************************************************)
(* packages/server/src/http-server.ts: one process serves either an agent  *)
(* endpoint (MCP sessions, the operator's pages, the sign-in routes) or    *)
(* the approval console, which one page pairs with, once. The MCP sessions *)
(* are kept in the order of their last use and the oldest idle ones end    *)
(* when there are too many; a request holds its session until its response *)
(* or its socket closes.                                                   *)
(*                                                                         *)
(* A step is one event of the process, up to its next `await`. Tokens and  *)
(* codes are the names of who holds them.                                  *)
(***************************************************************************)
EXTENDS Naturals, Sequences, FiniteSets, SequencesExt, Sublists

CONSTANTS
  Callers,      \* who has a token: Operator, and clients signed in by OAuth
  Operator,
  Strangers,    \* callers with no token this server accepts
  Pages,        \* pages that hold the pairing code
  Unpaired, Left,   \* the console's session before a page pairs and after it leaves
  MaxSessions,  \* MAX_MCP_SESSIONS
  MaxOpened,    \* bound: MCP sessions opened
  MaxRequests   \* bound: requests in flight

HttpAssumption ==
  /\ Operator \in Callers /\ Strangers \cap Callers = {}
  /\ Unpaired \notin Pages /\ Left \notin Pages /\ Unpaired # Left
  /\ MaxSessions \in Nat \ {0} /\ MaxRequests \in Nat

VARIABLES
  server,     \* what it was started as: a console or not, signing in offered or not
  sessions,   \* the MCP sessions, least recently used first
  requests,   \* requests holding a session, and which of their ends is to come
  opened,     \* MCP sessions opened so far
  session,    \* the console's session: Unpaired, a page, or Left
  deciding,   \* pages let in to decide, whose request is still being read
  deciders,   \* history: pages that recorded an approval or a denial
  crowded     \* history: sessions ended to make room, with requests they served

httpVars == <<server, sessions, requests, opened, session, deciding, deciders, crowded>>

Settings == [console : BOOLEAN, socket : BOOLEAN, loopback : BOOLEAN, enforced : BOOLEAN,
             signIn : BOOLEAN, blankToken : BOOLEAN, socketsWork : BOOLEAN]

\* serveHttp refuses to start on these: a token set to nothing, a socket on
\* Windows or in a worker thread, and what is not of this machine alone. The
\* console has no token of its own.
RefusesToStart(s) ==
  \/ ~s.console /\ s.blankToken
  \/ s.console /\ (s.socket \/ ~s.loopback)
  \/ s.socket /\ ~s.socketsWork
  \/ s.enforced /\ ~s.socket /\ ~s.loopback

\* Signing in is offered on loopback only, and neither by the console, in
\* enforced mode, on a socket, nor when it is turned off.
OAuthEnabled(s) == ~s.console /\ ~s.enforced /\ ~s.socket /\ s.loopback /\ s.signIn

\* authenticate: the operator's token, or one a signed-in client was given.
Authenticated(caller) ==
  caller = Operator \/ (caller \in Callers /\ server.oauth)

Ends == {"response", "socket"}
Busy(i) == Cardinality({r \in requests : r.session = i /\ r.held})
IsOpen(i) == \E k \in DOMAIN sessions : sessions[k].id = i
Position(i) == CHOOSE k \in DOMAIN sessions : sessions[k].id = i
Entry(i) == sessions[Position(i)]
Rest(i) == RemoveAt(sessions, Position(i))

Init ==
  /\ server \in {[console |-> s.console, oauth |-> OAuthEnabled(s)] :
                  s \in {t \in Settings : ~RefusesToStart(t)}}
  /\ sessions = <<>> /\ requests = {} /\ opened = 0
  /\ session = Unpaired /\ deciding = {} /\ deciders = {} /\ crowded = {}

-----------------------------------------------------------------------------
(* MCP sessions *)

\* hold: counted until the response or the socket closes.
Hold(entry) == [entry EXCEPT !.busy = @ + 1]
NextRequest == CHOOSE n \in 1..MaxRequests : n \notin {r.n : r \in requests}
Request(i) == [n |-> NextRequest, session |-> i, held |-> TRUE, ends |-> Ends]

\* variant: one idle one, however many are over
CrowdedOne(all) ==
  {k \in DOMAIN all : /\ Len(all) > MaxSessions /\ all[k].busy = 0
                      /\ \A j \in 1..(k - 1) : all[j].busy > 0}

\* Oldest first, the idle ones, until the map is back at the cap.
Crowded(all) ==
  LET Idle(k) == Cardinality({j \in 1..k : all[j].busy = 0})
      over == Len(all) - MaxSessions
  IN {k \in DOMAIN all : all[k].busy = 0 /\ Idle(k) <= over}

\* handleMcp without a session id: an initialize request opens one.
Initialize(caller) ==
  /\ ~server.console /\ Authenticated(caller)
  /\ opened < MaxOpened /\ Cardinality(requests) < MaxRequests
  /\ LET all == Append(sessions, [id |-> opened + 1, client |-> caller, busy |-> 1])
     IN /\ sessions' = Keeping(all, DOMAIN all \ Crowded(all))
        /\ crowded' = crowded \cup {[id |-> all[k].id, served |-> Busy(all[k].id)] : k \in Crowded(all)}
  /\ requests' = requests \cup {Request(opened + 1)}
  /\ opened' = opened + 1
  /\ UNCHANGED <<server, session, deciding, deciders>>

\* A request of a session: 404 when it is gone, 403 when it is another
\* caller's, else the session is the last used and held.
Use(caller, i) ==
  /\ ~server.console /\ Authenticated(caller)
  /\ IsOpen(i) /\ Entry(i).client = caller /\ Cardinality(requests) < MaxRequests
  /\ sessions' = Append(Rest(i), Hold(Entry(i)))
  /\ requests' = requests \cup {Request(i)}
  /\ UNCHANGED <<server, opened, session, deciding, deciders, crowded>>

\* variant: each end of a request releases its session
CloseEach(r, end) ==
  /\ end \in r.ends
  /\ sessions' = [k \in DOMAIN sessions |->
       IF sessions[k].id = r.session THEN [sessions[k] EXCEPT !.busy = @ - 1] ELSE sessions[k]]
  /\ requests' = (requests \ {r}) \cup (IF r.ends = {end} THEN {} ELSE {[r EXCEPT !.ends = @ \ {end}]})
  /\ UNCHANGED <<server, opened, session, deciding, deciders, crowded>>

\* One end of a request closes: the first releases the session, once.
Close(r, end) ==
  /\ end \in r.ends
  /\ sessions' = [k \in DOMAIN sessions |->
       IF r.held /\ sessions[k].id = r.session THEN [sessions[k] EXCEPT !.busy = @ - 1] ELSE sessions[k]]
  /\ requests' = (requests \ {r}) \cup
       (IF r.ends = {end} THEN {} ELSE {[r EXCEPT !.held = FALSE, !.ends = @ \ {end}]})
  /\ UNCHANGED <<server, opened, session, deciding, deciders, crowded>>

\* A socket that died never closes a pipelined response.
NeverCloses(r) ==
  /\ r.ends = {"response"}
  /\ requests' = requests \ {r}
  /\ UNCHANGED <<server, sessions, opened, session, deciding, deciders, crowded>>

\* A request of the client's that asks for its session's end is used like any
\* other; then onsessionclosed, or the transport's close, drops the session,
\* whatever else it serves.
EndSession(r) ==
  /\ IsOpen(r.session)
  /\ sessions' = Rest(r.session)
  /\ UNCHANGED <<server, requests, opened, session, deciding, deciders, crowded>>

-----------------------------------------------------------------------------
(* The operator's pages *)

\* /pair: the first page to send the code gets the console's session.
Pair(page) ==
  /\ server.console /\ session = Unpaired
  /\ session' = page
  /\ UNCHANGED <<server, sessions, requests, opened, deciding, deciders, crowded>>

\* /unpair: the page leaves; the code stays spent.
Unpair(page) ==
  /\ server.console /\ session = page
  /\ session' = Left
  /\ UNCHANGED <<server, sessions, requests, opened, deciding, deciders, crowded>>

\* approve and deny are let in with the session, and their body read; ...
LetIn(page) ==
  /\ server.console /\ session = page
  /\ deciding' = deciding \cup {page}
  /\ UNCHANGED <<server, sessions, requests, opened, session, deciders, crowded>>

\* ... the page may have left by the time it decides, or is refused, for another
\* task or digest than it drew. What a decision does is Approvals.
DecideTask(page) ==
  /\ page \in deciding /\ deciding' = deciding \ {page}
  /\ deciders' \in {deciders, deciders \cup {page}}
  /\ UNCHANGED <<server, sessions, requests, opened, session, crowded>>

Next ==
  \/ \E caller \in Callers \cup Strangers : Initialize(caller)
  \/ \E caller \in Callers \cup Strangers, i \in 1..opened : Use(caller, i)
  \/ \E r \in requests : (\E end \in Ends : Close(r, end)) \/ NeverCloses(r) \/ EndSession(r)
  \/ \E page \in Pages : Pair(page) \/ Unpair(page) \/ LetIn(page) \/ DecideTask(page)

Spec == Init /\ [][Next]_httpVars

-----------------------------------------------------------------------------
(* Properties *)

TypeOK ==
  /\ server \in [console : BOOLEAN, oauth : BOOLEAN]
  /\ \A k \in DOMAIN sessions : sessions[k].client \in Callers /\ sessions[k].busy \in 0..MaxRequests
  /\ session \in Pages \cup {Unpaired, Left}

\* A session is never ended under a call it is serving: the count that keeps
\* it is the number of its requests still open, whichever end of each closes
\* first, and none ended to make room served one. At most one page decides on
\* a console, and none on an endpoint an agent can reach (hold, handleMcp,
\* handleApprovals).
ServingIsKept ==
  /\ \A k \in DOMAIN sessions : sessions[k].busy = Busy(sessions[k].id)
  /\ \A e \in crowded : e.served = 0
  /\ Cardinality(deciders) <= 1 /\ (deciders # {} => opened = 0)

\* The map comes back to its cap as soon as it can: after a session is opened
\* it is over the cap only if every session is serving a request (handleMcp).
BackToTheCap ==
  [][opened' # opened =>
       \/ Len(sessions') <= MaxSessions
       \/ \A k \in DOMAIN sessions' : sessions'[k].busy > 0]_httpVars
=============================================================================
