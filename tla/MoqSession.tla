------------------------------ MODULE MoqSession ------------------------------
(***************************************************************************)
(* A MOQ session of core/moq between its transport and the backend: the    *)
(* owner goroutine of the connection (server.go), moqtransport's message   *)
(* loop, which runs HandleSubscribe and inside it the whole set-up of the  *)
(* session (session_subscribe_handler.go, session.go), the goroutines and  *)
(* readers of the subscription manager (subscription.go and the input      *)
(* handlers), and Stop of the server.                                      *)
(*                                                                         *)
(* moqtransport is external and taken as subscription.go:145-149 describes *)
(* it: the message loop is one goroutine, so a request of the server is    *)
(* answered only while no SUBSCRIBE is being handled.  A request whose     *)
(* context is cancelled may still be answered.  Of the backend only what   *)
(* the session sees is here (DepartureFunnel has the rest, including the   *)
(* reconciler).  Of an output track there is what SUBSCRIBE, the writers   *)
(* and Close share, its adapter (track_adapter.go); what the samples say   *)
(* and in which order they go out is in ClientView.                        *)
(***************************************************************************)
EXTENDS Integers, Sequences, FiniteSets

CONSTANTS
  Sessions,
  Addr,      \* remote address of each: the key of the server's map
  Tries,     \* bound: SUBSCRIBEs each client sends before it is admitted
  Inputs,    \* input tracks, in the order they are subscribed to
  Outputs,   \* output tracks to announce
  Nothing

Kinds == {Inputs[i] : i \in DOMAIN Inputs}
Addresses == {Addr[s] : s \in Sessions}
Attempts(s) == 1..Tries[s]

ASSUME MoqAssumption ==
  /\ Tries \in [Sessions -> Nat]
  /\ Addr \in [Sessions -> Addresses]
  /\ Inputs \in Seq(Kinds) /\ Inputs # <<>>
  /\ Nothing \notin Sessions

VARIABLES
  transport,  \* "none", "up", "gone"
  moq,        \* moqtransport.Session: "new", "open" after Run, "closed"
  owner,      \* where the connection's goroutine is
  sessions,   \* MoqServer.sessions
  server,     \* "running", "stopping" while Stop holds sessionsMu, "stopped"
  toClose,    \* the sessions Stop has still to close
  missed,     \* history: the map lost the session, or it came after Stop
  loop,       \* what the message loop is doing
  tried,      \* SUBSCRIBEs handled before admission
  current,    \* subscriptionMgr: the attempt it was made for, or 0
  handler,    \* whether connectionHandler is set
  backend,    \* of this session: "none", "active", "departed"
  authenticated,
  closing,    \* how far MoqSession.Close is
  overtaken,  \* history: the last Close found no handler because set-up was on
  announced,  \* per attempt: the outputs whose announcement was answered
  connected,  \* attempts whose manager has the connection handler
  cancelled,  \* attempts whose manager has been closed
  stage,      \* per attempt: the goroutine of handleInputSubscriptions
  reader,     \* per attempt and kind: the input handler
  dropped,    \* history: kinds of which a set-up session dropped an object
  writing,    \* output tracks a sample is written to that has found no publisher
  buffered,   \* output tracks whose adapter keeps samples
  published   \* output tracks whose adapter has a publisher

ownerVars == <<transport, moq, owner>>
serverVars == <<sessions, server, toClose, missed>>
setupVars == <<loop, tried, handler, backend, authenticated>>
closeVars == <<closing, overtaken>>
managerVars == <<announced, connected, cancelled>>
inputVars == <<stage, reader, dropped>>
outputVars == <<writing, buffered, published>>
trackVars == <<inputVars, outputVars>>
vars == <<ownerVars, serverVars, setupVars, current, closeVars, managerVars, trackVars>>


-------------------------------------------------------------------------------
(* The transport, and the owner goroutine up to the close.                 *)

\* acceptLoop, or the WebTransport upgrade, starts the owner.
Connect(s) ==
  /\ transport[s] = "none"
  /\ server = "running"
  /\ transport' = [transport EXCEPT ![s] = "up"]
  /\ owner' = [owner EXCEPT ![s] = "starting"]
  /\ UNCHANGED <<moq, serverVars, setupVars, current, closeVars, managerVars, trackVars>>

\* The client goes, or the backend kills the session.
TransportCloses(s) ==
  /\ transport[s] = "up"
  /\ transport' = [transport EXCEPT ![s] = "gone"]
  /\ UNCHANGED <<moq, owner, serverVars, setupVars, current, closeVars, managerVars, trackVars>>

\* SessionHandler.Handle: the other messages are accepted and change nothing.
GoAway(s) ==
  /\ loop[s] = "idle"
  /\ moq[s] = "open"
  /\ TransportCloses(s)

\* registerSession: whoever is mapped under the address is overwritten.
RegisterSession(s) ==
  LET a == Addr[s]
  IN /\ owner[s] = "starting"
     /\ server # "stopping"
     /\ owner' = [owner EXCEPT ![s] = "handshake"]
     /\ sessions' = [sessions EXCEPT ![a] = s]
     /\ missed' = [t \in Sessions |-> \/ missed[t]
                                      \/ t = sessions[a]
                                      \/ t = s /\ server = "stopped"]
     /\ UNCHANGED <<transport, moq, server, toClose, setupVars, current, closeVars,
                    managerVars, trackVars>>

\* moqSession.Run; if it fails the owner goes straight to its deferred calls.
Run(s) ==
  /\ owner[s] = "handshake"
  /\ \/ /\ transport[s] = "up"
        /\ moq[s] = "new"
        /\ moq' = [moq EXCEPT ![s] = "open"]
        /\ owner' = [owner EXCEPT ![s] = "waiting"]
     \/ /\ owner' = [owner EXCEPT ![s] = "leaving"]
        /\ UNCHANGED moq
  /\ UNCHANGED <<transport, serverVars, setupVars, current, closeVars, managerVars, trackVars>>

\* The wait for the transport's end, and moqSession.Close.
OwnerWakes(s) ==
  /\ owner[s] = "waiting"
  /\ transport[s] = "gone"
  /\ moq' = [moq EXCEPT ![s] = "closed"]
  /\ owner' = [owner EXCEPT ![s] = "leaving"]
  /\ UNCHANGED <<transport, serverVars, setupVars, current, closeVars, managerVars, trackVars>>

\* unregisterSession, by address, then session.Close.
UnregisterSession(s) ==
  LET a == Addr[s]
  IN /\ owner[s] = "leaving"
     /\ server # "stopping"
     /\ owner' = [owner EXCEPT ![s] = "closing"]
     /\ closing' = [closing EXCEPT ![s] = "handler"]
     /\ sessions' = [sessions EXCEPT ![a] = Nothing]
     /\ missed' = [t \in Sessions |-> missed[t] \/ (t = sessions[a] /\ t # s)]
     /\ UNCHANGED <<transport, moq, server, toClose, setupVars, current, overtaken,
                    managerVars, trackVars>>

-------------------------------------------------------------------------------
(* The message loop: HandleSubscribe and SetNodeConfig.                    *)

\* A ticket, or none where that is allowed, is rejected, or set-up begins.
Verdicts == {"idle", "manager"}

\* A SUBSCRIBE of a session that is not authenticated; without an acceptable
\* ticket it is rejected and nothing changes.
HandleSubscribe(s) ==
  /\ loop[s] = "idle"
  /\ moq[s] = "open"
  /\ transport[s] = "up"
  /\ ~authenticated[s]
  /\ tried[s] < Tries[s]
  /\ tried' = [tried EXCEPT ![s] = @ + 1]
  /\ \E verdict \in Verdicts : loop' = [loop EXCEPT ![s] = verdict]
  /\ UNCHANGED <<ownerVars, serverVars, handler, backend, authenticated, current, closeVars,
                 managerVars, trackVars>>

\* Seeded bug: the announcements are made in line, and waited for.
StartManager_AnnounceInline(s) ==
  LET n == tried[s]
  IN /\ loop[s] = "manager"
     /\ current' = [current EXCEPT ![s] = n]
     /\ announced[s][n] = Outputs
     /\ stage' = [stage EXCEPT ![s][n] = [i |-> 1, at |-> "prefix"]]
     /\ loop' = [loop EXCEPT ![s] = "factory"]
     /\ UNCHANGED <<ownerVars, serverVars, tried, handler, backend, authenticated, closeVars,
                    managerVars, reader, dropped, outputVars>>

\* NewSubscriptionManager and Start: the output handlers at once, one goroutine
\* for all inputs, one for each announcement.
StartManager(s) ==
  LET n == tried[s]
  IN /\ loop[s] = "manager"
     /\ current' = [current EXCEPT ![s] = n]
     /\ stage' = [stage EXCEPT ![s][n] = [i |-> 1, at |-> "prefix"]]
     /\ loop' = [loop EXCEPT ![s] = "factory"]
     /\ UNCHANGED <<ownerVars, serverVars, tried, handler, backend, authenticated, closeVars,
                    managerVars, reader, dropped, outputVars>>

\* NewConnectionHandlerE: the session is the backend's from here on.
FactoryReturns(s) ==
  /\ loop[s] = "factory"
  /\ handler' = [handler EXCEPT ![s] = TRUE]
  /\ backend' = [backend EXCEPT ![s] = "active"]
  /\ loop' = [loop EXCEPT ![s] = "sender"]
  /\ UNCHANGED <<ownerVars, serverVars, tried, authenticated, current, closeVars,
                 managerVars, trackVars>>

\* Duplicate identity, server full: back to the state before, and Reject.
FactoryRefuses(s) ==
  /\ loop[s] = "factory"
  /\ handler' = [handler EXCEPT ![s] = FALSE]
  /\ loop' = [loop EXCEPT ![s] = "rollback"]
  /\ UNCHANGED <<ownerVars, serverVars, tried, backend, authenticated, current, closeVars,
                 managerVars, trackVars>>

\* SetReceiveSender returns when its drain has.
SetReceiveSender(s) ==
  /\ loop[s] = "sender"
  /\ loop' = [loop EXCEPT ![s] = "wire"]
  /\ UNCHANGED <<ownerVars, serverVars, tried, handler, backend, authenticated, current,
                 closeVars, managerVars, trackVars>>

Wired(r) == [r EXCEPT !.wired = TRUE]

\* Kept for later readers, given to those that are stored; Connect does nothing.
SetConnectionHandler(s) ==
  LET n == current[s]
  IN /\ loop[s] = "wire"
     /\ connected' = [connected EXCEPT ![s] = @ \cup {n}]
     /\ reader' = [reader EXCEPT ![s][n] =
                     [k \in Kinds |-> IF @[k].stored THEN Wired(@[k]) ELSE @[k]]]
     /\ authenticated' = [authenticated EXCEPT ![s] = TRUE]
     /\ loop' = [loop EXCEPT ![s] = "delegate"]
     /\ UNCHANGED <<ownerVars, serverVars, tried, handler, backend, current, closeVars,
                    announced, cancelled, stage, dropped, outputVars>>

\* Stop of every input handler the manager has stored: its own context is
\* cancelled and its track closed.
StopHandlers(readers) ==
  [k \in Kinds |-> IF readers[k].stored
                   THEN [readers[k] EXCEPT !.stopped = TRUE] ELSE readers[k]]

\* Stop of the output adapters: publishers are closed, what is kept is forgotten.
\* A second Stop returns at once.
StopOutputs(s, n) ==
  IF n \in cancelled[s] THEN UNCHANGED <<buffered, published>>
  ELSE /\ buffered' = [buffered EXCEPT ![s] = {}]
       /\ published' = [published EXCEPT ![s] = {}]

\* SubscriptionManager.Close: unannounce what is announced, cancel, stop.
ManagerCloses(s, n) ==
  /\ announced' = [announced EXCEPT ![s][n] = {}]
  /\ cancelled' = [cancelled EXCEPT ![s] = @ \cup {n}]
  /\ reader' = [reader EXCEPT ![s][n] = StopHandlers(@)]
  /\ StopOutputs(s, n)
  /\ UNCHANGED <<connected, stage, dropped, writing>>

\* SetNodeConfig's fail, after which HandleSubscribe rejects.
Rollback(s) ==
  /\ loop[s] = "rollback"
  /\ ManagerCloses(s, current[s])
  /\ current' = [current EXCEPT ![s] = 0]
  /\ loop' = [loop EXCEPT ![s] = "idle"]
  /\ UNCHANGED <<ownerVars, serverVars, tried, handler, backend, authenticated, closeVars>>

\* A later SUBSCRIBE skips the set-up.
SubscribeAgain(s) ==
  /\ loop[s] = "idle"
  /\ moq[s] = "open"
  /\ transport[s] = "up"
  /\ authenticated[s]
  /\ loop' = [loop EXCEPT ![s] = "delegate"]
  /\ UNCHANGED <<ownerVars, serverVars, tried, handler, backend, authenticated, current,
                 closeVars, managerVars, trackVars>>

\* AddPublisher: the publisher is installed and takes what was kept, whether or
\* not the adapter has been stopped.
AddPublisher(s, o) ==
  /\ published' = [published EXCEPT ![s] = @ \cup {o}]
  /\ buffered' = [buffered EXCEPT ![s] = @ \ {o}]

\* Any SUBSCRIBE that was not rejected: for an output track, or just accepted.
Delegate(s) ==
  /\ loop[s] = "delegate"
  /\ loop' = [loop EXCEPT ![s] = "idle"]
  /\ \/ \E o \in Outputs : AddPublisher(s, o)
     \/ UNCHANGED <<buffered, published>>
  /\ UNCHANGED <<ownerVars, serverVars, tried, handler, backend, authenticated, current,
                 closeVars, managerVars, inputVars, writing>>

-------------------------------------------------------------------------------
(* The output tracks, written by the mixer and by the bouncer's goroutine.  *)

Closed(s) == current[s] \in cancelled[s]

\* WriteSample under the read lock.  With a publisher the sample is sent, on a
\* stopped adapter it is an error; neither changes anything here.
WriteSample(s, o) ==
  /\ backend[s] # "none"
  /\ ~Closed(s)
  /\ o \notin published[s] \cup writing[s]
  /\ writing' = [writing EXCEPT ![s] = @ \cup {o}]
  /\ UNCHANGED <<ownerVars, serverVars, setupVars, current, closeVars, managerVars, inputVars,
                 buffered, published>>

\* Seeded bug: what the read lock showed is believed.
StillUnread_Believed(s, o) == ~Closed(s)

\* "Late publisher could have arrived", or Stop.
StillUnread(s, o) == ~Closed(s) /\ o \notin published[s]

\* Under the write lock: kept, or sent after all, or an error.
BufferSample(s, o) ==
  /\ o \in writing[s]
  /\ writing' = [writing EXCEPT ![s] = @ \ {o}]
  /\ buffered' = [buffered EXCEPT ![s] = IF StillUnread(s, o) THEN @ \cup {o} ELSE @]
  /\ UNCHANGED <<ownerVars, serverVars, setupVars, current, closeVars, managerVars, inputVars,
                 published>>

-------------------------------------------------------------------------------
(* The manager's goroutines.  A request is answered by the message loop, or *)
(* ends with its context, the MOQ session or the transport.                 *)

Answered(s) == loop[s] = "idle" /\ moq[s] = "open" /\ transport[s] = "up"
Abandoned(s, n) == n \in cancelled[s] \/ moq[s] = "closed" \/ transport[s] = "gone"

\* doAnnounce... of one output.  One that fails is as one that never ends.
AnnounceOutput(s, n, o) ==
  /\ stage[s][n].at # "none"
  /\ o \notin announced[s][n]
  /\ Answered(s)
  /\ announced' = [announced EXCEPT ![s][n] = @ \cup {o}]
  /\ UNCHANGED <<ownerVars, serverVars, setupVars, current, closeVars, connected, cancelled,
                 trackVars>>

\* Audio, then state, then control; an error skips to the next.
NextKind(i) == IF i = Len(Inputs) THEN [i |-> i, at |-> "end"] ELSE [i |-> i + 1, at |-> "prefix"]

\* SubscribeAnnouncements for the kind's prefix.
HandleAnnouncements(s, n) ==
  LET g == stage[s][n]
  IN /\ g.at = "prefix"
     /\ \E next \in {[g EXCEPT !.at = "track"], NextKind(g.i)} :
          /\ Answered(s) \/ (Abandoned(s, n) /\ next # [g EXCEPT !.at = "track"])
          /\ stage' = [stage EXCEPT ![s][n] = next]
     /\ UNCHANGED <<ownerVars, serverVars, setupVars, current, closeVars, managerVars,
                    reader, dropped, outputVars>>

\* Seeded bug: a new reader is left for SetConnectionHandler to wire.
WiredFromStart_Never(s, n) == FALSE

\* "Wire ConnectionHandler if already set (fixes race condition)".
WiredFromStart(s, n) == n \in connected[s]

\* subscribeTo...Input: the track is there, a handler is made for it, wired if
\* the manager has the connection handler by now, and its reader started.
SubscribeToInput(s, n) ==
  LET g == stage[s][n]
  IN /\ g.at = "track"
     /\ \/ /\ Answered(s)
           /\ stage' = [stage EXCEPT ![s][n].at = "created"]
           /\ reader' = [reader EXCEPT ![s][n][Inputs[g.i]].running = TRUE,
                                       ![s][n][Inputs[g.i]].wired = WiredFromStart(s, n)]
        \/ /\ Answered(s) \/ Abandoned(s, n)
           /\ stage' = [stage EXCEPT ![s][n] = NextKind(g.i)]
           /\ UNCHANGED reader
     /\ UNCHANGED <<ownerVars, serverVars, setupVars, current, closeVars, managerVars,
                    dropped, outputVars>>

\* Only now the manager knows the handler, for Close and SetConnectionHandler.  It
\* is stored in a manager that has been closed, too.
StoreHandler(s, n) ==
  LET g == stage[s][n]
  IN /\ g.at = "created"
     /\ reader' = [reader EXCEPT ![s][n][Inputs[g.i]].stored = TRUE]
     /\ stage' = [stage EXCEPT ![s][n] = NextKind(g.i)]
     /\ UNCHANGED <<ownerVars, serverVars, setupVars, current, closeVars, managerVars,
                    dropped, outputVars>>

\* processObject: forwarded, or, without a connection handler, counted and dropped.
ProcessObject(s, n, k) ==
  /\ reader[s][n][k].running
  /\ transport[s] = "up"
  /\ dropped' = [dropped EXCEPT ![s] =
       IF ~reader[s][n][k].wired /\ authenticated[s] /\ n = current[s] THEN @ \cup {k} ELSE @]
  /\ UNCHANGED <<ownerVars, serverVars, setupVars, current, closeVars, managerVars,
                 stage, reader, outputVars>>

NoReader == [running |-> FALSE, wired |-> FALSE, stored |-> FALSE, stopped |-> FALSE]

\* The read loop sees its context cancelled.
ReadLoopStops(s, n, k) ==
  /\ reader[s][n][k].running
  /\ reader[s][n][k].stopped
  /\ reader' = [reader EXCEPT ![s][n][k] = NoReader]
  /\ UNCHANGED <<ownerVars, serverVars, setupVars, current, closeVars, managerVars,
                 stage, dropped, outputVars>>

\* A read fails.  Audio and state end only at an EOF, which may be what they
\* get, and go round again at any other error; control ends at any.
ReadFails(s, n, k) ==
  /\ reader[s][n][k].running
  /\ moq[s] = "closed" \/ transport[s] = "gone"
  /\ reader' = [reader EXCEPT ![s][n][k] = NoReader]
  /\ UNCHANGED <<ownerVars, serverVars, setupVars, current, closeVars, managerVars,
                 stage, dropped, outputVars>>

-------------------------------------------------------------------------------
(* MoqSession.Close, called by the owner and by Stop of the server.         *)

\* Seeded bug: only a session that is authenticated has its handler stopped.
HasHandler_Authenticated(s) == authenticated[s]

\* The field is read without a lock, and may not be set yet.
HasHandler(s) == handler[s]

\* connectionHandler.Stop departs the session.
CloseHandler(s) ==
  /\ closing[s] = "handler"
  /\ backend' = [backend EXCEPT ![s] = IF HasHandler(s) THEN "departed" ELSE @]
  /\ overtaken' = [overtaken EXCEPT ![s] = ~handler[s] /\ loop[s] # "idle"]
  /\ closing' = [closing EXCEPT ![s] = "manager"]
  /\ UNCHANGED <<ownerVars, serverVars, loop, tried, handler, authenticated, current,
                 managerVars, trackVars>>

CloseManager(s) ==
  /\ closing[s] = "manager"
  /\ IF current[s] = 0 THEN UNCHANGED <<managerVars, trackVars>> ELSE ManagerCloses(s, current[s])
  /\ closing' = [closing EXCEPT ![s] = "moq"]
  /\ UNCHANGED <<ownerVars, serverVars, setupVars, current, overtaken>>

CloseMoq(s) ==
  /\ closing[s] = "moq"
  /\ closing' = [closing EXCEPT ![s] = "no"]
  /\ moq' = [moq EXCEPT ![s] = "closed"]
  /\ owner' = [owner EXCEPT ![s] = IF @ = "closing" THEN "done" ELSE @]
  /\ toClose' = toClose \ {s}
  /\ UNCHANGED <<transport, sessions, server, missed, setupVars, current, overtaken,
                 managerVars, trackVars>>

\* MoqServer.Stop: sessionsMu is held until every mapped session is closed.
Stop ==
  /\ server = "running"
  /\ server' = "stopping"
  /\ toClose' = {sessions[a] : a \in Addresses} \ {Nothing}
  /\ UNCHANGED <<ownerVars, sessions, missed, setupVars, current, closeVars, managerVars, trackVars>>

\* Seeded bug: one session is closed, then Stop gives up.
StopCloses_One(s) ==
  /\ server = "stopping"
  /\ s \in toClose
  /\ toClose' = {s}
  /\ closing[s] = "no"
  /\ closing' = [closing EXCEPT ![s] = "handler"]
  /\ UNCHANGED <<ownerVars, sessions, server, missed, setupVars, current, overtaken,
                 managerVars, trackVars>>

\* One after the other.
StopCloses(s) ==
  /\ server = "stopping"
  /\ s \in toClose
  /\ \A t \in toClose : closing[t] = "no"
  /\ closing' = [closing EXCEPT ![s] = "handler"]
  /\ UNCHANGED <<ownerVars, serverVars, setupVars, current, overtaken, managerVars, trackVars>>

Stopped ==
  /\ server = "stopping"
  /\ toClose = {}
  /\ server' = "stopped"
  /\ UNCHANGED <<ownerVars, sessions, toClose, missed, setupVars, current, closeVars,
                 managerVars, trackVars>>

-------------------------------------------------------------------------------
Init ==
  /\ transport = [s \in Sessions |-> "none"] /\ moq = [s \in Sessions |-> "new"]
  /\ owner = [s \in Sessions |-> "none"]
  /\ sessions = [a \in Addresses |-> Nothing] /\ server = "running"
  /\ toClose = {} /\ missed = [s \in Sessions |-> FALSE]
  /\ loop = [s \in Sessions |-> "idle"] /\ tried = [s \in Sessions |-> 0]
  /\ current = [s \in Sessions |-> 0] /\ handler = [s \in Sessions |-> FALSE]
  /\ backend = [s \in Sessions |-> "none"] /\ authenticated = [s \in Sessions |-> FALSE]
  /\ closing = [s \in Sessions |-> "no"] /\ overtaken = [s \in Sessions |-> FALSE]
  /\ announced = [s \in Sessions |-> [n \in Attempts(s) |-> {}]]
  /\ connected = [s \in Sessions |-> {}] /\ cancelled = [s \in Sessions |-> {}]
  /\ stage = [s \in Sessions |-> [n \in Attempts(s) |-> [i |-> 1, at |-> "none"]]]
  /\ reader = [s \in Sessions |-> [n \in Attempts(s) |-> [k \in Kinds |-> NoReader]]]
  /\ dropped = [s \in Sessions |-> {}] /\ writing = [s \in Sessions |-> {}]
  /\ buffered = [s \in Sessions |-> {}] /\ published = [s \in Sessions |-> {}]

SetUp(s) == \/ HandleSubscribe(s) \/ StartManager(s) \/ FactoryReturns(s) \/ FactoryRefuses(s)
            \/ SetReceiveSender(s) \/ SetConnectionHandler(s) \/ Rollback(s)
            \/ Delegate(s)

Close(s) == CloseHandler(s) \/ CloseManager(s) \/ CloseMoq(s)

Inputting(s, n) == \/ HandleAnnouncements(s, n) \/ SubscribeToInput(s, n) \/ StoreHandler(s, n)

Next ==
  \/ Stop \/ Stopped
  \/ \E s \in Sessions :
       \/ Connect(s) \/ TransportCloses(s) \/ GoAway(s) \/ RegisterSession(s) \/ Run(s) \/ OwnerWakes(s)
       \/ UnregisterSession(s) \/ SetUp(s) \/ SubscribeAgain(s) \/ Close(s) \/ StopCloses(s)
       \/ \E o \in Outputs : WriteSample(s, o) \/ BufferSample(s, o)
       \/ \E n \in Attempts(s) :
            \/ Inputting(s, n)
            \/ \E o \in Outputs : AnnounceOutput(s, n, o)
            \/ \E k \in Kinds : \/ ProcessObject(s, n, k) \/ ReadLoopStops(s, n, k)
                                \/ ReadFails(s, n, k)

\* Every goroutine of the server runs, and so do the calls it waits for in the
\* backend (DepartureFunnel: an admission is answered).  A client need not answer,
\* subscribe or leave, and nobody need call Stop.
Fairness ==
  /\ WF_vars(Stopped)
  /\ \A s \in Sessions :
       /\ WF_vars(RegisterSession(s)) /\ WF_vars(Run(s)) /\ WF_vars(OwnerWakes(s))
       /\ WF_vars(UnregisterSession(s)) /\ WF_vars(Close(s)) /\ WF_vars(StopCloses(s))
       /\ WF_vars(loop[s] # "idle" /\ SetUp(s))

Spec == Init /\ [][Next]_vars /\ Fairness

-------------------------------------------------------------------------------
\* Once a client is set up, what it sends reaches the backend: an input handler
\* that exists by then is wired by SetConnectionHandler, a later one finds the
\* connection handler in the manager.  Between the two stands only that no track
\* is answered while set-up holds the message loop.
InputForwarded == \A s \in Sessions : dropped[s] = {}

\* "Stop ConnectionHandler first": once the owner is done with the session and no
\* set-up is under way, the backend has departed it, unless the transport ended
\* while the factory was still building it (the reconciler's case).
ClosedSessionsDepart ==
  \A s \in Sessions :
    owner[s] = "done" /\ loop[s] = "idle" /\ backend[s] = "active" => overtaken[s]

\* "Close all active sessions": a session that is still active after Stop has
\* been closed, unless another of its address took its place in the map, or it
\* came in while Stop was at work.
StopClosesSessions ==
  \A s \in Sessions :
    server = "stopped" /\ owner[s] \in {"handshake", "waiting", "leaving"} =>
      moq[s] = "closed" \/ missed[s]

\* A SUBSCRIBE is answered: set-up never waits for what only the message loop,
\* which it holds, can bring.
SetupReturns == \A s \in Sessions : loop[s] # "idle" ~> loop[s] = "idle"

\* What an adapter keeps waits for a first publisher that will find it: a sample
\* that saw no publisher under the read lock is never put behind one that was
\* installed before it got the write lock, nor into an adapter stopped by then.
BacklogAwaited ==
  \A s \in Sessions : \A o \in buffered[s] : o \notin published[s] /\ ~Closed(s)
================================================================================
