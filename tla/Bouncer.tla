-------------------------------- MODULE Bouncer --------------------------------
(***************************************************************************)
(* One Bouncer (direct/bouncer.go) between a client and the backend, with  *)
(* everything that meets in it:                                            *)
(*   Senders     goroutines of the client in SendString                    *)
(*   relay       the bouncer's dispatch goroutine                          *)
(*   disp        the backend's dispatcher in handleStringMessage           *)
(*   Departers   calls of DepartNode that reach this bouncer: the owner    *)
(*               goroutine's, a legacy kick's on the relay, an orphan's    *)
(* DepartureFunnel takes Quiesce, Stop and the capture before them as one  *)
(* step (Sever); this module shows what makes that step a barrier.         *)
(*                                                                         *)
(* Left out: DataChIn/DataChOut, which have the same code, and the other   *)
(* bouncers the dispatcher delivers to.                                    *)
(***************************************************************************)
EXTENDS Naturals, Sequences, FiniteSets

CONSTANTS Senders,      \* client goroutines that send
          Departers,    \* subset of {"owner", "kick", "orphan"}
          InCap,        \* capacity of StringChIn
          OutCap,       \* capacity of StringChOut
          None

ASSUME BouncerAssumption ==
  /\ {"owner", "kick"} \subseteq Departers
  /\ Departers \subseteq {"owner", "kick", "orphan"}
  /\ InCap \in Nat \ {0}
  /\ OutCap \in Nat \ {0}
  /\ None \notin Departers \cup {"done"}
  /\ None \notin Senders

VARIABLES
  chIn,      \* StringChIn
  chOut,     \* StringChOut
  quit,      \* the quit channel is closed
  stopped,   \* Bouncer.stopped, under sendMu
  writer,    \* the departer at sendMu's write side, waiting or inside
  sendPc,    \* [Senders -> {"idle", "check", "select"}]: read side held unless idle
  once,      \* stopOnce: None, the departer inside, or "done"
  attached,  \* a receiveSender is installed
  relay,     \* the dispatch goroutine: [pc, msg]
  disp,      \* the backend dispatcher: [pc, msg]
  lock,      \* the dispatcher holds the backend mutex
  mapped,    \* BouncersByUuid has this bouncer
  cas,       \* the session's entry has left Live
  depPc,     \* [Departers -> DepPc]: where DepartNode is
  severed,   \* the transport is closed
  stalled,   \* the client does not read
  kicked,    \* a kick has been issued (once)
  legacy     \* the session has no transport handle: a kick calls Stop

bvars == <<chIn, chOut, quit, stopped, writer, sendPc, once, attached, relay, disp, lock,
           mapped, cas, depPc, severed, stalled, kicked, legacy>>

\* "own": a write of this client; "kick": a kick of it, issued by another
\* client; "tomb": its departure's tombstones.
Message == {"own", "kick", "tomb"}

DepPc == {"idle", "capture", "once", "close", "lock", "barrier", "join",
          "announce", "release", "done"}

BouncerInit ==
  /\ chIn = <<>>
  /\ chOut = <<>>
  /\ quit = FALSE
  /\ stopped = FALSE
  /\ writer = None
  /\ sendPc = [s \in Senders |-> "idle"]
  /\ once = None
  /\ attached = TRUE
  /\ relay = [pc |-> "check", msg |-> None]
  /\ disp = [pc |-> "idle", msg |-> None]
  /\ lock = FALSE
  /\ mapped = TRUE
  /\ cas = FALSE
  /\ depPc = [d \in Departers |-> "idle"]
  /\ severed = FALSE
  /\ stalled = FALSE
  /\ kicked = FALSE
  /\ legacy \in BOOLEAN

-------------------------------------------------------------------------------
(* SendString.                                                             *)

senderRest == <<chOut, quit, stopped, writer, once, attached, relay, disp, lock, mapped, cas,
                depPc, severed, stalled, kicked, legacy>>

\* sendMu.RLock: a waiting writer keeps new readers out.
SendEnter(s) ==
  /\ sendPc[s] = "idle"
  /\ writer = None
  /\ sendPc' = [sendPc EXCEPT ![s] = "check"]
  /\ UNCHANGED <<chIn, senderRest>>

SendCheck(s) ==
  /\ sendPc[s] = "check"
  /\ sendPc' = [sendPc EXCEPT ![s] = IF stopped THEN "idle" ELSE "select"]
  /\ UNCHANGED <<chIn, senderRest>>

\* The select: enqueue when there is room, or drop when quit is closed; with
\* both ready either may happen.
SendEnqueue(s) ==
  /\ sendPc[s] = "select"
  /\ Len(chIn) < InCap
  /\ chIn' = Append(chIn, "own")
  /\ sendPc' = [sendPc EXCEPT ![s] = "idle"]
  /\ UNCHANGED senderRest

SendDrop(s) ==
  /\ sendPc[s] = "select"
  /\ quit
  /\ sendPc' = [sendPc EXCEPT ![s] = "idle"]
  /\ UNCHANGED <<chIn, senderRest>>

\* Another client's moderation command.
KickIssued ==
  /\ ~kicked
  /\ Len(chIn) < InCap
  /\ kicked' = TRUE
  /\ chIn' = Append(chIn, "kick")
  /\ UNCHANGED <<chOut, quit, stopped, writer, sendPc, once, attached, relay, disp, lock,
                 mapped, cas, depPc, severed, stalled, legacy>>

-------------------------------------------------------------------------------
(* The backend dispatcher: take a message, deliver it under the mutex.     *)

dispRest == <<quit, stopped, writer, sendPc, once, attached, relay, mapped, cas, depPc,
              severed, stalled, kicked, legacy>>

DispTake ==
  /\ disp.pc = "idle"
  /\ chIn # <<>>
  /\ disp' = [pc |-> "handle", msg |-> Head(chIn)]
  /\ chIn' = Tail(chIn)
  /\ UNCHANGED <<chOut, lock, dispRest>>

DispLock ==
  /\ disp.pc = "handle"
  /\ lock' = mapped
  /\ disp' = IF mapped THEN [disp EXCEPT !.pc = "deliver"] ELSE [pc |-> "idle", msg |-> None]
  /\ UNCHANGED <<chIn, chOut, dispRest>>

\* DeliverString: into StringChOut, or nowhere once quit is closed.
DispDeliver ==
  /\ disp.pc = "deliver"
  /\ Len(chOut) < OutCap
  /\ chOut' = Append(chOut, disp.msg)
  /\ disp' = [pc |-> "idle", msg |-> None]
  /\ lock' = FALSE
  /\ UNCHANGED <<chIn, dispRest>>

\* Seeded bug: a plain channel send.
DispDrop_Never == FALSE /\ UNCHANGED bvars

DispDrop ==
  /\ disp.pc = "deliver"
  /\ quit
  /\ disp' = [pc |-> "idle", msg |-> None]
  /\ lock' = FALSE
  /\ UNCHANGED <<chIn, chOut, dispRest>>

-------------------------------------------------------------------------------
(* The dispatch goroutine.                                                 *)

relayRest == <<chIn, quit, stopped, writer, sendPc, once, attached, disp, lock, mapped,
               stalled, kicked, legacy>>

RelayCheck ==
  /\ relay.pc = "check"
  /\ relay' = [relay EXCEPT !.pc = IF quit THEN "exited" ELSE "select"]
  /\ UNCHANGED <<chOut, cas, depPc, severed, relayRest>>

\* Seeded bug: the blocking select has no quit branch.
RelayQuit_Never == FALSE /\ UNCHANGED bvars

RelayQuit ==
  /\ relay.pc = "select"
  /\ quit
  /\ relay' = [relay EXCEPT !.pc = "exited"]
  /\ UNCHANGED <<chOut, cas, depPc, severed, relayRest>>

RelayTake ==
  /\ relay.pc = "select"
  /\ chOut # <<>>
  /\ relay' = [pc |-> "forward", msg |-> Head(chOut)]
  /\ chOut' = Tail(chOut)
  /\ UNCHANGED <<cas, depPc, severed, relayRest>>

RelayBack == [pc |-> "check", msg |-> None]

\* inspectIncomingEnvelope has something to do before the message goes on.
KickPending == relay.msg = "kick" /\ ~cas /\ attached

\* The receiver is gone, or the client's transport takes the message; a write
\* to a closed transport fails at once.  After a kick's Stop has returned the
\* message goes on as well.
RelayForward ==
  /\ \/ relay.pc = "forward" /\ ~KickPending
     \/ relay.pc = "kick" /\ depPc["kick"] = "done"
  /\ ~attached \/ ~stalled \/ severed
  /\ relay' = RelayBack
  /\ UNCHANGED <<chOut, cas, depPc, severed, relayRest>>

\* A kick severs the transport.
RelayKill ==
  /\ relay.pc = "forward"
  /\ KickPending
  /\ ~legacy
  /\ severed' = TRUE
  /\ relay' = RelayBack
  /\ UNCHANGED <<chOut, cas, depPc, relayRest>>

\* A session without a transport handle is departed on this goroutine.
RelayStops ==
  /\ relay.pc = "forward"
  /\ KickPending
  /\ legacy
  /\ cas' = TRUE
  /\ depPc' = [depPc EXCEPT !["kick"] = "capture"]
  /\ relay' = [relay EXCEPT !.pc = "kick"]
  /\ UNCHANGED <<chOut, severed, relayRest>>

-------------------------------------------------------------------------------
(* DepartNode and Stop.                                                    *)

departRest == <<chOut, sendPc, relay, disp, lock, stalled, kicked, legacy>>

At(d, pc, next) == depPc[d] = pc /\ depPc' = [depPc EXCEPT ![d] = next]

\* The owner goroutine sees its transport closed.
OwnerBegins ==
  /\ At("owner", "idle", "capture")
  /\ severed /\ ~cas
  /\ cas' = TRUE
  /\ UNCHANGED <<chIn, quit, stopped, writer, once, attached, mapped, severed, departRest>>

\* The reconciler departs an orphan of the same uuid.
OrphanBegins ==
  /\ "orphan" \in Departers
  /\ mapped
  /\ At("orphan", "idle", "capture")
  /\ UNCHANGED <<chIn, quit, stopped, writer, once, attached, mapped, cas, severed, departRest>>

\* Phase 2 reads the map under the mutex; without a bouncer there is nothing
\* to stop.
Capture(d) ==
  /\ ~lock
  /\ At(d, "capture", IF mapped THEN "once" ELSE "announce")
  /\ UNCHANGED <<chIn, quit, stopped, writer, once, attached, mapped, cas, severed, departRest>>

\* stopOnce.Do: one caller runs the body, the others wait for it to end.
EnterOnce(d) ==
  /\ once = None
  /\ At(d, "once", "close")
  /\ once' = d
  /\ UNCHANGED <<chIn, quit, stopped, writer, attached, mapped, cas, severed, departRest>>

\* Seeded bug: callers that lose the Once do not wait for the winner.
OnceDone_NoWait(d) ==
  /\ once # None
  /\ At(d, "once", "announce")
  /\ UNCHANGED <<chIn, quit, stopped, writer, once, attached, mapped, cas, severed, departRest>>

OnceDone(d) ==
  /\ once = "done"
  /\ At(d, "once", "announce")
  /\ UNCHANGED <<chIn, quit, stopped, writer, once, attached, mapped, cas, severed, departRest>>

CloseQuit(d) ==
  /\ At(d, "close", "lock")
  /\ quit' = TRUE
  /\ UNCHANGED <<chIn, stopped, writer, once, attached, mapped, cas, severed, departRest>>

SendMuLock(d) ==
  /\ At(d, "lock", "barrier")
  /\ writer' = d
  /\ UNCHANGED <<chIn, quit, stopped, once, attached, mapped, cas, severed, departRest>>

\* Seeded bug: stopped is set without waiting for the senders inside.
Barrier_NoWait(d) ==
  /\ At(d, "barrier", "join")
  /\ stopped' = TRUE
  /\ writer' = None
  /\ UNCHANGED <<chIn, quit, once, attached, mapped, cas, severed, departRest>>

Barrier(d) ==
  /\ \A s \in Senders : sendPc[s] = "idle"
  /\ At(d, "barrier", "join")
  /\ stopped' = TRUE
  /\ writer' = None
  /\ UNCHANGED <<chIn, quit, once, attached, mapped, cas, severed, departRest>>

Join(d) ==
  /\ relay.pc = "exited"
  /\ At(d, "join", "announce")
  /\ attached' = FALSE
  /\ once' = "done"
  /\ UNCHANGED <<chIn, quit, stopped, writer, mapped, cas, severed, departRest>>

Announce(d) ==
  /\ Len(chIn) < InCap
  /\ At(d, "announce", "release")
  /\ chIn' = Append(chIn, "tomb")
  /\ UNCHANGED <<quit, stopped, writer, once, attached, mapped, cas, severed, departRest>>

Release(d) ==
  /\ ~lock
  /\ At(d, "release", "done")
  /\ mapped' = FALSE
  /\ UNCHANGED <<chIn, quit, stopped, writer, once, attached, cas, severed, departRest>>

\* The transport: it closes for good, and its client reads or does not.
TransportCloses ==
  /\ ~severed
  /\ severed' = TRUE
  /\ UNCHANGED <<chIn, quit, stopped, writer, once, attached, mapped, cas, depPc, chOut,
                 sendPc, relay, disp, lock, stalled, kicked, legacy>>

ClientStalls ==
  /\ stalled' = ~stalled
  /\ UNCHANGED <<chIn, quit, stopped, writer, once, attached, mapped, cas, depPc, chOut,
                 sendPc, relay, disp, lock, severed, kicked, legacy>>

-------------------------------------------------------------------------------
SendStep(s) == SendEnter(s) \/ SendCheck(s) \/ SendEnqueue(s) \/ SendDrop(s)

DispStep == DispTake \/ DispLock \/ DispDeliver \/ DispDrop

RelayStep ==
  \/ RelayCheck
  \/ RelayQuit
  \/ RelayTake
  \/ RelayForward
  \/ RelayKill
  \/ RelayStops

DepartStep(d) ==
  \/ Capture(d)
  \/ EnterOnce(d)
  \/ OnceDone(d)
  \/ CloseQuit(d)
  \/ SendMuLock(d)
  \/ Barrier(d)
  \/ Join(d)
  \/ Announce(d)
  \/ Release(d)

BouncerNext ==
  \/ \E s \in Senders : SendStep(s)
  \/ KickIssued
  \/ DispStep
  \/ RelayStep
  \/ OwnerBegins
  \/ OrphanBegins
  \/ \E d \in Departers : DepartStep(d)
  \/ TransportCloses
  \/ ClientStalls

BouncerSpec == BouncerInit /\ [][BouncerNext]_bvars

\* Goroutines that can run do run.  Waiting for the mutex, for room in a channel
\* or for the senders inside sendMu is first come first served: strongly fair.
BouncerFairness ==
  /\ \A s \in Senders : WF_bvars(sendPc[s] # "idle" /\ SendStep(s))
  /\ WF_bvars(DispStep)
  /\ WF_bvars(RelayStep)
  /\ WF_bvars(OwnerBegins)
  /\ \A d \in Departers : SF_bvars(DepartStep(d))

FairBouncerSpec == BouncerSpec /\ BouncerFairness

-------------------------------------------------------------------------------
(* Properties.                                                             *)

StopReturned(d) == depPc[d] \in {"announce", "release", "done"} /\ once # None

OwnWrites(ch) == Cardinality({i \in DOMAIN ch : ch[i] = "own"})

\* "Stop returned" is a hard barrier for the inbound direction: from the moment
\* any caller's Stop has returned, nothing of this client is enqueued, so the
\* tombstones that follow stay last (sendMu in bouncer.go).
StopIsInboundBarrier ==
  [][(\E d \in Departers : StopReturned(d)) => OwnWrites(chIn') <= OwnWrites(chIn)]_bvars

\* And for the outbound direction: the dispatch goroutine has exited and will
\* call no receiver, whichever caller of Stop one asks.
StopIsOutboundBarrier ==
  \A d \in Departers : StopReturned(d) => relay.pc = "exited" /\ ~attached

\* The departure of a severed session reaches its end, whatever the client, the
\* senders, the dispatcher and a second caller of Stop are doing.
DepartureCompletes == (depPc["owner"] = "capture") ~> (depPc["owner"] = "done")

\* Sends in either direction never block past Stop.
NoSendBlocksPastStop ==
  /\ \A s \in Senders : (quit /\ sendPc[s] = "select") ~> (sendPc[s] = "idle")
  /\ (quit /\ disp.pc = "deliver") ~> (disp.pc = "idle")

\* bouncer.go, Stop: "Idempotent; safe to call from multiple goroutines."  So the
\* departure of a kicked session without a transport handle ends as well.
KickedDeparts == (depPc["kick"] = "capture") ~> (depPc["kick"] = "done")
===============================================================================
