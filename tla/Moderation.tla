------------------------------ MODULE Moderation ------------------------------
(***************************************************************************)
(* Kicks.  A moderator's kick is a policy key in the cache with a deadline *)
(* (0: for ever).  It acts twice: KickGate (core/space/kick_gate.go)       *)
(* mirrors the cache and the authoriser asks it before a connection is     *)
(* admitted, and the client of an admitted session (core/space/            *)
(* bouncer_client.go) looks for a kick of its own uuid or roles in what is *)
(* broadcast and in the backfill it gets once it is attached.  A sweeper   *)
(* goroutine takes expired kicks out of the gate and sends their           *)
(* tombstones through the same channel as every other op.                  *)
(*                                                                         *)
(* Here a session has a transport handle (a kick of one that has not is in *)
(* Bouncer), a session's inbox is unbounded (Bouncer has the bound), and a *)
(* read of the cache is one step (StateStore has the steps).               *)
(***************************************************************************)
EXTENDS Integers, Sequences, FiniteSets

CONSTANTS
  Conns,      \* sessions
  Keys,       \* kick keys: {uuid}.kicked and roles-kicked.{role}
  Concerned,  \* the sessions each key is about: that uuid's, or the role's
  Minutes,    \* durations moderators use; 0 is for ever
  ChanCap,    \* capacity of StringChIn
  MaxOps,     \* bound: commands of moderators
  MaxTime,    \* bound: the clock
  Nothing

Forever == 0

ASSUME ModerationAssumption ==
  /\ Concerned \in [Keys -> SUBSET Conns]
  /\ Minutes \subseteq Nat
  /\ ChanCap \in Nat \ {0} /\ MaxOps \in Nat /\ MaxTime \in Nat \ {0}
  /\ Nothing \notin Nat
  /\ Nothing \notin [op : [key : Keys, tomb : BOOLEAN, deadline : Nat, id : Nat],
                     next : {"gate", "broadcast"}]

VARIABLES
  now,        \* wall clock, in minutes; positive
  issued,     \* bound: commands so far
  stringChIn, \* the backend's input channel
  opId,       \* OpIDCounter
  cache,      \* the latest op of each key
  dispatching,\* the op the dispatcher is handling, and what it does next
  gate,       \* KickGate.entity and KickGate.role: deadline or Nothing
  emitting,   \* keys the sweeper has taken from the gate and not yet emitted
  shutdown,   \* "no", then "sweeper" while Stop joins it, then "quit"
  phase,      \* of each session
  resume,     \* the op id a client resumes from
  backfill,   \* where BackfillBouncer is, per session
  toDeliver,  \* what it has read from the cache and not yet delivered
  inbox,      \* the session's bouncer channel
  admission   \* history: what the gate knew when a session was authorised

busVars == <<issued, stringChIn, opId, cache, dispatching>>
gateVars == <<gate, emitting, shutdown>>
sessionVars == <<phase, resume, backfill, toDeliver, inbox, admission>>
vars == <<now, busVars, gateVars, sessionVars>>

Op(k, tomb, deadline) == [key |-> k, tomb |-> tomb, deadline |-> deadline]
Stamped(op, id) == [key |-> op.key, tomb |-> op.tomb, deadline |-> op.deadline, id |-> id]

-------------------------------------------------------------------------------
(* Moderators, whose commands Commands grants, and the clock.              *)

Tick == now < MaxTime /\ now' = now + 1 /\ UNCHANGED <<busVars, gateVars, sessionVars>>

KickExpiry(minutes) == IF minutes = 0 THEN Forever ELSE now + minutes

Enqueue(op) == Len(stringChIn) < ChanCap /\ stringChIn' = Append(stringChIn, op)

Command(op) ==
  /\ issued < MaxOps
  /\ issued' = issued + 1
  /\ Enqueue(op)
  /\ UNCHANGED <<now, opId, cache, dispatching, gateVars, sessionVars>>

Kick(k) == \E minutes \in Minutes : Command(Op(k, FALSE, KickExpiry(minutes)))
Unkick(k) == Command(Op(k, TRUE, 0))

-------------------------------------------------------------------------------
(* The dispatcher goroutine: cache, gate, broadcast.                       *)

Dispatch ==
  /\ dispatching = Nothing
  /\ shutdown # "quit"
  /\ stringChIn # <<>>
  /\ LET op == Stamped(Head(stringChIn), opId + 1)
     IN /\ cache' = [cache EXCEPT ![op.key] = op]
        /\ dispatching' = [op |-> op, next |-> "gate"]
  /\ stringChIn' = Tail(stringChIn)
  /\ opId' = opId + 1
  /\ UNCHANGED <<now, issued, gateVars, sessionVars>>

\* Seeded bug: a tombstone leaves the gate as it is.
Applied_IgnoreTombstone(op) ==
  [gate EXCEPT ![op.key] = IF op.tomb THEN @ ELSE op.deadline]

\* KickGate.Apply: no order of its own, the last op applied counts.
Applied(op) == [gate EXCEPT ![op.key] = IF op.tomb THEN Nothing ELSE op.deadline]

ApplyToGate ==
  /\ dispatching # Nothing
  /\ dispatching.next = "gate"
  /\ gate' = Applied(dispatching.op)
  /\ dispatching' = [dispatching EXCEPT !.next = "broadcast"]
  /\ UNCHANGED <<now, issued, stringChIn, opId, cache, emitting, shutdown, sessionVars>>

\* Under the backend mutex, to every mapped bouncer.
Broadcast ==
  /\ dispatching # Nothing
  /\ dispatching.next = "broadcast"
  /\ dispatching' = Nothing
  /\ inbox' = [c \in Conns |-> IF phase[c] = "joined" THEN Append(inbox[c], dispatching.op)
                               ELSE inbox[c]]
  /\ UNCHANGED <<now, issued, stringChIn, opId, cache, gateVars,
                 phase, resume, backfill, toDeliver, admission>>

-------------------------------------------------------------------------------
(* The sweeper goroutine.                                                  *)

Expired(d) == d # Nothing /\ d # Forever /\ d <= now

\* sweepOnce, under the gate's lock.  The select may still prefer the ticker to
\* the stop channel that is closed already.
SweepCollect ==
  LET expired == {k \in Keys : Expired(gate[k])}
  IN /\ shutdown # "quit"
     /\ emitting = {}
     /\ expired # {}
     /\ gate' = [k \in Keys |-> IF k \in expired THEN Nothing ELSE gate[k]]
     /\ emitting' = expired
     /\ UNCHANGED <<now, busVars, shutdown, sessionVars>>

\* Seeded bug: only the first of several is emitted.
SweepEmit_First ==
  \E k \in emitting :
    /\ Enqueue(Op(k, TRUE, 0))
    /\ emitting' = {}
    /\ UNCHANGED <<now, issued, opId, cache, dispatching, gate, shutdown, sessionVars>>

\* sweepOnce, after the unlock: emit blocks while StringChIn is full.
SweepEmit ==
  \E k \in emitting :
    /\ Enqueue(Op(k, TRUE, 0))
    /\ emitting' = emitting \ {k}
    /\ UNCHANGED <<now, issued, opId, cache, dispatching, gate, shutdown, sessionVars>>

\* DirectBackend.Stop: StopSweeper, then close(Quit).
Stop ==
  /\ shutdown = "no"
  /\ shutdown' = "sweeper"
  /\ UNCHANGED <<now, busVars, gate, emitting, sessionVars>>

\* Seeded bug: the dispatcher is told to quit before the sweeper is joined.
StopSweeper_QuitFirst ==
  /\ shutdown = "sweeper"
  /\ shutdown' = "quit"
  /\ UNCHANGED <<now, busVars, gate, emitting, sessionVars>>

\* The sweeper returns and is joined: a sweep that has begun runs to its end.
StopSweeper ==
  /\ shutdown = "sweeper"
  /\ emitting = {}
  /\ shutdown' = "quit"
  /\ UNCHANGED <<now, busVars, gate, emitting, sessionVars>>

-------------------------------------------------------------------------------
(* A session: authorised, admitted, attached, backfilled.                  *)

\* Seeded bug: the comparison with the clock is the wrong way round.
IsKicked_LiftedEarly(c) ==
  \E k \in Keys : c \in Concerned[k] /\ gate[k] # Nothing /\ (gate[k] = Forever \/ gate[k] <= now)

IsKicked(c) ==
  \E k \in Keys : c \in Concerned[k] /\ gate[k] # Nothing /\ (gate[k] = Forever \/ gate[k] > now)

\* The last op the gate has applied, and the last one broadcast.
InGate == IF dispatching # Nothing /\ dispatching.next = "gate" THEN opId - 1 ELSE opId
Sent == IF dispatching # Nothing THEN opId - 1 ELSE opId

\* Authorise and AuthoriseWithoutTicket end alike.  A client resumes from an op
\* id it has been sent, or from none.
Authorise(c) ==
  /\ phase[c] = "new"
  /\ ~IsKicked(c)
  /\ phase' = [phase EXCEPT ![c] = "authorised"]
  /\ \E id \in {0, Sent} : resume' = [resume EXCEPT ![c] = id]
  /\ admission' = [admission EXCEPT ![c] = [id |-> InGate, at |-> now]]
  /\ UNCHANGED <<now, busVars, gateVars, backfill, toDeliver, inbox>>

\* newConnectionHandler, all under the backend mutex: the kick function is set
\* before the bouncer is in the map.  The gate is not asked again.
Register(c) ==
  /\ phase[c] = "authorised"
  /\ phase' = [phase EXCEPT ![c] = "joined"]
  /\ UNCHANGED <<now, busVars, gateVars, resume, backfill, toDeliver, inbox, admission>>

\* SetReceiveSender starts the backfill, which first waits.
SetReceiveSender(c) ==
  /\ phase[c] = "joined"
  /\ backfill[c] = "none"
  /\ backfill' = [backfill EXCEPT ![c] = "waiting"]
  /\ UNCHANGED <<now, busVars, gateVars, phase, resume, toDeliver, inbox, admission>>

\* Seeded bug: a resuming client gets nothing.
Backfilled_NothingOnResume(c) ==
  IF resume[c] > 0 THEN {} ELSE {cache[k] : k \in {x \in Keys : ~cache[x].tomb}}

\* Since(resumeOpID) or Snapshot(), without the tombstones.
Backfilled(c) == {cache[k] : k \in {x \in Keys : ~cache[x].tomb /\ cache[x].id > resume[c]}}

BackfillRead(c) ==
  /\ backfill[c] = "waiting"
  /\ phase[c] = "joined"
  /\ backfill' = [backfill EXCEPT ![c] = "read"]
  /\ toDeliver' = [toDeliver EXCEPT ![c] = Backfilled(c)]
  /\ UNCHANGED <<now, busVars, gateVars, phase, resume, inbox, admission>>

BackfillDeliver(c) ==
  /\ phase[c] = "joined"
  /\ \E op \in toDeliver[c] :
       /\ inbox' = [inbox EXCEPT ![c] = Append(@, op)]
       /\ toDeliver' = [toDeliver EXCEPT ![c] = @ \ {op}]
  /\ UNCHANGED <<now, busVars, gateVars, phase, resume, backfill, admission>>

\* The session is over: what was meant for it is dropped.
Over(c, how) ==
  /\ phase' = [phase EXCEPT ![c] = how]
  /\ inbox' = [inbox EXCEPT ![c] = <<>>]
  /\ toDeliver' = [toDeliver EXCEPT ![c] = {}]
  /\ UNCHANGED <<now, busVars, gateVars, resume, backfill, admission>>

\* The deadline is not looked at.
Targets(op, c) == ~op.tomb /\ c \in Concerned[op.key]

\* inspectIncomingEnvelope on the bouncer's goroutine: live.Kill, once.
InspectIncomingEnvelope(c) ==
  /\ phase[c] = "joined"
  /\ inbox[c] # <<>>
  /\ IF Targets(Head(inbox[c]), c) THEN Over(c, "kicked")
     ELSE /\ inbox' = [inbox EXCEPT ![c] = Tail(@)]
          /\ UNCHANGED <<now, busVars, gateVars, phase, resume, backfill, toDeliver, admission>>

Leave(c) == phase[c] = "joined" /\ Over(c, "left")

-------------------------------------------------------------------------------
Init ==
  /\ now = 1 /\ issued = 0 /\ stringChIn = <<>> /\ opId = 0
  /\ cache = [k \in Keys |-> Stamped(Op(k, TRUE, 0), 0)]
  /\ dispatching = Nothing
  /\ gate = [k \in Keys |-> Nothing] /\ emitting = {} /\ shutdown = "no"
  /\ phase = [c \in Conns |-> "new"] /\ resume = [c \in Conns |-> 0]
  /\ backfill = [c \in Conns |-> "none"] /\ toDeliver = [c \in Conns |-> {}]
  /\ inbox = [c \in Conns |-> <<>>]
  /\ admission = [c \in Conns |-> [id |-> 0, at |-> 0]]

Next ==
  \/ Tick \/ Dispatch \/ ApplyToGate \/ Broadcast
  \/ SweepCollect \/ SweepEmit \/ Stop \/ StopSweeper
  \/ \E k \in Keys : Kick(k) \/ Unkick(k)
  \/ \E c \in Conns : \/ Authorise(c) \/ Register(c) \/ SetReceiveSender(c) \/ BackfillRead(c)
                      \/ BackfillDeliver(c) \/ InspectIncomingEnvelope(c) \/ Leave(c)

\* The goroutines of the process run: dispatcher, sweeper, Stop once called, and
\* of each session the attach, the backfill and the bouncer.  Clients, moderators
\* and the clock need not do anything.  Blocked senders of a Go channel are served
\* in order, and a select does not pass over a ready case for ever, hence the
\* strong fairness.
Fairness ==
  /\ WF_vars(Dispatch \/ ApplyToGate \/ Broadcast)
  /\ WF_vars(SweepCollect) /\ SF_vars(SweepEmit) /\ SF_vars(StopSweeper)
  /\ \A c \in Conns : /\ WF_vars(SetReceiveSender(c)) /\ WF_vars(BackfillRead(c))
                      /\ WF_vars(BackfillDeliver(c)) /\ WF_vars(InspectIncomingEnvelope(c))

Spec == Init /\ [][Next]_vars /\ Fairness

-------------------------------------------------------------------------------
\* KickGate "is just a reflection of cache state": the two differ about a key
\* only while the dispatcher has an op of it in hand, or after a sweep whose
\* tombstone has not been dispatched yet.
GateReflectsCache ==
  \A k \in Keys :
    LET shown == IF cache[k].tomb THEN Nothing ELSE cache[k].deadline
        tombstoneDue == \/ k \in emitting
                        \/ \E i \in DOMAIN stringChIn : stringChIn[i] = Op(k, TRUE, 0)
    IN gate[k] # shown =>
         \/ dispatching # Nothing /\ dispatching.next = "gate" /\ dispatching.op.key = k
         \/ gate[k] = Nothing /\ tombstoneDue

\* The two halves divide the kicks between them: a kick that ends a session is
\* one the gate had not seen when it let the session in, or one it had let
\* expire.  (An expired kick that is not swept yet still ends the sessions it
\* concerns, by way of the backfill.)
KickedByNews ==
  [][\A c \in Conns :
       phase[c] = "joined" /\ phase'[c] = "kicked" =>
         LET op == Head(inbox[c])
         IN \/ op.id > admission[c].id
            \/ op.deadline # Forever /\ op.deadline <= admission[c].at]_vars

\* No session outlives a kick that stays: not one that was authorised before
\* the kick and registered after it was broadcast, nor one that resumes.
KickedGoesOut ==
  \A c \in Conns, k \in Keys :
    c \in Concerned[k] => ~<>[](shutdown = "no" /\ phase[c] = "joined" /\ ~cache[k].tomb)

\* An expired kick leaves the cache, so that it reaches no later backfill.
ExpiredKickReleased ==
  \A k \in Keys :
    (~cache[k].tomb /\ Expired(cache[k].deadline)) ~>
      (cache[k].tomb \/ ~Expired(cache[k].deadline) \/ shutdown # "no")

\* Stop joins a sweeper that may be waiting for room in a channel only the
\* dispatcher drains; both come to an end because the dispatcher quits last.
StopReturns == (shutdown # "no") ~> (shutdown = "quit" /\ emitting = {})
================================================================================
