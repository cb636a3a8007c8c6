----------------------------- MODULE Bouncer_proofs -----------------------------
(***************************************************************************)
(* That Stop of a bouncer is a barrier in both directions, for any number  *)
(* of client goroutines, any departers and any channel capacities, without *)
(* an assumption of fairness; and that a departure which a kick starts on  *)
(* the dispatch goroutine never comes to its announcement.                 *)
(***************************************************************************)
EXTENDS Bouncer, FiniteSetTheorems, TLAPS

USE BouncerAssumption

RelayPc == {"check", "select", "forward", "kick", "exited"}
DispIdle == [pc |-> "idle", msg |-> None]

\* Types of what the barriers depend on.
BouncerTypes ==
  /\ chIn \in Seq(Message)
  /\ chOut \in Seq(Message)
  /\ sendPc \in [Senders -> {"idle", "check", "select"}]
  /\ once \in Departers \cup {None, "done"}
  /\ relay \in [pc : RelayPc, msg : Message \cup {None}]
  /\ disp \in [pc : {"handle", "deliver"}, msg : Message] \cup {DispIdle}
  /\ depPc \in [Departers -> DepPc]

\* DepartNode of this session starts once, whoever starts it.
KickStartsOnce == ~cas => depPc["kick"] = "idle"

\* One departer is inside Stop's Once, and it is the one once names.
InsideOnce(d) == depPc[d] \in {"close", "lock", "barrier", "join"}
OnceHeld == \A d \in Departers : InsideOnce(d) <=> once = d

\* Whoever is past Stop, and whoever finds the map empty, comes after its body.
PastStop(d) == depPc[d] \in {"announce", "release", "done"}
PastOnce ==
  /\ \A d \in Departers : PastStop(d) => once = "done"
  /\ ~mapped => once = "done"

\* Between the barrier and the end of the Once, and ever after, stopped is set.
BarrierPassed ==
  /\ \A d \in Departers : depPc[d] = "join" => stopped
  /\ once = "done" => stopped /\ relay.pc = "exited" /\ ~attached

\* With stopped set no sender is before its channel operation.
NobodyEnqueues == stopped => \A s \in Senders : sendPc[s] # "select"

StopInvariant ==
  /\ BouncerTypes
  /\ KickStartsOnce
  /\ OnceHeld
  /\ PastOnce
  /\ BarrierPassed
  /\ NobodyEnqueues

-------------------------------------------------------------------------------
(* Types.                                                                  *)

LEMMA InitBouncerTypes == BouncerInit => BouncerTypes
  BY DEF BouncerInit, BouncerTypes, RelayPc, DispIdle, DepPc

LEMMA TakeHead ==
  ASSUME NEW ch \in Seq(Message), ch # <<>>
  PROVE  Head(ch) \in Message /\ Tail(ch) \in Seq(Message)
  OBVIOUS

LEMMA PutLast ==
  ASSUME NEW ch \in Seq(Message), NEW m \in Message
  PROVE  Append(ch, m) \in Seq(Message)
  OBVIOUS

LEMMA SendTypes ==
  ASSUME BouncerTypes, NEW s \in Senders, SendStep(s)
  PROVE  BouncerTypes'
<1>1. UNCHANGED <<chOut, once, relay, disp, depPc>>
  BY DEF SendStep, SendEnter, SendCheck, SendEnqueue, SendDrop, senderRest
<1>2. chIn' \in Seq(Message)
  <2>1. chIn' = chIn \/ chIn' = Append(chIn, "own")
    BY DEF SendStep, SendEnter, SendCheck, SendEnqueue, SendDrop
  <2>2. "own" \in Message /\ chIn \in Seq(Message)
    BY DEF BouncerTypes, Message
  <2>3. QED
    BY <2>1, <2>2, PutLast
<1>3. sendPc' \in [Senders -> {"idle", "check", "select"}]
  BY DEF SendStep, SendEnter, SendCheck, SendEnqueue, SendDrop, BouncerTypes
<1>4. QED
  BY <1>1, <1>2, <1>3 DEF BouncerTypes

LEMMA DispTypes ==
  ASSUME BouncerTypes, DispStep
  PROVE  BouncerTypes'
<1>1. UNCHANGED <<once, relay, depPc, sendPc>>
  BY DEF DispStep, DispTake, DispLock, DispDeliver, DispDrop, dispRest
<1>2. /\ chIn' \in Seq(Message) /\ chOut' \in Seq(Message)
      /\ disp' \in [pc : {"handle", "deliver"}, msg : Message] \cup {DispIdle}
  <2>1. CASE DispTake
    BY <2>1, TakeHead DEF DispTake, BouncerTypes
  <2>2. CASE DispLock
    <3>1. disp \in [pc : {"handle", "deliver"}, msg : Message]
      BY <2>2 DEF DispLock, BouncerTypes, DispIdle
    <3>2. QED
      BY <2>2, <3>1 DEF DispLock, BouncerTypes, DispIdle
  <2>3. CASE DispDeliver \/ DispDrop
    <3>1. disp.msg \in Message
      BY <2>3 DEF DispDeliver, DispDrop, BouncerTypes, DispIdle
    <3>2. chOut' = chOut \/ chOut' = Append(chOut, disp.msg)
      BY <2>3 DEF DispDeliver, DispDrop
    <3>3. UNCHANGED chIn /\ disp' = DispIdle
      BY <2>3 DEF DispDeliver, DispDrop, DispIdle
    <3>4. chOut' \in Seq(Message)
      <4>1. chOut \in Seq(Message)
        BY DEF BouncerTypes
      <4>2. QED
        BY <3>1, <3>2, <4>1, PutLast
    <3>5. QED
      BY <3>3, <3>4 DEF BouncerTypes
  <2>4. QED
    BY <2>1, <2>2, <2>3 DEF DispStep
<1>3. QED
  BY <1>1, <1>2 DEF BouncerTypes

LEMMA RelayTypes ==
  ASSUME BouncerTypes, RelayStep
  PROVE  BouncerTypes'
<1>1. UNCHANGED <<chIn, once, disp, sendPc>>
  BY DEF RelayStep, RelayCheck, RelayQuit, RelayTake, RelayForward, RelayKill, RelayStops, relayRest
<1>2. chOut' \in Seq(Message) /\ relay' \in [pc : RelayPc, msg : Message \cup {None}]
  <2>1. CASE RelayTake
    BY <2>1, TakeHead DEF RelayTake, BouncerTypes, RelayPc
  <2>2. CASE ~RelayTake
    BY <2>2 DEF RelayStep, RelayCheck, RelayQuit, RelayForward, RelayKill, RelayStops, RelayBack,
       BouncerTypes, RelayPc
  <2>3. QED
    BY <2>1, <2>2
<1>3. depPc' \in [Departers -> DepPc]
  BY DEF RelayStep, RelayCheck, RelayQuit, RelayTake, RelayForward, RelayKill, RelayStops,
     BouncerTypes, DepPc
<1>4. QED
  BY <1>1, <1>2, <1>3 DEF BouncerTypes

LEMMA DepartTypes ==
  ASSUME BouncerTypes, NEW d \in Departers, DepartStep(d)
  PROVE  BouncerTypes'
<1>1. UNCHANGED <<chOut, relay, disp, sendPc>>
  BY DEF DepartStep, Capture, EnterOnce, OnceDone, CloseQuit, SendMuLock, Barrier, Join, Announce,
     Release, departRest
<1>2. depPc' \in [Departers -> DepPc]
  BY DEF DepartStep, Capture, EnterOnce, OnceDone, CloseQuit, SendMuLock, Barrier, Join, Announce,
     Release, At, BouncerTypes, DepPc
<1>3. once' \in Departers \cup {None, "done"}
  BY DEF DepartStep, Capture, EnterOnce, OnceDone, CloseQuit, SendMuLock, Barrier, Join, Announce,
     Release, BouncerTypes
<1>4. chIn' \in Seq(Message)
  <2>1. chIn' = chIn \/ chIn' = Append(chIn, "tomb")
    BY DEF DepartStep, Capture, EnterOnce, OnceDone, CloseQuit, SendMuLock, Barrier, Join, Announce,
       Release
  <2>2. "tomb" \in Message /\ chIn \in Seq(Message)
    BY DEF BouncerTypes, Message
  <2>3. QED
    BY <2>1, <2>2, PutLast
<1>5. QED
  BY <1>1, <1>2, <1>3, <1>4 DEF BouncerTypes

LEMMA NextBouncerTypes ==
  ASSUME BouncerTypes, [BouncerNext]_bvars
  PROVE  BouncerTypes'
<1>1. CASE KickIssued
  <2>1. chIn' = Append(chIn, "kick") /\ UNCHANGED <<chOut, sendPc, once, relay, disp, depPc>>
    BY <1>1 DEF KickIssued
  <2>2. QED
    BY <2>1 DEF BouncerTypes, Message
<1>2. CASE OwnerBegins \/ OrphanBegins
  <2>1. UNCHANGED <<chIn, chOut, sendPc, once, relay, disp>>
    BY <1>2 DEF OwnerBegins, OrphanBegins, departRest
  <2>2. depPc' \in [Departers -> DepPc]
    BY <1>2 DEF OwnerBegins, OrphanBegins, At, BouncerTypes, DepPc
  <2>3. QED
    BY <2>1, <2>2 DEF BouncerTypes
<1>3. CASE TransportCloses \/ ClientStalls \/ UNCHANGED bvars
  BY <1>3 DEF TransportCloses, ClientStalls, bvars, BouncerTypes
<1>4. QED
  BY <1>1, <1>2, <1>3, SendTypes, DispTypes, RelayTypes, DepartTypes DEF BouncerNext

-------------------------------------------------------------------------------
(* The invariant.                                                          *)

LEMMA InitStop == BouncerInit => StopInvariant
<1> SUFFICES ASSUME BouncerInit PROVE StopInvariant
  OBVIOUS
<1>1. BouncerTypes
  BY InitBouncerTypes
<1>2. KickStartsOnce /\ OnceHeld /\ PastOnce /\ BarrierPassed /\ NobodyEnqueues
  BY DEF BouncerInit, KickStartsOnce, OnceHeld, InsideOnce, PastOnce, PastStop, BarrierPassed,
     NobodyEnqueues
<1>3. QED
  BY <1>1, <1>2 DEF StopInvariant

\* Senders, the dispatcher, the client and a kick that is issued touch nothing
\* of Stop, and the dispatch goroutine does not come back.
Bystands ==
  /\ UNCHANGED <<cas, depPc, once, mapped, stopped, attached>>
  /\ relay.pc = "exited" => relay'.pc = "exited"

LEMMA BystandsStop ==
  ASSUME StopInvariant, BouncerTypes', Bystands, NobodyEnqueues'
  PROVE  StopInvariant'
  BY DEF StopInvariant, Bystands, KickStartsOnce, OnceHeld, InsideOnce, PastOnce, PastStop,
     BarrierPassed

LEMMA SendStop ==
  ASSUME StopInvariant, BouncerTypes', NEW s \in Senders, SendStep(s)
  PROVE  StopInvariant'
<1>1. Bystands
  BY DEF SendStep, SendEnter, SendCheck, SendEnqueue, SendDrop, senderRest, Bystands
<1>2. NobodyEnqueues'
  BY DEF SendStep, SendEnter, SendCheck, SendEnqueue, SendDrop, senderRest, StopInvariant,
     BouncerTypes, NobodyEnqueues
<1>3. QED
  BY <1>1, <1>2, BystandsStop

LEMMA RelayStop ==
  ASSUME StopInvariant, BouncerTypes', RelayStep
  PROVE  StopInvariant'
<1>1. UNCHANGED <<stopped, sendPc>>
  BY DEF RelayStep, RelayCheck, RelayQuit, RelayTake, RelayForward, RelayKill, RelayStops, relayRest
<1>2. NobodyEnqueues'
  BY <1>1 DEF StopInvariant, NobodyEnqueues
<1>3. CASE ~RelayStops
  <2>1. Bystands
    BY <1>3 DEF RelayStep, RelayCheck, RelayQuit, RelayTake, RelayForward, RelayKill, relayRest,
       RelayBack, StopInvariant, BouncerTypes, Bystands
  <2>2. QED
    BY <1>2, <2>1, BystandsStop
<1>4. CASE RelayStops
  <2>1. /\ relay.pc = "forward" /\ ~cas /\ cas'
        /\ depPc["kick"] = "idle" /\ depPc' = [depPc EXCEPT !["kick"] = "capture"]
        /\ UNCHANGED <<once, mapped, stopped, attached>>
    BY <1>4 DEF RelayStops, KickPending, relayRest, StopInvariant, KickStartsOnce
  <2>2. KickStartsOnce'
    BY <2>1 DEF KickStartsOnce
  <2>3. OnceHeld' /\ PastOnce' /\ BarrierPassed'
    BY <2>1 DEF StopInvariant, BouncerTypes, OnceHeld, InsideOnce, PastOnce, PastStop, BarrierPassed
  <2>4. QED
    BY <1>2, <2>2, <2>3 DEF StopInvariant
<1>5. QED
  BY <1>3, <1>4

\* Somebody starts a departure, and has not reached Stop.
LEMMA BeginStop ==
  ASSUME StopInvariant, BouncerTypes', OwnerBegins \/ OrphanBegins
  PROVE  StopInvariant'
<1>1. PICK d \in {"owner", "orphan"} \cap Departers :
        depPc[d] = "idle" /\ depPc' = [depPc EXCEPT ![d] = "capture"]
  BY DEF OwnerBegins, OrphanBegins, At
<1>2. UNCHANGED <<once, mapped, stopped, attached, relay, sendPc>> /\ (cas => cas')
  BY DEF OwnerBegins, OrphanBegins, departRest
<1>3. KickStartsOnce'
  BY <1>1, <1>2 DEF StopInvariant, KickStartsOnce, BouncerTypes
<1>4. OnceHeld' /\ PastOnce' /\ BarrierPassed'
  BY <1>1, <1>2 DEF StopInvariant, BouncerTypes, OnceHeld, InsideOnce, PastOnce, PastStop, BarrierPassed
<1>5. NobodyEnqueues'
  BY <1>2 DEF StopInvariant, NobodyEnqueues
<1>6. QED
  BY <1>3, <1>4, <1>5 DEF StopInvariant

\* The steps of a departure, one by one.
LEMMA DepartStop ==
  ASSUME StopInvariant, BouncerTypes', NEW d \in Departers, DepartStep(d)
  PROVE  StopInvariant'
<1>1. /\ depPc[d] # "idle"
      /\ \E to \in DepPc \ {"idle"} : depPc' = [depPc EXCEPT ![d] = to]
      /\ UNCHANGED <<cas, relay, sendPc>>
  BY DEF DepartStep, Capture, EnterOnce, OnceDone, CloseQuit, SendMuLock, Barrier, Join, Announce,
     Release, At, departRest, DepPc
<1>2. KickStartsOnce'
  BY <1>1 DEF StopInvariant, KickStartsOnce, BouncerTypes
<1>3. NobodyEnqueues'
  BY <1>1 DEF StopInvariant, NobodyEnqueues, DepartStep, Capture, EnterOnce, OnceDone, CloseQuit,
     SendMuLock, Barrier, Join, Announce, Release
<1>4. OnceHeld' /\ PastOnce' /\ BarrierPassed'
  <2>1. CASE Capture(d)
    BY <2>1 DEF Capture, At, StopInvariant, BouncerTypes, OnceHeld, InsideOnce, PastOnce, PastStop,
       BarrierPassed, departRest
  <2>2. CASE EnterOnce(d)
    BY <2>2 DEF EnterOnce, At, StopInvariant, BouncerTypes, OnceHeld, InsideOnce, PastOnce, PastStop,
       BarrierPassed, departRest
  <2>3. CASE OnceDone(d)
    BY <2>3 DEF OnceDone, At, StopInvariant, BouncerTypes, OnceHeld, InsideOnce, PastOnce, PastStop,
       BarrierPassed, departRest
  <2>4. CASE CloseQuit(d) \/ SendMuLock(d)
    BY <2>4 DEF CloseQuit, SendMuLock, At, StopInvariant, BouncerTypes, OnceHeld, InsideOnce,
       PastOnce, PastStop, BarrierPassed, departRest
  <2>5. CASE Barrier(d)
    BY <2>5 DEF Barrier, At, StopInvariant, BouncerTypes, OnceHeld, InsideOnce, PastOnce, PastStop,
       BarrierPassed, departRest
  <2>6. CASE Join(d)
    BY <2>6 DEF Join, At, StopInvariant, BouncerTypes, OnceHeld, InsideOnce, PastOnce, PastStop,
       BarrierPassed, departRest
  <2>7. CASE Announce(d) \/ Release(d)
    BY <2>7 DEF Announce, Release, At, StopInvariant, BouncerTypes, OnceHeld, InsideOnce, PastOnce,
       PastStop, BarrierPassed, departRest
  <2>8. QED
    BY <2>1, <2>2, <2>3, <2>4, <2>5, <2>6, <2>7 DEF DepartStep
<1>5. QED
  BY <1>2, <1>3, <1>4 DEF StopInvariant

LEMMA NextStop == StopInvariant /\ [BouncerNext]_bvars => StopInvariant'
<1> SUFFICES ASSUME StopInvariant, [BouncerNext]_bvars PROVE StopInvariant'
  OBVIOUS
<1>1. BouncerTypes'
  BY NextBouncerTypes DEF StopInvariant
<1>2. CASE KickIssued \/ DispStep \/ TransportCloses \/ ClientStalls \/ UNCHANGED bvars
  <2>1. Bystands /\ UNCHANGED <<stopped, sendPc>>
    BY <1>2 DEF KickIssued, DispStep, DispTake, DispLock, DispDeliver, DispDrop, dispRest,
       TransportCloses, ClientStalls, bvars, Bystands
  <2>2. NobodyEnqueues'
    BY <2>1 DEF StopInvariant, NobodyEnqueues
  <2>3. QED
    BY <1>1, <2>1, <2>2, BystandsStop
<1>3. QED
  BY <1>1, <1>2, SendStop, RelayStop, BeginStop, DepartStop DEF BouncerNext

\* StopInvariant holds of every reachable state of the bouncer.
LEMMA StopInvariantHolds == BouncerSpec => []StopInvariant
<1>1. BouncerInit => StopInvariant
  BY InitStop
<1>2. StopInvariant /\ [BouncerNext]_bvars => StopInvariant'
  BY NextStop
<1>3. QED
  BY <1>1, <1>2, PTL DEF BouncerSpec

\* Outbound: when any caller's Stop has returned the dispatch goroutine has
\* exited and no receiver is attached (Bouncer.Stop).
THEOREM OutboundBarrier == BouncerSpec => []StopIsOutboundBarrier
<1>1. StopInvariant => StopIsOutboundBarrier
  BY DEF StopInvariant, StopIsOutboundBarrier, StopReturned, PastOnce, PastStop, BarrierPassed
<1>2. QED
  BY <1>1, StopInvariantHolds, PTL

-------------------------------------------------------------------------------
(* Inbound: the writes on the channel only get fewer.                      *)

LEMMA AppendedOther ==
  ASSUME NEW ch \in Seq(Message), NEW m \in Message \ {"own"}
  PROVE  OwnWrites(Append(ch, m)) <= OwnWrites(ch)
<1> DEFINE own(c) == {i \in DOMAIN c : c[i] = "own"}
<1>1. own(Append(ch, m)) = own(ch)
  OBVIOUS
<1>2. own(ch) \subseteq 1..Len(ch) /\ IsFiniteSet(1..Len(ch))
  BY FS_Interval
<1>3. Cardinality(own(ch)) \in Nat
  BY <1>2, FS_Subset, FS_CardinalityType
<1>4. OwnWrites(Append(ch, m)) = Cardinality(own(ch)) /\ OwnWrites(ch) = Cardinality(own(ch))
  BY <1>1 DEF OwnWrites
<1> HIDE DEF own
<1>5. QED
  BY <1>3, <1>4

LEMMA TakenFirst ==
  ASSUME NEW ch \in Seq(Message), ch # <<>>
  PROVE  OwnWrites(Tail(ch)) <= OwnWrites(ch)
<1> DEFINE left == {i \in DOMAIN Tail(ch) : Tail(ch)[i] = "own"}
           own == {i \in DOMAIN ch : ch[i] = "own"}
           shift == [i \in left |-> i + 1]
<1>1. left \subseteq 1..(Len(ch) - 1) /\ own \subseteq 1..Len(ch) /\ Len(ch) \in Nat
  OBVIOUS
<1>2. \A i \in left : i + 1 \in own
  OBVIOUS
<1>3. shift \in Injection(left, own)
  BY <1>1, <1>2 DEF Injection, IsInjective
<1>4. IsFiniteSet(own)
  BY <1>1, FS_Interval, FS_Subset
<1>5. QED
  BY <1>3, <1>4, FS_Injection DEF OwnWrites

LEMMA UnchangedWrites ==
  ASSUME NEW ch \in Seq(Message)
  PROVE  OwnWrites(ch) <= OwnWrites(ch)
<1> DEFINE own == {i \in DOMAIN ch : ch[i] = "own"}
<1>1. own \subseteq 1..Len(ch) /\ IsFiniteSet(1..Len(ch))
  BY FS_Interval
<1>2. Cardinality(own) \in Nat
  BY <1>1, FS_Subset, FS_CardinalityType
<1> HIDE DEF own
<1>3. OwnWrites(ch) = Cardinality(own)
  BY DEF OwnWrites, own
<1>4. QED
  BY <1>2, <1>3

LEMMA StepKeepsBarrier ==
  ASSUME StopInvariant, [BouncerNext]_bvars, NEW d \in Departers, StopReturned(d)
  PROVE  OwnWrites(chIn') <= OwnWrites(chIn)
<1>1. stopped
  BY DEF StopReturned, StopInvariant, PastOnce, PastStop, BarrierPassed
<1>2. \A s \in Senders : ~SendEnqueue(s)
  BY <1>1 DEF SendEnqueue, StopInvariant, NobodyEnqueues
<1>3. \/ chIn' = chIn
      \/ \E m \in Message \ {"own"} : chIn' = Append(chIn, m)
      \/ chIn # <<>> /\ chIn' = Tail(chIn)
  <2>1. ASSUME NEW s \in Senders, SendStep(s) PROVE chIn' = chIn
    BY <1>2, <2>1 DEF SendStep, SendEnter, SendCheck, SendDrop
  <2>2. CASE KickIssued
    BY <2>2 DEF KickIssued, Message
  <2>3. CASE DispStep
    BY <2>3 DEF DispStep, DispTake, DispLock, DispDeliver, DispDrop
  <2>4. CASE RelayStep
    BY <2>4 DEF RelayStep, RelayCheck, RelayQuit, RelayTake, RelayForward, RelayKill, RelayStops, relayRest
  <2>5. CASE OwnerBegins \/ OrphanBegins \/ TransportCloses \/ ClientStalls \/ UNCHANGED bvars
    BY <2>5 DEF OwnerBegins, OrphanBegins, TransportCloses, ClientStalls, bvars
  <2>6. ASSUME NEW e \in Departers, DepartStep(e)
        PROVE  chIn' = chIn \/ chIn' = Append(chIn, "tomb")
    BY <2>6 DEF DepartStep, Capture, EnterOnce, OnceDone, CloseQuit, SendMuLock, Barrier, Join, Announce,
       Release
  <2>7. QED
    BY <2>1, <2>2, <2>3, <2>4, <2>5, <2>6 DEF BouncerNext, Message
<1>4. chIn \in Seq(Message)
  BY DEF StopInvariant, BouncerTypes
<1>5. QED
  BY <1>3, <1>4, AppendedOther, TakenFirst, UnchangedWrites

\* Inbound: from the moment any caller's Stop has returned no step enqueues a
\* write of this client (sendMu).
THEOREM InboundBarrier == BouncerSpec => StopIsInboundBarrier
<1>1. StopInvariant /\ [BouncerNext]_bvars =>
        [(\E d \in Departers : StopReturned(d)) => OwnWrites(chIn') <= OwnWrites(chIn)]_bvars
  BY StepKeepsBarrier
<1>2. QED
  BY <1>1, StopInvariantHolds, PTL DEF BouncerSpec, StopIsInboundBarrier

-------------------------------------------------------------------------------
(* A departure on the dispatch goroutine.                                  *)

\* It holds the goroutine whose exit Stop waits for, until it is done.
KickWaitsForItself ==
  /\ ~cas => depPc["kick"] = "idle"
  /\ depPc["kick"] # "idle" => relay.pc = "kick" /\ ~PastStop("kick")

LEMMA NextKickWaits ==
  StopInvariant /\ KickWaitsForItself /\ [BouncerNext]_bvars => KickWaitsForItself'
<1> SUFFICES ASSUME StopInvariant, KickWaitsForItself, [BouncerNext]_bvars
             PROVE  KickWaitsForItself'
  OBVIOUS
<1>1. depPc \in [Departers -> DepPc] /\ relay \in [pc : RelayPc, msg : Message \cup {None}]
  BY DEF StopInvariant, BouncerTypes
<1>2. CASE depPc["kick"] = "idle" /\ ~RelayStops
  <2>1. depPc'["kick"] = "idle"
    BY <1>1, <1>2 DEF BouncerNext, SendStep, SendEnter, SendCheck, SendEnqueue, SendDrop, senderRest,
       KickIssued, DispStep, DispTake, DispLock, DispDeliver, DispDrop, dispRest,
       RelayStep, RelayCheck, RelayQuit, RelayTake, RelayForward, RelayKill,
       OwnerBegins, OrphanBegins, TransportCloses, ClientStalls, bvars,
       DepartStep, Capture, EnterOnce, OnceDone, CloseQuit, SendMuLock, Barrier, Join, Announce,
       Release, At
  <2>2. QED
    BY <2>1 DEF KickWaitsForItself
<1>3. CASE RelayStops
  BY <1>1, <1>3 DEF RelayStops, KickWaitsForItself, PastStop
<1>4. CASE depPc["kick"] # "idle" /\ ~RelayStops
  <2>1. relay.pc = "kick" /\ ~PastStop("kick") /\ cas
    BY <1>4 DEF KickWaitsForItself
  <2>2. once # "done" /\ mapped
    BY <2>1 DEF StopInvariant, BarrierPassed, PastOnce
  <2>3. cas' /\ UNCHANGED relay
    BY <1>4, <2>1 DEF BouncerNext, SendStep, SendEnter, SendCheck, SendEnqueue, SendDrop, senderRest,
       KickIssued, DispStep, DispTake, DispLock, DispDeliver, DispDrop, dispRest,
       RelayStep, RelayCheck, RelayQuit, RelayTake, RelayForward, RelayKill, PastStop,
       OwnerBegins, OrphanBegins, TransportCloses, ClientStalls, bvars, departRest,
       DepartStep, Capture, EnterOnce, OnceDone, CloseQuit, SendMuLock, Barrier, Join, Announce,
       Release
  <2>4. ~PastStop("kick")'
    <3>1. ASSUME NEW d \in Departers, DepartStep(d) PROVE ~PastStop("kick")'
      <4>1. CASE d = "kick"
        BY <1>1, <2>1, <2>2, <3>1, <4>1 DEF PastStop, DepartStep, Capture, EnterOnce, OnceDone,
           CloseQuit, SendMuLock, Barrier, Join, Announce, Release, At
      <4>2. CASE d # "kick"
        BY <1>1, <2>1, <3>1, <4>2 DEF PastStop, DepartStep, Capture, EnterOnce, OnceDone,
           CloseQuit, SendMuLock, Barrier, Join, Announce, Release, At
      <4>3. QED
        BY <4>1, <4>2
    <3>2. CASE ~\E d \in Departers : DepartStep(d)
      BY <1>1, <1>4, <2>1, <3>2 DEF PastStop, BouncerNext, SendStep, SendEnter, SendCheck, SendEnqueue,
         SendDrop, senderRest, KickIssued, DispStep, DispTake, DispLock, DispDeliver, DispDrop, dispRest,
         RelayStep, RelayCheck, RelayQuit, RelayTake, RelayForward, RelayKill,
         OwnerBegins, OrphanBegins, TransportCloses, ClientStalls, bvars, At
    <3>3. QED
      BY <3>1, <3>2
  <2>5. QED
    BY <2>1, <2>3, <2>4 DEF KickWaitsForItself
<1>5. QED
  BY <1>2, <1>3, <1>4

\* A departure that a kick starts on the dispatch goroutine, because the session
\* has no transport handle, never gets past Stop: Stop waits for the exit of the
\* goroutine it runs on (backend.go, the kick's fallback; bouncer.go, Stop).
THEOREM KickNeverLeavesStop == BouncerSpec => [](~PastStop("kick"))
<1>1. BouncerInit => KickWaitsForItself
  BY DEF BouncerInit, KickWaitsForItself
<1>2. StopInvariant /\ KickWaitsForItself /\ [BouncerNext]_bvars => KickWaitsForItself'
  BY NextKickWaits
<1>3. KickWaitsForItself => ~PastStop("kick")
  BY DEF KickWaitsForItself, PastStop
<1>4. QED
  BY <1>1, <1>2, <1>3, StopInvariantHolds, PTL DEF BouncerSpec
================================================================================
