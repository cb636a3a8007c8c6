--------------------------- MODULE Moderation_proofs ---------------------------
(* That the kick gate reflects the cache, for all sessions, keys, durations,  *)
(* capacities and bounds: the sweeper included, whose removals run ahead of   *)
(* the cache.                                                                  *)
EXTENDS Moderation, TLAPS

KickOps == [key : Keys, tomb : BOOLEAN, deadline : Nat]
CachedOps == [key : Keys, tomb : BOOLEAN, deadline : Nat, id : Nat]
InHand == [op : CachedOps, next : {"gate", "broadcast"}]

\* Types of what the gate and the cache depend on.
KickTypes ==
  /\ now \in Nat
  /\ opId \in Nat
  /\ stringChIn \in Seq(KickOps)
  /\ cache \in [Keys -> CachedOps]
  /\ dispatching \in InHand \cup {Nothing}
  /\ gate \in [Keys -> Nat \cup {Nothing}]
  /\ emitting \subseteq Keys

\* The op the dispatcher has in hand is the one the cache holds of its key.
InHandIsCached == dispatching # Nothing => cache[dispatching.op.key] = dispatching.op

\* What the cache shows of a key, and a tombstone of it that is on its way.
Shown(k) == IF cache[k].tomb THEN Nothing ELSE cache[k].deadline
Due(k) == k \in emitting \/ \E i \in DOMAIN stringChIn : stringChIn[i] = Op(k, TRUE, 0)

\* GateReflectsCache of one key.
Reflected(k) ==
  \/ gate[k] = Shown(k)
  \/ dispatching # Nothing /\ dispatching.next = "gate" /\ dispatching.op.key = k
  \/ gate[k] = Nothing /\ Due(k)

\* Inductive: an op in hand is in the cache already and reaches the gate before
\* the next one is taken, and a key the sweeper has dropped stays due until then.
GateInvariant == KickTypes /\ InHandIsCached /\ \A k \in Keys : Reflected(k)

\* No op in hand is Nothing.
LEMMA InHandIsSomething ==
  ASSUME NEW d \in InHand
  PROVE  d # Nothing
BY ModerationAssumption DEF ModerationAssumption, InHand, CachedOps

\* The head of a channel that is not empty, and what stays behind it.
LEMMA TakenFromChannel ==
  ASSUME NEW S, NEW s \in Seq(S), s # <<>>
  PROVE  /\ Head(s) \in S
         /\ Tail(s) \in Seq(S)
         /\ \A i \in DOMAIN s : \/ i = 1 /\ s[i] = Head(s)
                                \/ i - 1 \in DOMAIN Tail(s) /\ Tail(s)[i - 1] = s[i]
<1>1. s \in Seq(S) /\ Len(s) \in Nat \ {0} /\ DOMAIN s = 1..Len(s)
  OBVIOUS
<1>2. Head(s) = s[1] /\ Head(s) \in S /\ Tail(s) \in Seq(S)
  BY <1>1
<1>3. DOMAIN Tail(s) = 1..(Len(s) - 1)
  BY <1>1
<1>4. ASSUME NEW j \in 1..(Len(s) - 1) PROVE Tail(s)[j] = s[j + 1]
  BY <1>1
<1>5. ASSUME NEW i \in DOMAIN s, i # 1 PROVE i - 1 \in DOMAIN Tail(s) /\ Tail(s)[i - 1] = s[i]
  <2>1. i - 1 \in 1..(Len(s) - 1) /\ (i - 1) + 1 = i
    BY <1>1, <1>5
  <2> QED BY <2>1, <1>3, <1>4
<1>6. ASSUME NEW i \in DOMAIN s
      PROVE  (i = 1 /\ s[i] = Head(s)) \/ (i - 1 \in DOMAIN Tail(s) /\ Tail(s)[i - 1] = s[i])
  BY <1>2, <1>5
<1> QED BY <1>2, <1>6

\* What a send leaves in the channel.
LEMMA SentToChannel ==
  ASSUME NEW S, NEW s \in Seq(S), NEW e \in S
  PROVE  /\ Append(s, e) \in Seq(S)
         /\ \A i \in DOMAIN s : i \in DOMAIN Append(s, e) /\ Append(s, e)[i] = s[i]
         /\ Len(s) + 1 \in DOMAIN Append(s, e) /\ Append(s, e)[Len(s) + 1] = e
OBVIOUS

\* The invariant says what GateReflectsCache says.
LEMMA InvariantImplies == GateInvariant => GateReflectsCache
BY DEF GateInvariant, GateReflectsCache, Reflected, Shown, Due

\* At the start nothing is kicked, and the cache says so.
LEMMA InitEstablishes == Init => GateInvariant
<1> SUFFICES ASSUME Init PROVE GateInvariant
  OBVIOUS
<1>1. KickTypes
  BY DEF Init, KickTypes, CachedOps, Stamped, Op
<1>2. InHandIsCached
  BY DEF Init, InHandIsCached
<1>3. \A k \in Keys : Reflected(k)
  BY DEF Init, Reflected, Shown, Stamped, Op
<1> QED
  BY <1>1, <1>2, <1>3 DEF GateInvariant

\* A send keeps the invariant, and what is due stays due.
LEMMA EnqueueKeeps ==
  ASSUME GateInvariant, NEW op \in KickOps, Enqueue(op),
         cache' = cache, dispatching' = dispatching, gate' = gate, opId' = opId, now' = now
  PROVE  /\ stringChIn' \in Seq(KickOps)
         /\ \E i \in DOMAIN stringChIn' : stringChIn'[i] = op
         /\ \A i \in DOMAIN stringChIn : i \in DOMAIN stringChIn' /\ stringChIn'[i] = stringChIn[i]
<1>1. stringChIn \in Seq(KickOps) /\ stringChIn' = Append(stringChIn, op)
  BY DEF GateInvariant, KickTypes, Enqueue
<1> QED
  BY <1>1, SentToChannel

\* Every step keeps the invariant.
LEMMA StepKeeps == GateInvariant /\ [Next]_vars => GateInvariant'
<1> SUFFICES ASSUME GateInvariant, [Next]_vars PROVE GateInvariant'
  OBVIOUS
<1> USE DEF GateInvariant
<1>1. ASSUME NEW op \in KickOps, Command(op) PROVE GateInvariant'
  <2>1. /\ UNCHANGED <<now, opId, cache, dispatching, gate, emitting>> /\ Enqueue(op)
    BY <1>1 DEF Command, gateVars
  <2>2. /\ stringChIn' \in Seq(KickOps)
        /\ \A i \in DOMAIN stringChIn : i \in DOMAIN stringChIn' /\ stringChIn'[i] = stringChIn[i]
    BY <2>1, EnqueueKeeps
  <2>3. KickTypes' /\ InHandIsCached'
    BY <2>1, <2>2 DEF KickTypes, InHandIsCached
  <2>4. ASSUME NEW k \in Keys PROVE Reflected(k)'
    <3>1. Reflected(k) /\ (Due(k) => Due(k)') /\ Shown(k)' = Shown(k)
      BY <2>1, <2>2 DEF Due, Shown
    <3> QED BY <3>1, <2>1 DEF Reflected
  <2> QED BY <2>3, <2>4
<1>2. CASE Tick
  <2>1. now' \in Nat /\ UNCHANGED <<busVars, gateVars>>
    BY <1>2 DEF Tick, KickTypes
  <2> QED BY <2>1 DEF KickTypes, InHandIsCached, Reflected, Shown, Due, busVars, gateVars
<1>3. CASE Dispatch
  <2> DEFINE op == Stamped(Head(stringChIn), opId + 1)
  <2>1. /\ dispatching = Nothing
        /\ stringChIn # <<>>
        /\ cache' = [cache EXCEPT ![op.key] = op]
        /\ dispatching' = [op |-> op, next |-> "gate"]
        /\ stringChIn' = Tail(stringChIn)
        /\ opId' = opId + 1
        /\ UNCHANGED <<now, gate, emitting>>
    BY <1>3 DEF Dispatch, gateVars
  <2>2. /\ Head(stringChIn) \in KickOps
        /\ Tail(stringChIn) \in Seq(KickOps)
        /\ \A i \in DOMAIN stringChIn :
             \/ i = 1 /\ stringChIn[i] = Head(stringChIn)
             \/ i - 1 \in DOMAIN Tail(stringChIn) /\ Tail(stringChIn)[i - 1] = stringChIn[i]
    BY <2>1, TakenFromChannel DEF KickTypes
  <2>3. op \in CachedOps /\ op.key \in Keys /\ op.key = Head(stringChIn).key
    BY <2>2 DEF KickOps, CachedOps, Stamped, KickTypes
  <2>4. KickTypes'
    BY <2>1, <2>2, <2>3 DEF KickTypes, InHand
  <2>5. InHandIsCached'
    BY <2>1, <2>3 DEF InHandIsCached, KickTypes
  <2>6. dispatching' # Nothing
    BY <2>1, <2>3, InHandIsSomething DEF InHand
  <2>7. ASSUME NEW k \in Keys PROVE Reflected(k)'
    <3>1. CASE k = op.key
      BY <3>1, <2>1, <2>6 DEF Reflected
    <3>2. CASE k # op.key
      <4>1. gate[k] = Shown(k) \/ (gate[k] = Nothing /\ Due(k))
        BY <2>1 DEF Reflected
      <4>2. Shown(k)' = Shown(k)
        BY <2>1, <2>3, <3>2 DEF Shown, KickTypes
      <4>3. Due(k) => Due(k)'
        <5>1. ASSUME NEW i \in DOMAIN stringChIn, stringChIn[i] = Op(k, TRUE, 0) PROVE Due(k)'
          <6>1. stringChIn[i] # Head(stringChIn)
            BY <5>1, <2>3, <3>2 DEF Op
          <6> QED BY <6>1, <5>1, <2>1, <2>2 DEF Due
        <5> QED BY <5>1, <2>1 DEF Due
      <4> QED BY <4>1, <4>2, <4>3, <2>1 DEF Reflected
    <3> QED BY <3>1, <3>2
  <2> QED BY <2>4, <2>5, <2>7
<1>4. CASE ApplyToGate
  <2>1. /\ dispatching # Nothing /\ dispatching \in InHand
        /\ dispatching.next = "gate"
        /\ gate' = Applied(dispatching.op)
        /\ dispatching' = [dispatching EXCEPT !.next = "broadcast"]
        /\ UNCHANGED <<now, stringChIn, opId, cache, emitting>>
    BY <1>4 DEF ApplyToGate, KickTypes
  <2>2. /\ dispatching.op \in CachedOps
        /\ dispatching.op.key \in Keys
        /\ dispatching'.op = dispatching.op
        /\ dispatching' \in InHand
        /\ cache[dispatching.op.key] = dispatching.op
    BY <2>1 DEF InHand, CachedOps, InHandIsCached
  <2>3. gate' \in [Keys -> Nat \cup {Nothing}]
    BY <2>1, <2>2 DEF Applied, KickTypes, CachedOps
  <2>4. KickTypes' /\ InHandIsCached'
    BY <2>1, <2>2, <2>3 DEF KickTypes, InHandIsCached
  <2>5. ASSUME NEW k \in Keys PROVE Reflected(k)'
    <3>1. Shown(k)' = Shown(k) /\ Due(k)' = Due(k)
      BY <2>1 DEF Shown, Due
    <3>2. CASE k = dispatching.op.key
      <4>1. gate'[k] = Shown(k)
        BY <3>2, <2>1, <2>2 DEF Applied, Shown, KickTypes
      <4> QED BY <4>1, <3>1 DEF Reflected
    <3>3. CASE k # dispatching.op.key
      <4>1. gate'[k] = gate[k]
        BY <3>3, <2>1 DEF Applied, KickTypes
      <4> QED BY <4>1, <3>1, <3>3 DEF Reflected
    <3> QED BY <3>2, <3>3
  <2> QED BY <2>4, <2>5
<1>5. CASE Broadcast
  <2>1. /\ dispatching.next = "broadcast"
        /\ dispatching' = Nothing
        /\ UNCHANGED <<now, stringChIn, opId, cache, gate, emitting>>
    BY <1>5 DEF Broadcast, gateVars
  <2>2. KickTypes' /\ InHandIsCached'
    BY <2>1 DEF KickTypes, InHandIsCached
  <2> QED BY <2>1, <2>2 DEF Reflected, Shown, Due
<1>6. CASE SweepCollect
  <2> DEFINE expired == {k \in Keys : Expired(gate[k])}
  <2>1. /\ emitting = {}
        /\ gate' = [k \in Keys |-> IF k \in expired THEN Nothing ELSE gate[k]]
        /\ emitting' = expired
        /\ UNCHANGED <<now, stringChIn, opId, cache, dispatching>>
    BY <1>6 DEF SweepCollect, busVars
  <2>2. KickTypes' /\ InHandIsCached'
    BY <2>1 DEF KickTypes, InHandIsCached
  <2>3. ASSUME NEW k \in Keys PROVE Reflected(k)'
    <3>1. CASE k \in expired
      BY <3>1, <2>1 DEF Reflected, Due
    <3>2. CASE k \notin expired
      <4>1. gate'[k] = gate[k] /\ Shown(k)' = Shown(k) /\ (Due(k) => Due(k)')
        BY <3>2, <2>1 DEF Shown, Due
      <4> QED BY <4>1, <2>1 DEF Reflected
    <3> QED BY <3>1, <3>2
  <2> QED BY <2>2, <2>3
<1>7. CASE SweepEmit
  <2>1. PICK e \in emitting :
          /\ Enqueue(Op(e, TRUE, 0))
          /\ emitting' = emitting \ {e}
          /\ UNCHANGED <<now, opId, cache, dispatching, gate>>
    BY <1>7 DEF SweepEmit
  <2>2. Op(e, TRUE, 0) \in KickOps
    BY <2>1 DEF Op, KickOps, KickTypes
  <2>3. /\ stringChIn' \in Seq(KickOps)
        /\ \E i \in DOMAIN stringChIn' : stringChIn'[i] = Op(e, TRUE, 0)
        /\ \A i \in DOMAIN stringChIn : i \in DOMAIN stringChIn' /\ stringChIn'[i] = stringChIn[i]
    BY <2>1, <2>2, EnqueueKeeps
  <2>4. KickTypes' /\ InHandIsCached'
    BY <2>1, <2>3 DEF KickTypes, InHandIsCached
  <2>5. ASSUME NEW k \in Keys PROVE Reflected(k)'
    <3>1. Shown(k)' = Shown(k) /\ gate'[k] = gate[k] /\ (Due(k) => Due(k)')
      BY <2>1, <2>3 DEF Shown, Due
    <3> QED BY <3>1, <2>1 DEF Reflected
  <2> QED BY <2>4, <2>5
<1>8. CASE UNCHANGED <<now, busVars, gate, emitting>>
  BY <1>8 DEF KickTypes, InHandIsCached, Reflected, Shown, Due, busVars
<1>9. ASSUME NEW k \in Keys, Kick(k) PROVE GateInvariant'
  <2>1. PICK minutes \in Minutes : Command(Op(k, FALSE, KickExpiry(minutes)))
    BY <1>9 DEF Kick
  <2>2. KickExpiry(minutes) \in Nat
    BY <2>1, ModerationAssumption DEF ModerationAssumption, KickExpiry, Forever, KickTypes
  <2>3. Op(k, FALSE, KickExpiry(minutes)) \in KickOps
    BY <2>2 DEF Op, KickOps
  <2> QED BY <2>1, <2>3, <1>1
<1>10. ASSUME NEW k \in Keys, Unkick(k) PROVE GateInvariant'
  <2>1. Op(k, TRUE, 0) \in KickOps
    BY DEF Op, KickOps
  <2> QED BY <2>1, <1>1, <1>10 DEF Unkick
<1>11. ASSUME NEW c \in Conns,
              \/ Authorise(c) \/ Register(c) \/ SetReceiveSender(c) \/ BackfillRead(c)
              \/ BackfillDeliver(c) \/ InspectIncomingEnvelope(c) \/ Leave(c)
       PROVE  UNCHANGED <<now, busVars, gate, emitting>>
  BY <1>11 DEF Authorise, Register, SetReceiveSender, BackfillRead, BackfillDeliver,
               InspectIncomingEnvelope, Leave, Over, gateVars
<1>12. CASE Stop \/ StopSweeper
  <2>1. UNCHANGED <<now, busVars, gate, emitting>>
    BY <1>12 DEF Stop, StopSweeper
  <2> QED BY <2>1, <1>8
<1>13. CASE UNCHANGED vars
  <2>1. UNCHANGED <<now, busVars, gate, emitting>>
    BY <1>13 DEF vars, gateVars
  <2> QED BY <2>1, <1>8
<1> QED
  BY <1>2, <1>3, <1>4, <1>5, <1>6, <1>7, <1>8, <1>9, <1>10, <1>11, <1>12, <1>13 DEF Next

\* The gate never disagrees with the cache about a key, except while an op of it
\* is in the dispatcher's hand or its sweep is on its way to the cache.
THEOREM GateReflects == Spec => []GateReflectsCache
<1>1. Init => GateInvariant
  BY InitEstablishes
<1>2. GateInvariant /\ [Next]_vars => GateInvariant'
  BY StepKeeps
<1>3. GateInvariant => GateReflectsCache
  BY InvariantImplies
<1> QED
  BY <1>1, <1>2, <1>3, PTL DEF Spec

-------------------------------------------------------------------------------
(* What kicks a session that was let in.                                   *)

Phases == {"new", "authorised", "joined", "kicked", "left"}

SessionTypes ==
  /\ phase \in [Conns -> Phases]
  /\ toDeliver \in [Conns -> SUBSET CachedOps]
  /\ inbox \in [Conns -> Seq(CachedOps)]
  /\ admission \in [Conns -> [id : Int, at : Nat]]
  /\ \A c \in Conns : admission[c].id <= opId

InHandFor(k) == dispatching # Nothing /\ dispatching.next = "gate" /\ dispatching.op.key = k

\* Where the gate knows nothing of a kick, the kick has expired.
SweptIsExpired ==
  \A k \in Keys : gate[k] = Nothing => cache[k].tomb \/ Expired(cache[k].deadline) \/ InHandFor(k)

InHandIsLatest == dispatching # Nothing => dispatching.op.id = opId

CachedByKey == \A k \in Keys : cache[k].key = k

\* An op that came after the session was let in, or had expired by then.
News(op, c) ==
  \/ op.id > admission[c].id
  \/ op.deadline # Forever /\ op.deadline <= admission[c].at

\* Whatever may still reach a session that was let in, if it kicks, is news.
NewsFor(c) ==
  /\ phase[c] = "new" => inbox[c] = <<>> /\ toDeliver[c] = {}
  /\ phase[c] \in {"authorised", "joined"} =>
       /\ \A k \in Keys : Targets(cache[k], c) => News(cache[k], c)
       /\ \A op \in toDeliver[c] : Targets(op, c) => News(op, c)
       /\ \A i \in DOMAIN inbox[c] : Targets(inbox[c][i], c) => News(inbox[c][i], c)

OnlyNews == \A c \in Conns : NewsFor(c)

NewsInvariant == SessionTypes /\ CachedByKey /\ SweptIsExpired /\ InHandIsLatest /\ OnlyNews

LEMMA InitNews == Init => NewsInvariant
<1> SUFFICES ASSUME Init PROVE NewsInvariant
  OBVIOUS
<1>1. SessionTypes
  BY DEF Init, SessionTypes, Phases
<1>2. SweptIsExpired
  BY DEF Init, SweptIsExpired, Stamped, Op
<1>3. CachedByKey /\ InHandIsLatest /\ OnlyNews
  BY DEF Init, CachedByKey, InHandIsLatest, OnlyNews, NewsFor, Stamped, Op
<1> QED
  BY <1>1, <1>2, <1>3 DEF NewsInvariant

\* Who steps: the dispatcher, the sweeper and the clock on one side, sessions on
\* the other.
GateStep == Tick \/ Dispatch \/ ApplyToGate \/ SweepCollect

SessionStep(c) ==
  \/ Authorise(c) \/ Register(c) \/ SetReceiveSender(c) \/ BackfillRead(c)
  \/ BackfillDeliver(c) \/ InspectIncomingEnvelope(c) \/ Leave(c)

LEMMA StepSides ==
  ASSUME [Next]_vars
  PROVE  \/ GateStep /\ UNCHANGED sessionVars
         \/ Broadcast
         \/ \E c \in Conns : SessionStep(c) /\ UNCHANGED <<now, busVars, gateVars>>
         \/ UNCHANGED <<now, opId, cache, dispatching, gate, sessionVars>>
<1>1. CASE GateStep
  BY <1>1 DEF GateStep, Tick, Dispatch, ApplyToGate, SweepCollect
<1>2. ASSUME NEW c \in Conns, SessionStep(c)
      PROVE  UNCHANGED <<now, busVars, gateVars>>
  BY <1>2 DEF SessionStep, Authorise, Register, SetReceiveSender, BackfillRead, BackfillDeliver,
              InspectIncomingEnvelope, Leave, Over
<1>3. CASE SweepEmit \/ Stop \/ StopSweeper
  BY <1>3 DEF SweepEmit, Stop, StopSweeper, busVars
<1>4. ASSUME NEW k \in Keys, Kick(k) \/ Unkick(k)
      PROVE  UNCHANGED <<now, opId, cache, dispatching, gate, sessionVars>>
  BY <1>4 DEF Kick, Unkick, Command, gateVars
<1>5. CASE UNCHANGED vars
  BY <1>5 DEF vars, busVars, gateVars
<1> QED
  BY <1>1, <1>2, <1>3, <1>4, <1>5 DEF Next, GateStep, SessionStep

LEMMA ExpiryStays ==
  ASSUME KickTypes, NEW d \in Nat \cup {Nothing}, Expired(d), now' \in Nat, now <= now'
  PROVE  Expired(d)'
  BY ModerationAssumption DEF ModerationAssumption, KickTypes, Expired, Forever

\* The gate forgets a kick with its tombstone, or when it has expired.
LEMMA NextSwept ==
  GateInvariant /\ SweptIsExpired /\ InHandIsLatest /\ [Next]_vars => SweptIsExpired' /\ InHandIsLatest'
<1> SUFFICES ASSUME GateInvariant, SweptIsExpired, InHandIsLatest, [Next]_vars
             PROVE  SweptIsExpired' /\ InHandIsLatest'
  OBVIOUS
<1> USE DEF GateInvariant
<1>1. CASE Tick
  <2>1. UNCHANGED <<cache, gate, dispatching, opId>> /\ now' \in Nat /\ now <= now'
    BY <1>1 DEF Tick, busVars, gateVars, KickTypes
  <2>2. ASSUME NEW k \in Keys, Expired(cache[k].deadline)
        PROVE  Expired(cache[k].deadline)'
    <3>1. cache[k].deadline \in Nat
      BY DEF KickTypes, CachedOps
    <3>2. QED
      BY <2>1, <2>2, <3>1 DEF Expired, KickTypes, Forever
  <2>3. QED
    BY <2>1, <2>2 DEF SweptIsExpired, InHandIsLatest, InHandFor
<1>2. CASE Dispatch
  <2> DEFINE op == Stamped(Head(stringChIn), opId + 1)
  <2>1. /\ dispatching = Nothing
        /\ stringChIn # <<>>
        /\ cache' = [cache EXCEPT ![op.key] = op]
        /\ dispatching' = [op |-> op, next |-> "gate"]
        /\ opId' = opId + 1
        /\ UNCHANGED <<now, gate>>
    BY <1>2 DEF Dispatch, gateVars
  <2>2. op.id = opId + 1 /\ op \in CachedOps
    <3>1. Head(stringChIn) \in KickOps
      BY <2>1, TakenFromChannel DEF KickTypes
    <3>2. QED
      BY <3>1 DEF KickOps, CachedOps, Stamped, KickTypes
  <2>3. dispatching' # Nothing
    BY <2>1, <2>2, InHandIsSomething DEF InHand
  <2> HIDE DEF op
  <2>4. ASSUME NEW k \in Keys, gate[k] = Nothing
        PROVE  cache'[k].tomb \/ Expired(cache[k].deadline)' \/ InHandFor(k)'
    <3>1. CASE k = op.key
      BY <2>1, <2>3, <3>1 DEF InHandFor
    <3>2. CASE k # op.key
      <4>1. cache'[k] = cache[k]
        BY <2>1, <3>2 DEF KickTypes
      <4>2. cache[k].tomb \/ Expired(cache[k].deadline)
        BY <2>1, <2>4 DEF SweptIsExpired, InHandFor
      <4>3. QED
        BY <2>1, <4>1, <4>2 DEF Expired
    <3>3. QED
      BY <3>1, <3>2
  <2>5. QED
    BY <2>1, <2>2, <2>4 DEF SweptIsExpired, InHandIsLatest
<1>3. CASE ApplyToGate
  <2>1. /\ dispatching \in InHand
        /\ gate' = Applied(dispatching.op)
        /\ dispatching' = [dispatching EXCEPT !.next = "broadcast"]
        /\ UNCHANGED <<now, opId, cache>>
    BY <1>3 DEF ApplyToGate, KickTypes
  <2>2. /\ dispatching.op \in CachedOps /\ dispatching'.op = dispatching.op
        /\ cache[dispatching.op.key] = dispatching.op
    BY <1>3, <2>1 DEF InHand, ApplyToGate, InHandIsCached
  <2>3. ASSUME NEW k \in Keys, gate'[k] = Nothing
        PROVE  cache[k].tomb \/ Expired(cache[k].deadline)
    <3>1. CASE k = dispatching.op.key
      BY <2>1, <2>2, <2>3, <3>1, ModerationAssumption
         DEF ModerationAssumption, Applied, KickTypes, CachedOps
    <3>2. CASE k # dispatching.op.key
      BY <2>1, <2>3, <3>2 DEF Applied, KickTypes, SweptIsExpired, InHandFor
    <3>3. QED
      BY <3>1, <3>2
  <2>4. QED
    BY <1>3, <2>1, <2>2, <2>3 DEF ApplyToGate, SweptIsExpired, InHandIsLatest, Expired
<1>4. CASE Broadcast
  <2>1. dispatching.next = "broadcast" /\ dispatching' = Nothing /\ UNCHANGED <<now, opId, cache, gate>>
    BY <1>4 DEF Broadcast, gateVars
  <2>2. QED
    BY <2>1 DEF SweptIsExpired, InHandIsLatest, InHandFor, Expired
<1>5. CASE SweepCollect
  <2>1. /\ \A k \in Keys : gate'[k] = IF Expired(gate[k]) THEN Nothing ELSE gate[k]
        /\ UNCHANGED <<now, opId, cache, dispatching>>
    BY <1>5 DEF SweepCollect, busVars
  <2>2. ASSUME NEW k \in Keys, gate'[k] = Nothing
        PROVE  cache[k].tomb \/ Expired(cache[k].deadline) \/ InHandFor(k)
    <3>1. CASE Expired(gate[k])
      BY <3>1 DEF Reflected, Shown, InHandFor, Expired
    <3>2. CASE ~Expired(gate[k])
      BY <2>1, <2>2, <3>2 DEF SweptIsExpired
    <3>3. QED
      BY <3>1, <3>2
  <2>3. QED
    BY <2>1, <2>2 DEF SweptIsExpired, InHandIsLatest, InHandFor, Expired
<1>6. CASE UNCHANGED <<now, opId, cache, dispatching, gate>>
  BY <1>6 DEF SweptIsExpired, InHandIsLatest, InHandFor, Expired
<1> QED
  BY <1>1, <1>2, <1>3, <1>4, <1>5, <1>6, StepSides DEF GateStep, busVars, gateVars

LEMMA NextCached == GateInvariant /\ CachedByKey /\ [Next]_vars => CachedByKey'
<1> SUFFICES ASSUME GateInvariant, CachedByKey, [Next]_vars PROVE CachedByKey'
  OBVIOUS
<1>1. CASE Dispatch
  <2> DEFINE op == Stamped(Head(stringChIn), opId + 1)
  <2>1. cache' = [cache EXCEPT ![op.key] = op]
    BY <1>1 DEF Dispatch
  <2>2. QED
    BY <2>1 DEF CachedByKey, GateInvariant, KickTypes
<1>2. CASE UNCHANGED cache
  BY <1>2 DEF CachedByKey
<1> QED
  BY <1>1, <1>2, StepSides DEF GateStep, Tick, ApplyToGate, Broadcast, SweepCollect, busVars

\* What a read of the cache may find.
LEMMA CacheTypes == KickTypes => \A k \in Keys : cache[k] \in CachedOps
  BY DEF KickTypes

LEMMA NextSessionTypes ==
  GateInvariant /\ SessionTypes /\ [Next]_vars => SessionTypes'
<1> SUFFICES ASSUME GateInvariant, SessionTypes, [Next]_vars PROVE SessionTypes'
  OBVIOUS
<1>1. ASSUME UNCHANGED sessionVars, opId' \in Nat, opId <= opId'
      PROVE  SessionTypes'
  <2>1. \A c \in Conns : admission[c].id <= opId'
    BY <1>1 DEF SessionTypes, GateInvariant, KickTypes
  <2>2. QED
    BY <1>1, <2>1 DEF SessionTypes, sessionVars
<1>2. CASE GateStep /\ UNCHANGED sessionVars
  <2>1. opId' \in Nat /\ opId <= opId'
    BY <1>2 DEF GateStep, Tick, Dispatch, ApplyToGate, SweepCollect, busVars, GateInvariant, KickTypes
  <2>2. QED
    BY <1>1, <1>2, <2>1
<1>3. CASE Broadcast
  <2>1. dispatching.op \in CachedOps
    BY <1>3 DEF Broadcast, GateInvariant, KickTypes, InHand
  <2>2. \A c \in Conns : Append(inbox[c], dispatching.op) \in Seq(CachedOps)
    BY <2>1 DEF SessionTypes
  <2>3. inbox' \in [Conns -> Seq(CachedOps)]
    BY <1>3, <2>2 DEF Broadcast, SessionTypes
  <2>4. QED
    BY <1>3, <2>3 DEF Broadcast, SessionTypes
<1>4. ASSUME NEW c \in Conns, SessionStep(c), UNCHANGED <<now, busVars, gateVars>>
      PROVE  SessionTypes'
  <2>0. UNCHANGED opId
    BY <1>4 DEF busVars
  <2>1. CASE Authorise(c)
    <3>1. InGate \in Int /\ InGate <= opId
      BY DEF InGate, GateInvariant, KickTypes
    <3>2. /\ phase' = [phase EXCEPT ![c] = "authorised"]
          /\ admission' = [admission EXCEPT ![c] = [id |-> InGate, at |-> now]]
          /\ UNCHANGED <<toDeliver, inbox>>
      BY <2>1 DEF Authorise
    <3>3. now \in Nat
      BY DEF GateInvariant, KickTypes
    <3> HIDE DEF InGate
    <3>4. admission' \in [Conns -> [id : Int, at : Nat]]
      BY <3>1, <3>2, <3>3 DEF SessionTypes
    <3>5. \A d \in Conns : admission'[d].id <= opId
      BY <3>1, <3>2 DEF SessionTypes
    <3>6. QED
      BY <2>0, <3>2, <3>4, <3>5 DEF SessionTypes, Phases
  <2>2. CASE Register(c) \/ SetReceiveSender(c)
    BY <2>0, <2>2 DEF Register, SetReceiveSender, SessionTypes, Phases
  <2>3. CASE BackfillRead(c)
    <3>1. Backfilled(c) \subseteq CachedOps
      BY CacheTypes DEF GateInvariant, Backfilled
    <3>2. QED
      BY <2>0, <2>3, <3>1 DEF BackfillRead, SessionTypes
  <2>4. CASE BackfillDeliver(c)
    <3>1. PICK op \in toDeliver[c] : /\ inbox' = [inbox EXCEPT ![c] = Append(@, op)]
                                     /\ toDeliver' = [toDeliver EXCEPT ![c] = @ \ {op}]
      BY <2>4 DEF BackfillDeliver
    <3>2. Append(inbox[c], op) \in Seq(CachedOps)
      BY DEF SessionTypes
    <3>3. QED
      BY <2>0, <2>4, <3>1, <3>2 DEF BackfillDeliver, SessionTypes
  <2>5. CASE InspectIncomingEnvelope(c)
    <3>1. inbox[c] \in Seq(CachedOps) /\ inbox[c] # <<>>
      BY <2>5 DEF InspectIncomingEnvelope, SessionTypes
    <3>2. Tail(inbox[c]) \in Seq(CachedOps)
      BY <3>1
    <3>3. CASE Over(c, "kicked")
      BY <2>0, <3>3 DEF Over, SessionTypes, Phases
    <3>4. CASE inbox' = [inbox EXCEPT ![c] = Tail(@)] /\ UNCHANGED <<phase, toDeliver, admission>>
      BY <2>0, <3>2, <3>4 DEF SessionTypes
    <3>5. QED
      BY <2>5, <3>3, <3>4 DEF InspectIncomingEnvelope
  <2>6. CASE Leave(c)
    BY <2>0, <2>6 DEF Leave, Over, SessionTypes, Phases
  <2>7. QED
    BY <1>4, <2>1, <2>2, <2>3, <2>4, <2>5, <2>6 DEF SessionStep
<1>5. CASE UNCHANGED <<now, opId, cache, dispatching, gate, sessionVars>>
  BY <1>1, <1>5 DEF GateInvariant, KickTypes
<1> QED
  BY <1>2, <1>3, <1>4, <1>5, StepSides

\* The kicks a session is let in with: those the gate has not heard of yet, and
\* those it has let expire.
LEMMA AuthorisedNews ==
  ASSUME GateInvariant, SessionTypes, CachedByKey, SweptIsExpired, InHandIsLatest,
         NEW c \in Conns, Authorise(c), NEW k \in Keys, Targets(cache[k], c)
  PROVE  \/ cache[k].id > admission'[c].id
         \/ cache[k].deadline # Forever /\ cache[k].deadline <= admission'[c].at
<1>1. admission'[c] = [id |-> InGate, at |-> now]
  BY DEF Authorise, SessionTypes
<1>2. cache[k].deadline \in Nat /\ ~cache[k].tomb /\ now \in Nat /\ opId \in Nat
  BY DEF Targets, GateInvariant, KickTypes, CachedOps
<1>3. c \in Concerned[k]
  BY DEF Targets, CachedByKey
<1>4. CASE InHandFor(k)
  <2>1. dispatching \in InHand /\ cache[k].id = opId /\ InGate = opId - 1
    BY <1>4 DEF InHandFor, InHandIsLatest, GateInvariant, KickTypes, InHandIsCached, InGate
  <2>2. QED
    BY <1>1, <1>2, <2>1
<1>5. CASE ~InHandFor(k) /\ gate[k] = Nothing
  BY <1>1, <1>2, <1>5 DEF SweptIsExpired, Expired
<1>6. CASE ~InHandFor(k) /\ gate[k] # Nothing
  <2>1. gate[k] = cache[k].deadline
    BY <1>2, <1>6 DEF GateInvariant, Reflected, Shown, InHandFor
  <2>2. ~(gate[k] = Forever \/ gate[k] > now)
    BY <1>3, <1>6 DEF Authorise, IsKicked
  <2>3. QED
    BY <1>1, <1>2, <2>1, <2>2
<1> QED
  BY <1>4, <1>5, <1>6

\* An op that is news may be put into the inbox.
LEMMA AppendedNews ==
  ASSUME NEW c \in Conns, NEW q \in Seq(CachedOps), NEW op \in CachedOps,
         \A i \in DOMAIN q : Targets(q[i], c) => News(q[i], c),
         Targets(op, c) => News(op, c)
  PROVE  \A i \in DOMAIN Append(q, op) : Targets(Append(q, op)[i], c) => News(Append(q, op)[i], c)
<1> SUFFICES ASSUME NEW i \in DOMAIN Append(q, op)
             PROVE  Targets(Append(q, op)[i], c) => News(Append(q, op)[i], c)
  OBVIOUS
<1>1. (i \in DOMAIN q /\ Append(q, op)[i] = q[i]) \/ Append(q, op)[i] = op
  OBVIOUS
<1>2. QED
  BY <1>1

\* A step that gives a session no op but news.
LEMMA QuietNews ==
  ASSUME NEW c \in Conns, NewsFor(c), admission'[c] = admission[c], cache' = cache,
         phase[c] = "new" => phase'[c] = "new" /\ inbox'[c] = inbox[c] /\ toDeliver'[c] = toDeliver[c],
         phase[c] # "new" => phase'[c] # "new",
         phase'[c] \in {"authorised", "joined"} =>
           /\ phase[c] \in {"authorised", "joined"}
           /\ \A op \in toDeliver'[c] : Targets(op, c) => News(op, c)
           /\ \A i \in DOMAIN inbox'[c] : Targets(inbox'[c][i], c) => News(inbox'[c][i], c)
  PROVE  NewsFor(c)'
<1>1. ASSUME NEW op PROVE Targets(op, c)' = Targets(op, c) /\ (News(op, c)' <=> News(op, c))
  BY DEF Targets, News
<1>2. QED
  BY <1>1 DEF NewsFor

LEMMA NextNews ==
  GateInvariant /\ NewsInvariant /\ [Next]_vars => OnlyNews'
<1> SUFFICES ASSUME GateInvariant, NewsInvariant, [Next]_vars PROVE OnlyNews'
  OBVIOUS
<1>0. /\ SessionTypes /\ KickTypes
      /\ \A c \in Conns : NewsFor(c)
  BY DEF NewsInvariant, OnlyNews, GateInvariant
<1> SUFFICES ASSUME NEW d \in Conns PROVE NewsFor(d)'
  BY DEF OnlyNews
<1>1. ASSUME UNCHANGED cache,
             phase'[d] = phase[d], inbox'[d] = inbox[d], toDeliver'[d] = toDeliver[d], admission'[d] = admission[d]
      PROVE  NewsFor(d)'
  BY <1>0, <1>1 DEF NewsFor, Targets, News
<1>2. CASE Dispatch
  <2> DEFINE op == Stamped(Head(stringChIn), opId + 1)
  <2>1. cache' = [cache EXCEPT ![op.key] = op] /\ UNCHANGED sessionVars
    BY <1>2 DEF Dispatch
  <2>2. op.id > admission[d].id
    BY <1>0 DEF SessionTypes, KickTypes, Stamped
  <2> HIDE DEF op
  <2>3. ASSUME NEW k \in Keys, phase[d] \in {"authorised", "joined"}, Targets(cache'[k], d)
        PROVE  News(cache'[k], d)
    <3>1. CASE cache'[k] = op
      BY <2>2, <3>1 DEF News
    <3>2. CASE cache'[k] = cache[k]
      BY <1>0, <2>3, <3>2 DEF NewsFor
    <3>3. QED
      BY <1>0, <2>1, <3>1, <3>2 DEF KickTypes
  <2>4. QED
    BY <1>0, <2>1, <2>3 DEF NewsFor, Targets, News, sessionVars
<1>3. CASE Broadcast
  <2>1. /\ UNCHANGED <<cache, phase, toDeliver, admission>>
        /\ inbox'[d] = IF phase[d] = "joined" THEN Append(inbox[d], dispatching.op) ELSE inbox[d]
    BY <1>3 DEF Broadcast
  <2>2. CASE phase[d] = "joined"
    <3>1. dispatching \in InHand /\ dispatching # Nothing
      BY <1>0, <1>3 DEF Broadcast, KickTypes
    <3>2. /\ dispatching.op \in CachedOps /\ dispatching.op.key \in Keys
          /\ cache[dispatching.op.key] = dispatching.op
      BY <3>1 DEF GateInvariant, InHandIsCached, InHand, CachedOps
    <3>3. inbox[d] \in Seq(CachedOps)
      BY <1>0 DEF SessionTypes
    <3>4. /\ Targets(dispatching.op, d) => News(dispatching.op, d)
          /\ \A i \in DOMAIN inbox[d] : Targets(inbox[d][i], d) => News(inbox[d][i], d)
          /\ \A op \in toDeliver[d] : Targets(op, d) => News(op, d)
      BY <1>0, <2>2, <3>2 DEF NewsFor
    <3>5. \A i \in DOMAIN inbox'[d] : Targets(inbox'[d][i], d) => News(inbox'[d][i], d)
      BY <2>1, <2>2, <3>2, <3>3, <3>4, AppendedNews
    <3>6. QED
      BY <1>0, <2>1, <2>2, <3>4, <3>5, QuietNews
  <2>3. CASE phase[d] # "joined"
    BY <1>1, <2>1, <2>3
  <2>4. QED
    BY <2>2, <2>3
<1>4. ASSUME NEW c \in Conns, SessionStep(c), UNCHANGED <<now, busVars, gateVars>>
      PROVE  NewsFor(d)'
  <2>1. UNCHANGED cache
    BY <1>4 DEF busVars
  <2>2. CASE c # d
    <3>1. /\ phase'[d] = phase[d] /\ inbox'[d] = inbox[d]
          /\ toDeliver'[d] = toDeliver[d] /\ admission'[d] = admission[d]
      BY <1>0, <1>4, <2>2 DEF SessionStep, Authorise, Register, SetReceiveSender, BackfillRead,
         BackfillDeliver, InspectIncomingEnvelope, Leave, Over, SessionTypes
    <3>2. QED
      BY <1>1, <2>1, <3>1
  <2>3. CASE c = d /\ Authorise(c)
    <3>1. /\ phase[d] = "new" /\ phase'[d] = "authorised"
          /\ UNCHANGED <<inbox, toDeliver>>
      BY <1>0, <2>3 DEF Authorise, SessionTypes
    <3>2. inbox'[d] = <<>> /\ toDeliver'[d] = {}
      BY <1>0, <3>1 DEF NewsFor
    <3>3. ASSUME NEW k \in Keys, Targets(cache[k], d)
          PROVE  News(cache[k], d)'
      <4>1. \/ cache[k].id > admission'[d].id
            \/ cache[k].deadline # Forever /\ cache[k].deadline <= admission'[d].at
        BY <2>3, <3>3, AuthorisedNews DEF NewsInvariant
      <4>2. QED
        BY <2>1, <4>1 DEF News
    <3>4. QED
      BY <2>1, <3>1, <3>2, <3>3 DEF NewsFor, Targets
  <2>4. CASE c = d /\ Register(c)
    <3>1. /\ phase[d] = "authorised" /\ phase'[d] = "joined"
          /\ UNCHANGED <<inbox, toDeliver, admission>>
      BY <1>0, <2>4 DEF Register, SessionTypes
    <3>2. QED
      BY <1>0, <2>1, <3>1, QuietNews DEF NewsFor
  <2>5. CASE c = d /\ SetReceiveSender(c)
    BY <1>1, <2>1, <2>5 DEF SetReceiveSender
  <2>6. CASE c = d /\ BackfillRead(c)
    <3>1. /\ phase[d] = "joined" /\ UNCHANGED <<phase, inbox, admission>>
          /\ toDeliver'[d] = Backfilled(d)
      BY <1>0, <2>6 DEF BackfillRead, SessionTypes
    <3>2. \A op \in Backfilled(d) : Targets(op, d) => News(op, d)
      BY <1>0, <3>1 DEF Backfilled, NewsFor
    <3>3. QED
      BY <1>0, <2>1, <3>1, <3>2, QuietNews DEF NewsFor
  <2>7. CASE c = d /\ BackfillDeliver(c)
    <3>1. PICK op \in toDeliver[d] : /\ inbox' = [inbox EXCEPT ![d] = Append(@, op)]
                                     /\ toDeliver' = [toDeliver EXCEPT ![d] = @ \ {op}]
      BY <2>7 DEF BackfillDeliver
    <3>2. /\ phase[d] = "joined" /\ UNCHANGED <<phase, admission>>
          /\ inbox'[d] = Append(inbox[d], op) /\ toDeliver'[d] = toDeliver[d] \ {op}
      BY <1>0, <2>7, <3>1 DEF BackfillDeliver, SessionTypes
    <3>3. inbox[d] \in Seq(CachedOps) /\ op \in CachedOps
      BY <1>0 DEF SessionTypes
    <3>4. /\ \A x \in toDeliver[d] : Targets(x, d) => News(x, d)
          /\ \A i \in DOMAIN inbox[d] : Targets(inbox[d][i], d) => News(inbox[d][i], d)
      BY <1>0, <3>2 DEF NewsFor
    <3>5. \A i \in DOMAIN inbox'[d] : Targets(inbox'[d][i], d) => News(inbox'[d][i], d)
      BY <3>2, <3>3, <3>4, AppendedNews
    <3>6. QED
      BY <1>0, <2>1, <3>2, <3>4, <3>5, QuietNews
  <2>8. CASE c = d /\ (InspectIncomingEnvelope(c) \/ Leave(c))
    <3>1. CASE \E how \in {"kicked", "left"} : Over(d, how) /\ phase[d] = "joined"
      <4>1. phase'[d] \in {"kicked", "left"} /\ phase[d] = "joined" /\ UNCHANGED admission
        BY <1>0, <3>1 DEF Over, SessionTypes
      <4>2. QED
        BY <1>0, <2>1, <4>1, QuietNews
    <3>2. CASE /\ phase[d] = "joined" /\ inbox[d] # <<>>
               /\ inbox' = [inbox EXCEPT ![d] = Tail(@)] /\ UNCHANGED <<phase, toDeliver, admission>>
      <4>1. inbox'[d] = Tail(inbox[d]) /\ inbox[d] \in Seq(CachedOps)
        BY <1>0, <3>2 DEF SessionTypes
      <4>2. \A i \in DOMAIN Tail(inbox[d]) : i + 1 \in DOMAIN inbox[d] /\ Tail(inbox[d])[i] = inbox[d][i + 1]
        BY <3>2, <4>1
      <4>3. \A i \in DOMAIN inbox'[d] : Targets(inbox'[d][i], d) => News(inbox'[d][i], d)
        BY <1>0, <3>2, <4>1, <4>2 DEF NewsFor
      <4>4. QED
        BY <1>0, <2>1, <3>2, <4>3, QuietNews DEF NewsFor
    <3>3. QED
      BY <2>8, <3>1, <3>2 DEF InspectIncomingEnvelope, Leave
  <2>9. QED
    BY <1>4, <2>2, <2>3, <2>4, <2>5, <2>6, <2>7, <2>8 DEF SessionStep
<1>5. CASE UNCHANGED cache /\ UNCHANGED sessionVars
  BY <1>1, <1>5 DEF sessionVars
<1> QED
  BY <1>2, <1>3, <1>4, <1>5, StepSides
     DEF GateStep, Tick, ApplyToGate, SweepCollect, busVars

\* A session is ended by no kick its authorisation should have seen: the op is
\* younger than what the gate knew then, or had run out by then.
THEOREM KickIsNews == Spec => KickedByNews
<1> DEFINE Ended(c) == phase[c] = "joined" /\ phase'[c] = "kicked" => News(Head(inbox[c]), c)
<1>1. Init => GateInvariant /\ NewsInvariant
  BY InitEstablishes, InitNews
<1>2. GateInvariant /\ NewsInvariant /\ [Next]_vars => (GateInvariant /\ NewsInvariant)'
  BY StepKeeps, NextSwept, NextCached, NextSessionTypes, NextNews DEF NewsInvariant
<1>3. ASSUME GateInvariant, NewsInvariant, [Next]_vars, NEW c \in Conns
      PROVE  Ended(c)
  <2> SUFFICES ASSUME phase[c] = "joined", phase'[c] = "kicked"
               PROVE  News(Head(inbox[c]), c)
    OBVIOUS
  <2>1. phase \in [Conns -> Phases] /\ inbox[c] \in Seq(CachedOps)
    BY <1>3 DEF NewsInvariant, SessionTypes
  <2>2. PICK d \in Conns : SessionStep(d)
    BY <1>3, StepSides DEF Broadcast, sessionVars
  <2>3. InspectIncomingEnvelope(c)
    BY <2>1, <2>2 DEF SessionStep, Authorise, Register, SetReceiveSender, BackfillRead, BackfillDeliver,
       InspectIncomingEnvelope, Leave, Over
  <2>4. inbox[c] # <<>> /\ Targets(Head(inbox[c]), c)
    BY <2>3 DEF InspectIncomingEnvelope
  <2>5. 1 \in DOMAIN inbox[c] /\ Head(inbox[c]) = inbox[c][1]
    BY <2>1, <2>4
  <2>6. QED
    BY <1>3, <2>4, <2>5 DEF NewsInvariant, OnlyNews, NewsFor
<1>4. GateInvariant /\ NewsInvariant /\ [Next]_vars =>
        [\A c \in Conns :
           phase[c] = "joined" /\ phase'[c] = "kicked" =>
             LET op == Head(inbox[c])
             IN \/ op.id > admission[c].id
                \/ op.deadline # Forever /\ op.deadline <= admission[c].at]_vars
  BY <1>3 DEF News
<1> QED
  BY <1>1, <1>2, <1>4, PTL DEF Spec, KickedByNews
================================================================================
