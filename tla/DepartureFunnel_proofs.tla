------------------------ MODULE DepartureFunnel_proofs ------------------------
(***************************************************************************)
(* One session per identity, and what rests on it, for every instance of   *)
(* the constants of DepartureFunnel; first that every variable keeps its   *)
(* type, which is inductive by itself, with one lemma per action or group  *)
(* of actions that touch the same variables.                               *)
(*                                                                         *)
(* OneSessionPerIdentity is not inductive: that an installation finds its  *)
(* identity free depends on who holds the mutex, that a departure clears   *)
(* the right map entries depends on what it captured.  Ownership adds what *)
(* is missing.                                                             *)
(*                                                                         *)
(* Next, that the funnel implements SessionLifecycle: FactoryInstall is a  *)
(* Join, Release is a Leave, every other step leaves Occupant and Phase as *)
(* they are.  Ownership makes the two visible steps legal: an installation *)
(* finds its identity unoccupied, and who releases is the occupant.        *)
(*                                                                         *)
(* Last, order in the two queues and what it does for encoders.            *)
(***************************************************************************)
EXTENDS DepartureFunnel, TLAPS

\* The assumptions on the constants are used throughout.
USE EntriesAssumption, BoundsAssumption

LEMMA InitType == Init => TypeOK
  BY DEF Init, TypeOK, Entries, Keys, EntryState, AdmPc, DepPc, DecoderState, Message,
         CacheEntry, Change, Node, Mixer, MixerIdle

LEMMA BeginDepartureType ==
  ASSUME TypeOK, NEW e \in Entries, BeginDeparture(e)
  PROVE  /\ entry' \in [Entries -> EntryState]
         /\ depPc' \in [Entries -> DepPc]
         /\ closed' \subseteq Conns
  BY DEF TypeOK, BeginDeparture, EntryState, DepPc, Killed, Entries

LEMMA SeverType ==
  ASSUME TypeOK, NEW e \in Entries, Sever(e)
  PROVE  TypeOK'
  BY DEF TypeOK, Sever, DepPc, registryVars, admitVars, mapVars, busVars, mixVars, Entries

LEMMA CollectKeysType ==
  ASSUME TypeOK, NEW e \in Entries, CollectKeys(e)
  PROVE  TypeOK'
<1>1. KeysToSweep(e) \subseteq Keys
  BY DEF TypeOK, KeysToSweep, Entries, Keys
<1>2. sweep' \in [Entries -> SUBSET Keys]
  BY <1>1 DEF TypeOK, CollectKeys
<1>3. QED
  BY <1>2 DEF TypeOK, CollectKeys, DepPc, registryVars, admitVars, mapVars, busVars, mixVars

LEMMA AnnounceType ==
  ASSUME TypeOK, NEW e \in Entries, Announce(e)
  PROVE  TypeOK'
<1>1. strIn' \in Seq(Message)
  <2>1. CASE sweep[e] = {}
    BY <2>1 DEF Announce, TypeOK
  <2>2. CASE sweep[e] # {}
    <3>1. [kind |-> "tomb", keys |-> sweep[e], by |-> e] \in Message
      BY DEF Message, TypeOK
    <3>2. strIn' = Append(strIn, [kind |-> "tomb", keys |-> sweep[e], by |-> e])
      BY <2>2 DEF Announce
    <3>3. strIn \in Seq(Message)
      BY DEF TypeOK
    <3>4. QED
      BY <3>1, <3>2, <3>3
  <2>3. QED BY <2>1, <2>2
<1>2. sweep' \in [Entries -> SUBSET Keys]
  BY DEF TypeOK, Announce
<1>3. QED
  BY <1>1, <1>2 DEF TypeOK, Announce, DepPc, registryVars, admitVars, mapVars, clientVars, mixVars

LEMMA EnqueueDeleteType ==
  ASSUME TypeOK, NEW e \in Entries, EnqueueDelete(e)
  PROVE  TypeOK'
<1>1. queue' \in Seq(Change)
  <2>1. [op |-> "DELETE", by |-> e] \in Change
    BY DEF Change
  <2>2. queue' = Append(queue, [op |-> "DELETE", by |-> e])
    BY DEF EnqueueDelete
  <2>3. queue \in Seq(Change)
    BY DEF TypeOK
  <2>4. QED BY <2>1, <2>2, <2>3
<1>2. QED
  BY <1>1 DEF TypeOK, EnqueueDelete, DepPc, registryVars, admitVars, mapVars, clientVars, busVars

LEMMA ReleaseType ==
  ASSUME TypeOK, NEW e \in Entries, Release(e)
  PROVE  TypeOK'
<1>1. UuidOf[e] \in Uuids
  BY DEF Entries
<1>2. handlers' \in [Uuids -> Conns \cup {None}] /\ bouncers' \in [Uuids -> Conns \cup {None}]
  BY <1>1 DEF TypeOK, Release
<1>3. pendingFree' \in [Uuids -> SUBSET Conns]
  BY <1>1 DEF TypeOK, Release
<1>4. tracked' \in [Uuids -> [present : BOOLEAN, keys : SUBSET Keys]]
  BY <1>1 DEF TypeOK, Release
<1>5. depPc' \in [Entries -> DepPc]
  BY DEF TypeOK, Release, DepPc
<1>6. QED
  BY <1>2, <1>3, <1>4, <1>5 DEF TypeOK, Release, registryVars, admitVars, clientVars, busVars

LEMMA UnregisterType ==
  ASSUME TypeOK, NEW e \in Entries, Unregister(e)
  PROVE  TypeOK'
  BY DEF TypeOK, Unregister, DepPc, admitVars, mapVars, clientVars, busVars, mixVars, Entries

LEMMA MarkDepartedType ==
  ASSUME TypeOK, NEW e \in Entries, MarkDeparted(e)
  PROVE  TypeOK'
  BY DEF TypeOK, MarkDeparted, EntryState, DepPc, admitVars, mapVars, clientVars, busVars, mixVars

LEMMA AdmitType ==
  ASSUME TypeOK, NEW c \in Conns,
         \/ AdmitFree(c) \/ AdmitOccupied(c) \/ AdmitDeparted(c) \/ AdmitForce(c)
         \/ AdmitRewait(c) \/ AdmitWedged(c)
  PROVE  TypeOK'
<1>0. c \in Entries /\ UuidOf[c] \in Uuids
  BY DEF Entries
<1>1. CASE AdmitFree(c)
  BY <1>1 DEF TypeOK, AdmitFree, AdmPc, registryVars, departVars, mapVars, clientVars, busVars, mixVars
<1>2. CASE AdmitOccupied(c)
  <2>1. admOld' \in [Conns -> Entries \cup {None}] /\ admPc' \in [Conns -> AdmPc]
    BY <1>0, <1>2 DEF TypeOK, AdmitOccupied, AdmPc
  <2>2. closed' \subseteq Conns
    BY <1>2 DEF TypeOK, AdmitOccupied, Killed
  <2>3. QED
    BY <1>2, <2>1, <2>2 DEF TypeOK, AdmitOccupied, registryVars, departVars, mapVars,
       clientVars, busVars, mixVars
<1>3. CASE AdmitDeparted(c)
  BY <1>3 DEF TypeOK, AdmitDeparted, AdmPc, registryVars, departVars, mapVars, clientVars, busVars, mixVars
<1>4. CASE AdmitForce(c)
  <2>1. CASE admOld[c] \in Entries
    <3>1. entry' \in [Entries -> EntryState] /\ depPc' \in [Entries -> DepPc] /\ closed' \subseteq Conns
      BY <1>4, <2>1, BeginDepartureType DEF AdmitForce
    <3>2. QED
      BY <1>4, <3>1 DEF TypeOK, AdmitForce, AdmPc, mapVars, clientVars, busVars, mixVars
  <2>2. CASE admOld[c] = None
    <3>1. entry' \in [Entries -> EntryState] /\ depPc' \in [Entries -> DepPc] /\ closed' \subseteq Conns
      BY <1>4, <2>2 DEF TypeOK, AdmitForce, BeginDeparture, Killed, EntryState, DepPc, Entries
    <3>2. QED
      BY <1>4, <3>1 DEF TypeOK, AdmitForce, AdmPc, mapVars, clientVars, busVars, mixVars
  <2>3. QED
    BY <1>0, <2>1, <2>2 DEF TypeOK
<1>5. CASE AdmitRewait(c)
  BY <1>5 DEF TypeOK, AdmitRewait, AdmPc, registryVars, departVars, mapVars, clientVars, busVars, mixVars
<1>6. CASE AdmitWedged(c)
  BY <1>6 DEF TypeOK, AdmitWedged, AdmPc, registryVars, departVars, mapVars, clientVars, busVars, mixVars
<1>7. QED
  BY <1>1, <1>2, <1>3, <1>4, <1>5, <1>6

LEMMA FactoryType ==
  ASSUME TypeOK, NEW c \in Conns,
         \/ FactoryRefuse(c) \/ FactoryRecheck(c) \/ FactoryInstall(c) \/ HandlerReturned(c)
  PROVE  TypeOK'
<1>0. c \in Entries /\ UuidOf[c] \in Uuids
  BY DEF Entries
<1>1. CASE FactoryRefuse(c)
  BY <1>1 DEF TypeOK, FactoryRefuse, AdmPc, registryVars, departVars, mapVars, clientVars, busVars, mixVars
<1>2. CASE FactoryRecheck(c)
  BY <1>2 DEF TypeOK, FactoryRecheck, AdmPc, registryVars, departVars, mapVars, clientVars, busVars, mixVars
<1>3. CASE FactoryInstall(c)
  <2>1. queue' \in Seq(Change)
    <3>1. [op |-> "ADD", by |-> c] \in Change /\ [op |-> "ENABLE_OUT", by |-> c] \in Change
      BY <1>0 DEF Change
    <3>2. <<[op |-> "ADD", by |-> c], [op |-> "ENABLE_OUT", by |-> c]>> \in Seq(Change)
      BY <3>1
    <3>3. queue' = queue \o <<[op |-> "ADD", by |-> c], [op |-> "ENABLE_OUT", by |-> c]>>
      BY <1>3 DEF FactoryInstall
    <3>4. queue \in Seq(Change)
      BY DEF TypeOK
    <3>5. QED BY <3>2, <3>3, <3>4
  <2>2. decoder' \in [Conns -> DecoderState]
    BY <1>3 DEF TypeOK, FactoryInstall, GetDecoder, DecoderState
  <2>3. registry' \in [Uuids -> Entries \cup {None}] /\ entry' \in [Entries -> EntryState]
    BY <1>0, <1>3 DEF TypeOK, FactoryInstall, EntryState
  <2>4. handlers' \in [Uuids -> Conns \cup {None}] /\ bouncers' \in [Uuids -> Conns \cup {None}]
    BY <1>0, <1>3 DEF TypeOK, FactoryInstall
  <2>5. open' \subseteq Conns /\ lock' \in Conns \cup {None} /\ admPc' \in [Conns -> AdmPc]
    BY <1>3 DEF TypeOK, FactoryInstall, AdmPc
  <2>6. QED
    BY <1>3, <2>1, <2>2, <2>3, <2>4, <2>5 DEF TypeOK, FactoryInstall, departVars, busVars
<1>4. CASE HandlerReturned(c)
  BY <1>4 DEF TypeOK, HandlerReturned, AdmPc, registryVars, departVars, mapVars, clientVars, busVars, mixVars
<1>5. QED
  BY <1>1, <1>2, <1>3, <1>4

LEMMA SendType ==
  ASSUME TypeOK, NEW c \in Conns, NEW ks \in SUBSET Keys,
         strIn' = Append(strIn, [kind |-> "set", keys |-> ks, by |-> c])
  PROVE  strIn' \in Seq(Message)
<1>1. [kind |-> "set", keys |-> ks, by |-> c] \in Message
  BY DEF Message, Entries
<1>2. strIn \in Seq(Message)
  BY DEF TypeOK
<1>3. QED
  BY <1>1, <1>2

LEMMA ClientType ==
  ASSUME TypeOK, NEW c \in Conns, ClientStep(c)
  PROVE  TypeOK'
<1>0. c \in Entries /\ UuidOf[c] \in Uuids
  BY DEF Entries
<1>1. CASE TransportCloses(c)
  BY <1>1 DEF TypeOK, TransportCloses, registryVars, admitVars, departVars, mapVars, clientVars, busVars, mixVars
<1>2. CASE OwnerStops(c)
  <2>1. entry' \in [Entries -> EntryState] /\ depPc' \in [Entries -> DepPc] /\ closed' \subseteq Conns
    BY <1>0, <1>2, BeginDepartureType DEF OwnerStops, TypeOK
  <2>2. QED
    BY <1>2, <2>1 DEF TypeOK, OwnerStops, admitVars, mapVars, clientVars, busVars, mixVars
<1>3. CASE OwnerFindsNoHandler(c)
  BY <1>3 DEF TypeOK, OwnerFindsNoHandler, registryVars, admitVars, departVars, mapVars, clientVars, busVars, mixVars
<1>4. CASE ReconcileDead(c)
  <2>1. entry' \in [Entries -> EntryState] /\ depPc' \in [Entries -> DepPc] /\ closed' \subseteq Conns
    BY <1>0, <1>4, BeginDepartureType DEF ReconcileDead
  <2>2. QED
    BY <1>4, <2>1 DEF TypeOK, ReconcileDead, admitVars, mapVars, clientVars, busVars, mixVars
<1>5. CASE Publish(c)
  <2>1. strIn' \in Seq(Message)
    BY <1>5, SendType DEF Publish, Keys
  <2>2. QED
    BY <1>5, <2>1 DEF TypeOK, Publish, registryVars, admitVars, departVars, mapVars, mixVars
<1>6. CASE \E k \in CommandKeys : Command(c, k)
  <2>1. PICK k \in CommandKeys : Command(c, k)
    BY <1>6
  <2>2. {k} \in SUBSET Keys /\ strIn' = Append(strIn, [kind |-> "set", keys |-> {k}, by |-> c])
    BY <2>1 DEF Command, Keys
  <2>3. strIn' \in Seq(Message)
    BY <2>2, SendType
  <2>4. QED
    BY <2>1, <2>3 DEF TypeOK, Command, registryVars, admitVars, departVars, mapVars, clientVars, mixVars
<1>7. QED
  BY <1>1, <1>2, <1>3, <1>4, <1>5, <1>6 DEF ClientStep

LEMMA DispatchType ==
  ASSUME TypeOK, Dispatch
  PROVE  TypeOK'
<1> DEFINE msg == Head(strIn)
           u == UuidOf[msg.by]
<1>1. strIn \in Seq(Message) /\ strIn # <<>>
  BY DEF TypeOK, Dispatch
<1>2. msg \in Message /\ strIn' \in Seq(Message)
  BY <1>1 DEF Dispatch
<1>3. msg.kind \in {"set", "tomb"} /\ msg.keys \subseteq Keys /\ msg.by \in Entries /\ u \in Uuids
  BY <1>2 DEF Message, Entries
<1>4. cache' \in [Uuids -> [Keys -> CacheEntry]]
  <2>1. [kind |-> msg.kind, by |-> msg.by] \in CacheEntry
    BY <1>3 DEF CacheEntry
  <2>2. [k \in Keys |-> IF k \in msg.keys THEN [kind |-> msg.kind, by |-> msg.by] ELSE cache[u][k]]
          \in [Keys -> CacheEntry]
    BY <1>3, <2>1 DEF TypeOK
  <2>3. cache' = [cache EXCEPT ![u] = [k \in Keys |->
                    IF k \in msg.keys THEN [kind |-> msg.kind, by |-> msg.by] ELSE cache[u][k]]]
    BY <1>3 DEF Dispatch, TypeOK
  <2>4. QED
    BY <1>3, <2>2, <2>3 DEF TypeOK
<1>5. tracked' \in [Uuids -> [present : BOOLEAN, keys : SUBSET Keys]]
  <2>1. Track(tracked[u], msg) \in [present : BOOLEAN, keys : SUBSET Keys]
    BY <1>3 DEF Track, TypeOK
  <2>2. tracked' = [tracked EXCEPT ![u] = Track(tracked[u], msg)]
    BY <1>3 DEF Dispatch, TypeOK
  <2>3. QED
    BY <1>3, <2>1, <2>2 DEF TypeOK
<1>6. QED
  BY <1>2, <1>4, <1>5 DEF TypeOK, Dispatch, registryVars, admitVars, departVars, clientVars, mixVars

LEMMA MixerType ==
  ASSUME TypeOK, MixerStep
  PROVE  TypeOK'
<1> DEFINE c == Head(queue).by
           u == UuidOf[Head(queue).by]
<1>0. queue # <<>> => /\ c \in Entries /\ u \in Uuids
                      /\ Tail(queue) \in Seq(Change)
  <2> SUFFICES ASSUME queue # <<>>
               PROVE  c \in Entries /\ u \in Uuids /\ Tail(queue) \in Seq(Change)
    OBVIOUS
  <2>1. queue \in Seq(Change)
    BY DEF TypeOK
  <2>2. Head(queue) \in Change /\ Tail(queue) \in Seq(Change)
    BY <2>1
  <2>3. c \in Entries
    BY <2>2 DEF Change
  <2>4. QED
    BY <2>2, <2>3 DEF Entries
<1>1. CASE MixerAdd
  <2>1. c \in Entries /\ u \in Uuids /\ queue' \in Seq(Change)
    BY <1>0, <1>1 DEF MixerAdd
  <2>2. [by |-> c, input |-> handlers[u], output |-> None] \in Node
    BY <2>1 DEF Node, TypeOK
  <2>3. nodes' \in [Uuids -> Node \cup {None}]
    BY <1>1, <2>1, <2>2 DEF MixerAdd, TypeOK
  <2>4. QED
    BY <1>1, <2>1, <2>3 DEF TypeOK, MixerAdd, registryVars, admitVars, departVars, mapVars, clientVars, busVars
<1>2. CASE MixerEnableOut
  <2>1. u \in Uuids /\ queue' \in Seq(Change)
    BY <1>0, <1>2 DEF MixerEnableOut
  <2>2. nodes' \in [Uuids -> Node \cup {None}]
    <3>1. CASE nodes[u] = None
      BY <1>2, <3>1 DEF MixerEnableOut, TypeOK
    <3>2. CASE nodes[u] # None
      <4>1. nodes[u] \in Node /\ handlers[u] \in Conns \cup {None}
        BY <2>1, <3>2 DEF TypeOK
      <4>2. [nodes[u] EXCEPT !.output = handlers[u]] \in Node
        BY <4>1 DEF Node
      <4>3. nodes' = [nodes EXCEPT ![u] = [nodes[u] EXCEPT !.output = handlers[u]]]
        BY <1>2, <2>1, <3>2 DEF MixerEnableOut, TypeOK
      <4>4. QED
        BY <2>1, <4>2, <4>3 DEF TypeOK
    <3>3. QED BY <3>1, <3>2
  <2>3. QED
    BY <1>2, <2>1, <2>2 DEF TypeOK, MixerEnableOut, registryVars, admitVars, departVars, mapVars, clientVars, busVars
<1>3. CASE MixerDelete
  <2> DEFINE e == Backstop(u)
             departs == nodes[u] # None /\ e # None /\ entry[e] = "live"
  <2>1. u \in Uuids /\ queue' \in Seq(Change)
    BY <1>0, <1>3 DEF MixerDelete
  <2>2. e \in Entries \cup {None}
    BY <2>1 DEF TypeOK, Backstop
  <2>3. entry' \in [Entries -> EntryState] /\ depPc' \in [Entries -> DepPc] /\ closed' \subseteq Conns
    <3>1. CASE departs
      <4>1. e \in Entries /\ BeginDeparture(e)
        BY <1>3, <2>2, <3>1 DEF MixerDelete
      <4>2. QED
        BY <4>1, BeginDepartureType
    <3>2. CASE ~departs
      BY <1>3, <3>2 DEF MixerDelete, TypeOK
    <3>3. QED BY <3>1, <3>2
  <2>4. mixer' \in Mixer
    <3>1. \/ mixer' = mixer
          \/ mixer' = [pc |-> "departing", uuid |-> u, waits |-> e]
          \/ mixer' = [pc |-> "taking", uuid |-> u, waits |-> None]
      BY <1>3 DEF MixerDelete
    <3>2. QED
      BY <2>1, <2>2, <3>1 DEF TypeOK, Mixer
  <2>5. QED
    BY <1>3, <2>1, <2>3, <2>4 DEF TypeOK, MixerDelete, admitVars, mapVars, clientVars, busVars
<1>4. CASE MixerDeparted
  BY <1>4 DEF TypeOK, MixerDeparted, Mixer, registryVars, admitVars, departVars, mapVars, clientVars, busVars
<1>5. CASE MixerFree
  <2>1. decoder' \in [Conns -> DecoderState]
    BY <1>5 DEF TypeOK, MixerFree, DecoderState
  <2>2. pendingFree' \in [Uuids -> SUBSET Conns] /\ nodes' \in [Uuids -> Node \cup {None}]
    BY <1>5 DEF TypeOK, MixerFree
  <2>3. mixer' \in Mixer
    BY <1>5 DEF MixerFree, Mixer, MixerIdle
  <2>4. QED
    BY <1>5, <2>1, <2>2, <2>3 DEF TypeOK, MixerFree, registryVars, admitVars, departVars, mapVars, clientVars, busVars
<1>6. QED
  BY <1>1, <1>2, <1>3, <1>4, <1>5 DEF MixerStep

\* TypeOK is inductive on its own.
LEMMA NextType == TypeOK /\ [Next]_vars => TypeOK'
<1> SUFFICES ASSUME TypeOK, [Next]_vars PROVE TypeOK'
  OBVIOUS
<1>1. ASSUME NEW c \in Conns, AdmitStep(c) PROVE TypeOK'
  BY <1>1, AdmitType, FactoryType DEF AdmitStep
<1>2. ASSUME NEW c \in Conns, ClientStep(c) PROVE TypeOK'
  BY <1>2, ClientType
<1>3. ASSUME NEW e \in Entries, DepartStep(e) PROVE TypeOK'
  BY <1>3, SeverType, CollectKeysType, AnnounceType, EnqueueDeleteType, ReleaseType, UnregisterType,
     MarkDepartedType DEF DepartStep
<1>4. CASE MixerStep
  BY <1>4, MixerType
<1>5. CASE Dispatch
  BY <1>5, DispatchType
<1>6. CASE UNCHANGED vars
  BY <1>6 DEF TypeOK, vars, registryVars, admitVars, departVars, mapVars, clientVars, busVars, mixVars
<1>7. QED
  BY <1>1, <1>2, <1>3, <1>4, <1>5, <1>6 DEF Next

\* Every variable keeps its type, for every instance of the constants.
THEOREM TypeCorrect == Spec => []TypeOK
<1>1. QED
  BY InitType, NextType, PTL DEF Spec

-------------------------------------------------------------------------------
(* One session per identity.                                               *)

\* The entry's state and the place of its departure agree.
PcFollowsEntry ==
  \A e \in Entries :
    /\ entry[e] \in {"none", "live"} <=> depPc[e] = "none"
    /\ entry[e] = "departed" <=> depPc[e] = "done"

\* DepartureFunnel by itself installs no synthetic entry.
NoOrphans == \A o \in Orphans : entry[o] = "none"

\* A connection has an entry from the moment its factory call installed it.
EntryFollowsFactory ==
  \A c \in Conns : entry[c] = "none" <=> admPc[c] \notin {"return", "done"}

\* A wait is for an entry.
WaitsForEntry == \A c \in Conns : admPc[c] = "waiting" => admOld[c] \in Entries

\* The factory call between the re-check and the installation is the one that
\* holds the mutex, and its identity is free.
LockReserves ==
  \A c \in Conns :
    /\ admPc[c] = "install" <=> lock = c
    /\ admPc[c] = "install" => registry[UuidOf[c]] = None

\* A registered entry is a session of that uuid that has not departed.
RegisteredIsCurrent ==
  \A u \in Uuids : registry[u] # None =>
    /\ registry[u] \in Conns
    /\ UuidOf[registry[u]] = u
    /\ Occupies(registry[u]) \/ depPc[registry[u]] = "unregister"

\* A session that occupies its identity is registered and in both maps.
OccupantOwnsAll ==
  \A c \in Conns : Occupies(c) =>
    /\ registry[UuidOf[c]] = c
    /\ handlers[UuidOf[c]] = c
    /\ bouncers[UuidOf[c]] = c

\* And nobody else is in a map.
MapsHoldOccupants ==
  \A u \in Uuids :
    /\ handlers[u] # None => UuidOf[handlers[u]] = u /\ Occupies(handlers[u])
    /\ bouncers[u] # None => UuidOf[bouncers[u]] = u /\ Occupies(bouncers[u])

\* A departure has captured its own session's handler and bouncer.
ClaimsAreOwn ==
  \A e \in Entries : depPc[e] \in {"collect", "announce", "delete", "release"} =>
    claimH[e] = e /\ claimB[e] = e

Ownership ==
  /\ PcFollowsEntry
  /\ NoOrphans
  /\ EntryFollowsFactory
  /\ WaitsForEntry
  /\ LockReserves
  /\ RegisteredIsCurrent
  /\ OccupantOwnsAll
  /\ MapsHoldOccupants
  /\ ClaimsAreOwn

OwnershipVars == <<registry, entry, admPc, admOld, lock, depPc, claimH, claimB, handlers, bouncers>>

USE EntriesAssumption

-------------------------------------------------------------------------------
(* Init and the steps that leave the ownership state alone.                *)

LEMMA InitOwnership == Init => Ownership
  BY DEF Init, Ownership, PcFollowsEntry, NoOrphans, EntryFollowsFactory, WaitsForEntry,
     LockReserves, RegisteredIsCurrent, OccupantOwnsAll, MapsHoldOccupants, ClaimsAreOwn,
     Occupies, Entries

LEMMA UnchangedOwnership ==
  ASSUME Ownership, UNCHANGED OwnershipVars
  PROVE  Ownership'
  BY DEF OwnershipVars, Ownership, PcFollowsEntry, NoOrphans, EntryFollowsFactory,
     WaitsForEntry, LockReserves, RegisteredIsCurrent, OccupantOwnsAll, MapsHoldOccupants,
     ClaimsAreOwn, Occupies

\* The start of a departure: the entry still occupies its identity.
LEMMA BeginOwnership ==
  ASSUME TypeOK, Ownership, NEW e \in Entries, BeginDeparture(e),
         UNCHANGED <<registry, lock, claimH, claimB, handlers, bouncers, admOld>>,
         \A c \in Conns : /\ admPc'[c] \in {"return", "done"} <=> admPc[c] \in {"return", "done"}
                          /\ admPc'[c] = "install" <=> admPc[c] = "install"
                          /\ admPc'[c] = "waiting" => admPc[c] = "waiting"
  PROVE  Ownership'
<1>1. /\ entry[e] = "live" /\ depPc[e] = "none"
      /\ entry' = [entry EXCEPT ![e] = "departing"]
      /\ depPc' = [depPc EXCEPT ![e] = "sever"]
  BY DEF BeginDeparture, Ownership, PcFollowsEntry
<1>2. e \in Conns
  BY <1>1 DEF Ownership, NoOrphans, Entries
<1>3. \A c \in Conns : Occupies(c)' <=> Occupies(c)
  BY <1>1 DEF Occupies, TypeOK, Entries
<1>4. PcFollowsEntry'
  BY <1>1 DEF Ownership, PcFollowsEntry, TypeOK
<1>5. NoOrphans' /\ EntryFollowsFactory' /\ WaitsForEntry'
  BY <1>1, <1>2 DEF Ownership, NoOrphans, EntryFollowsFactory, WaitsForEntry, TypeOK, Entries
<1>6. LockReserves'
  BY DEF Ownership, LockReserves
<1>7. RegisteredIsCurrent'
  BY <1>1, <1>3 DEF Ownership, RegisteredIsCurrent, TypeOK, Entries
<1>8. OccupantOwnsAll'
  BY <1>3 DEF Ownership, OccupantOwnsAll
<1>9. MapsHoldOccupants'
  BY <1>3 DEF Ownership, MapsHoldOccupants, TypeOK
<1>10. ClaimsAreOwn'
  BY <1>1 DEF Ownership, ClaimsAreOwn, TypeOK
<1>11. QED
  BY <1>4, <1>5, <1>6, <1>7, <1>8, <1>9, <1>10 DEF Ownership

-------------------------------------------------------------------------------
(* Departure.                                                              *)

\* A departure that is under way is a connection's.
LEMMA DeparterIsConn ==
  ASSUME TypeOK, Ownership, NEW e \in Entries, depPc[e] \notin {"none", "done"}
  PROVE  e \in Conns /\ entry[e] = "departing"
  BY DEF TypeOK, Ownership, PcFollowsEntry, NoOrphans, Entries, EntryState

LEMMA SeverOwnership ==
  ASSUME TypeOK, Ownership, NEW e \in Entries, Sever(e)
  PROVE  Ownership'
<1>1. depPc[e] = "sever" /\ e \in Conns /\ entry[e] = "departing"
  BY DeparterIsConn DEF Sever
<1>2. Occupies(e)
  BY <1>1 DEF Occupies
<1>3. handlers[UuidOf[e]] = e /\ bouncers[UuidOf[e]] = e
  BY <1>1, <1>2 DEF Ownership, OccupantOwnsAll
<1>4. /\ claimH' = [claimH EXCEPT ![e] = e]
      /\ claimB' = [claimB EXCEPT ![e] = e]
      /\ depPc' = [depPc EXCEPT ![e] = "collect"]
      /\ UNCHANGED <<registry, entry, admPc, admOld, lock, handlers, bouncers>>
  BY <1>1, <1>3 DEF Sever, registryVars, admitVars, mapVars
<1>5. \A c \in Conns : Occupies(c)' <=> Occupies(c)
  BY <1>1, <1>4 DEF Occupies, TypeOK, Entries
<1>6. PcFollowsEntry'
  BY <1>1, <1>4 DEF Ownership, PcFollowsEntry, TypeOK
<1>7. NoOrphans' /\ EntryFollowsFactory' /\ WaitsForEntry' /\ LockReserves'
  BY <1>4 DEF Ownership, NoOrphans, EntryFollowsFactory, WaitsForEntry, LockReserves
<1>8. RegisteredIsCurrent' /\ OccupantOwnsAll' /\ MapsHoldOccupants'
  BY <1>1, <1>4, <1>5 DEF Ownership, RegisteredIsCurrent, OccupantOwnsAll, MapsHoldOccupants,
     TypeOK, Entries
<1>9. ClaimsAreOwn'
  BY <1>1, <1>4 DEF Ownership, ClaimsAreOwn, TypeOK
<1>10. QED
  BY <1>6, <1>7, <1>8, <1>9 DEF Ownership

\* CollectKeys, Announce and EnqueueDelete only move on.
LEMMA AnnounceOwnership ==
  ASSUME TypeOK, Ownership, NEW e \in Entries,
         CollectKeys(e) \/ Announce(e) \/ EnqueueDelete(e)
  PROVE  Ownership'
<1>1. /\ depPc[e] \in {"collect", "announce", "delete"}
      /\ \E to \in {"announce", "delete", "release"} : depPc' = [depPc EXCEPT ![e] = to]
      /\ UNCHANGED <<registry, entry, admPc, admOld, lock, claimH, claimB, handlers, bouncers>>
  BY DEF CollectKeys, Announce, EnqueueDelete, registryVars, admitVars, mapVars
<1>2. \A c \in Conns : Occupies(c)' <=> Occupies(c)
  BY <1>1 DEF Occupies, TypeOK, Entries
<1>3. PcFollowsEntry'
  BY <1>1 DEF Ownership, PcFollowsEntry, TypeOK
<1>4. NoOrphans' /\ EntryFollowsFactory' /\ WaitsForEntry' /\ LockReserves'
  BY <1>1 DEF Ownership, NoOrphans, EntryFollowsFactory, WaitsForEntry, LockReserves
<1>5. RegisteredIsCurrent' /\ OccupantOwnsAll' /\ MapsHoldOccupants'
  BY <1>1, <1>2 DEF Ownership, RegisteredIsCurrent, OccupantOwnsAll, MapsHoldOccupants,
     TypeOK, Entries
<1>6. ClaimsAreOwn'
  BY <1>1 DEF Ownership, ClaimsAreOwn, TypeOK
<1>7. QED
  BY <1>3, <1>4, <1>5, <1>6 DEF Ownership

\* Release takes out exactly what the departing session put in.
LEMMA ReleaseOwnership ==
  ASSUME TypeOK, Ownership, NEW e \in Entries, Release(e)
  PROVE  Ownership'
<1>1. depPc[e] = "release" /\ e \in Conns /\ entry[e] = "departing" /\ UuidOf[e] \in Uuids
  BY DeparterIsConn DEF Release
<1>2. /\ Occupies(e)
      /\ registry[UuidOf[e]] = e /\ handlers[UuidOf[e]] = e /\ bouncers[UuidOf[e]] = e
  BY <1>1 DEF Occupies, Ownership, OccupantOwnsAll
<1>3. claimH[e] = e /\ claimB[e] = e
  BY <1>1 DEF Ownership, ClaimsAreOwn
<1>4. /\ handlers' = [handlers EXCEPT ![UuidOf[e]] = None]
      /\ bouncers' = [bouncers EXCEPT ![UuidOf[e]] = None]
      /\ depPc' = [depPc EXCEPT ![e] = "unregister"]
      /\ UNCHANGED <<registry, entry, admPc, admOld, lock, claimH, claimB>>
  BY <1>1, <1>2, <1>3 DEF Release, registryVars, admitVars, TypeOK
<1>5. \A c \in Conns : Occupies(c)' <=> Occupies(c) /\ c # e
  BY <1>1, <1>4 DEF Occupies, TypeOK, Entries
<1>6. PcFollowsEntry'
  BY <1>1, <1>4 DEF Ownership, PcFollowsEntry, TypeOK
<1>7. NoOrphans' /\ EntryFollowsFactory' /\ WaitsForEntry' /\ LockReserves'
  BY <1>4 DEF Ownership, NoOrphans, EntryFollowsFactory, WaitsForEntry, LockReserves
<1>8. RegisteredIsCurrent'
  BY <1>1, <1>4, <1>5 DEF Ownership, RegisteredIsCurrent, TypeOK, Entries
<1>9. OccupantOwnsAll'
  <2> SUFFICES ASSUME NEW c \in Conns, Occupies(c)'
               PROVE  /\ registry'[UuidOf[c]] = c
                      /\ handlers'[UuidOf[c]] = c
                      /\ bouncers'[UuidOf[c]] = c
    BY DEF OccupantOwnsAll
  <2>1. Occupies(c) /\ c # e
    BY <1>5
  <2>2. registry[UuidOf[c]] = c /\ handlers[UuidOf[c]] = c /\ bouncers[UuidOf[c]] = c
    BY <2>1 DEF Ownership, OccupantOwnsAll
  <2>3. UuidOf[c] # UuidOf[e]
    BY <1>2, <2>1, <2>2
  <2>4. QED
    BY <1>4, <2>2, <2>3 DEF TypeOK
<1>10. MapsHoldOccupants'
  BY <1>1, <1>4, <1>5 DEF Ownership, MapsHoldOccupants, TypeOK
<1>11. ClaimsAreOwn'
  BY <1>1, <1>4 DEF Ownership, ClaimsAreOwn, TypeOK
<1>12. QED
  BY <1>6, <1>7, <1>8, <1>9, <1>10, <1>11 DEF Ownership

LEMMA UnregisterOwnership ==
  ASSUME TypeOK, Ownership, NEW e \in Entries, Unregister(e)
  PROVE  Ownership'
<1>1. depPc[e] = "unregister" /\ e \in Conns /\ entry[e] = "departing" /\ UuidOf[e] \in Uuids
  BY DeparterIsConn DEF Unregister
<1>2. /\ registry' = [registry EXCEPT ![UuidOf[e]] = IF registry[UuidOf[e]] = e THEN None
                                                    ELSE registry[UuidOf[e]]]
      /\ depPc' = [depPc EXCEPT ![e] = "mark"]
      /\ UNCHANGED <<entry, admPc, admOld, lock, claimH, claimB, handlers, bouncers>>
  BY <1>1 DEF Unregister, admitVars, mapVars, TypeOK
<1>3. \A c \in Conns : Occupies(c)' <=> Occupies(c)
  BY <1>1, <1>2 DEF Occupies, TypeOK, Entries
<1>4. ~Occupies(e)
  BY <1>1 DEF Occupies
<1>5. PcFollowsEntry'
  BY <1>1, <1>2 DEF Ownership, PcFollowsEntry, TypeOK
<1>6. NoOrphans' /\ EntryFollowsFactory' /\ WaitsForEntry'
  BY <1>2 DEF Ownership, NoOrphans, EntryFollowsFactory, WaitsForEntry
<1>7. LockReserves'
  BY <1>1, <1>2 DEF Ownership, LockReserves, TypeOK
<1>8. RegisteredIsCurrent'
  BY <1>1, <1>2, <1>3 DEF Ownership, RegisteredIsCurrent, TypeOK, Entries
<1>9. OccupantOwnsAll'
  BY <1>1, <1>2, <1>3, <1>4 DEF Ownership, OccupantOwnsAll, TypeOK
<1>10. MapsHoldOccupants'
  BY <1>2, <1>3 DEF Ownership, MapsHoldOccupants, TypeOK
<1>11. ClaimsAreOwn'
  BY <1>1, <1>2 DEF Ownership, ClaimsAreOwn, TypeOK
<1>12. QED
  BY <1>5, <1>6, <1>7, <1>8, <1>9, <1>10, <1>11 DEF Ownership

LEMMA MarkOwnership ==
  ASSUME TypeOK, Ownership, NEW e \in Entries, MarkDeparted(e)
  PROVE  Ownership'
<1>1. depPc[e] = "mark" /\ e \in Conns /\ entry[e] = "departing"
  BY DeparterIsConn DEF MarkDeparted
<1>2. /\ entry' = [entry EXCEPT ![e] = "departed"]
      /\ depPc' = [depPc EXCEPT ![e] = "done"]
      /\ UNCHANGED <<registry, admPc, admOld, lock, claimH, claimB, handlers, bouncers>>
  BY <1>1 DEF MarkDeparted, admitVars, mapVars
<1>3. \A c \in Conns : Occupies(c)' <=> Occupies(c)
  BY <1>1, <1>2 DEF Occupies, TypeOK, Entries
<1>4. \A u \in Uuids : registry[u] # e
  BY <1>1 DEF Ownership, RegisteredIsCurrent, Occupies
<1>5. PcFollowsEntry'
  BY <1>1, <1>2 DEF Ownership, PcFollowsEntry, TypeOK
<1>6. NoOrphans' /\ EntryFollowsFactory' /\ WaitsForEntry' /\ LockReserves'
  BY <1>1, <1>2 DEF Ownership, NoOrphans, EntryFollowsFactory, WaitsForEntry, LockReserves,
     TypeOK, Entries
<1>7. RegisteredIsCurrent'
  BY <1>1, <1>2, <1>3, <1>4 DEF Ownership, RegisteredIsCurrent, TypeOK, Entries
<1>8. OccupantOwnsAll' /\ MapsHoldOccupants'
  BY <1>2, <1>3 DEF Ownership, OccupantOwnsAll, MapsHoldOccupants, TypeOK
<1>9. ClaimsAreOwn'
  BY <1>1, <1>2 DEF Ownership, ClaimsAreOwn, TypeOK
<1>10. QED
  BY <1>5, <1>6, <1>7, <1>8, <1>9 DEF Ownership

-------------------------------------------------------------------------------
(* Admission and installation.                                             *)

\* A factory call that moves on outside the installation.
LEMMA AdmitMovesOwnership ==
  ASSUME TypeOK, Ownership, NEW c \in Conns, NEW to \in AdmPc \ {"install", "return", "done"},
         admPc[c] \notin {"install", "return", "done"},
         admPc' = [admPc EXCEPT ![c] = to],
         to = "waiting" => admOld'[c] \in Entries,
         \A d \in Conns \ {c} : admOld'[d] = admOld[d],
         UNCHANGED <<registry, entry, lock, depPc, claimH, claimB, handlers, bouncers>>
  PROVE  Ownership'
<1>1. PcFollowsEntry' /\ NoOrphans'
  BY DEF Ownership, PcFollowsEntry, NoOrphans
<1>2. EntryFollowsFactory'
  BY DEF Ownership, EntryFollowsFactory, TypeOK
<1>3. WaitsForEntry'
  BY DEF Ownership, WaitsForEntry, TypeOK
<1>4. LockReserves'
  BY DEF Ownership, LockReserves, TypeOK
<1>5. RegisteredIsCurrent' /\ OccupantOwnsAll' /\ MapsHoldOccupants' /\ ClaimsAreOwn'
  BY DEF Ownership, RegisteredIsCurrent, OccupantOwnsAll, MapsHoldOccupants, ClaimsAreOwn, Occupies
<1>6. QED
  BY <1>1, <1>2, <1>3, <1>4, <1>5 DEF Ownership

\* A registered entry has not departed, so a free identity is one without entry.
LEMMA NotRefusedIsFree ==
  ASSUME TypeOK, Ownership, NEW c \in Conns, ~Refused(c)
  PROVE  registry[UuidOf[c]] = None
<1>1. UuidOf[c] \in Uuids
  BY DEF Entries
<1>2. registry[UuidOf[c]] = None \/ entry[registry[UuidOf[c]]] = "departed"
  BY DEF Refused
<1>3. ASSUME registry[UuidOf[c]] # None PROVE entry[registry[UuidOf[c]]] # "departed"
  <2>1. registry[UuidOf[c]] \in Entries
    BY <1>1, <1>3 DEF TypeOK
  <2>2. Occupies(registry[UuidOf[c]]) \/ depPc[registry[UuidOf[c]]] = "unregister"
    BY <1>1, <1>3 DEF Ownership, RegisteredIsCurrent
  <2>3. QED
    BY <2>1, <2>2 DEF Occupies, Ownership, PcFollowsEntry
<1>4. QED
  BY <1>2, <1>3

LEMMA RecheckOwnership ==
  ASSUME TypeOK, Ownership, NEW c \in Conns, FactoryRecheck(c)
  PROVE  Ownership'
<1>1. /\ admPc[c] = "recheck" /\ lock = None /\ lock' = c
      /\ admPc' = [admPc EXCEPT ![c] = "install"]
      /\ UNCHANGED <<registry, entry, admOld, depPc, claimH, claimB, handlers, bouncers>>
  BY DEF FactoryRecheck, registryVars, departVars, mapVars
<1>2. registry[UuidOf[c]] = None
  BY NotRefusedIsFree DEF FactoryRecheck
<1>3. \A d \in Conns : admPc[d] # "install"
  BY <1>1 DEF Ownership, LockReserves
<1>4. LockReserves'
  BY <1>1, <1>2, <1>3 DEF LockReserves, TypeOK
<1>5. PcFollowsEntry' /\ NoOrphans' /\ EntryFollowsFactory' /\ WaitsForEntry'
  BY <1>1 DEF Ownership, PcFollowsEntry, NoOrphans, EntryFollowsFactory, WaitsForEntry, TypeOK
<1>6. RegisteredIsCurrent' /\ OccupantOwnsAll' /\ MapsHoldOccupants' /\ ClaimsAreOwn'
  BY <1>1 DEF Ownership, RegisteredIsCurrent, OccupantOwnsAll, MapsHoldOccupants, ClaimsAreOwn, Occupies
<1>7. QED
  BY <1>4, <1>5, <1>6 DEF Ownership

\* The installation finds its identity free, so it displaces nobody.
LEMMA InstallOwnership ==
  ASSUME TypeOK, Ownership, NEW c \in Conns, FactoryInstall(c)
  PROVE  Ownership'
<1> DEFINE u == UuidOf[c]
<1>1. c \in Entries /\ u \in Uuids
  BY DEF Entries
<1>2. /\ admPc[c] = "install" /\ lock' = None
      /\ registry' = [registry EXCEPT ![u] = c]
      /\ entry' = [entry EXCEPT ![c] = "live"]
      /\ handlers' = [handlers EXCEPT ![u] = c]
      /\ bouncers' = [bouncers EXCEPT ![u] = c]
      /\ admPc' = [admPc EXCEPT ![c] = "return"]
      /\ UNCHANGED <<admOld, depPc, claimH, claimB>>
  BY DEF FactoryInstall, departVars
<1>3. lock = c /\ registry[u] = None /\ entry[c] = "none" /\ depPc[c] = "none"
  BY <1>1, <1>2 DEF Ownership, LockReserves, EntryFollowsFactory, PcFollowsEntry
<1>4. \A d \in Conns : Occupies(d)' <=> Occupies(d) \/ d = c
  BY <1>1, <1>2, <1>3 DEF Occupies, TypeOK, Entries
<1>5. \A d \in Conns : Occupies(d) => UuidOf[d] # u
  BY <1>3 DEF Ownership, OccupantOwnsAll
<1>6. PcFollowsEntry' /\ NoOrphans'
  BY <1>1, <1>2, <1>3 DEF Ownership, PcFollowsEntry, NoOrphans, TypeOK
<1>7. EntryFollowsFactory' /\ WaitsForEntry'
  BY <1>1, <1>2, <1>3 DEF Ownership, EntryFollowsFactory, WaitsForEntry, TypeOK, Entries
<1>8. LockReserves'
  BY <1>2, <1>3 DEF Ownership, LockReserves, TypeOK
<1>9. RegisteredIsCurrent'
  BY <1>1, <1>2, <1>4 DEF Ownership, RegisteredIsCurrent, TypeOK
<1>10. OccupantOwnsAll'
  <2> SUFFICES ASSUME NEW d \in Conns, Occupies(d)'
               PROVE  /\ registry'[UuidOf[d]] = d
                      /\ handlers'[UuidOf[d]] = d
                      /\ bouncers'[UuidOf[d]] = d
    BY DEF OccupantOwnsAll
  <2>1. CASE d = c
    BY <1>1, <1>2, <2>1 DEF TypeOK
  <2>2. CASE d # c
    <3>1. Occupies(d) /\ UuidOf[d] # u
      BY <1>4, <1>5, <2>2
    <3>2. registry[UuidOf[d]] = d /\ handlers[UuidOf[d]] = d /\ bouncers[UuidOf[d]] = d
      BY <3>1 DEF Ownership, OccupantOwnsAll
    <3>3. QED
      BY <1>2, <3>1, <3>2 DEF TypeOK
  <2>3. QED
    BY <2>1, <2>2
<1>11. MapsHoldOccupants'
  BY <1>1, <1>2, <1>4 DEF Ownership, MapsHoldOccupants, TypeOK
<1>12. ClaimsAreOwn'
  BY <1>2 DEF Ownership, ClaimsAreOwn
<1>13. QED
  BY <1>6, <1>7, <1>8, <1>9, <1>10, <1>11, <1>12 DEF Ownership

LEMMA ReturnedOwnership ==
  ASSUME TypeOK, Ownership, NEW c \in Conns, HandlerReturned(c)
  PROVE  Ownership'
<1>1. /\ admPc[c] = "return" /\ admPc' = [admPc EXCEPT ![c] = "done"]
      /\ UNCHANGED <<registry, entry, admOld, lock, depPc, claimH, claimB, handlers, bouncers>>
  BY DEF HandlerReturned, registryVars, departVars, mapVars
<1>2. EntryFollowsFactory' /\ WaitsForEntry' /\ LockReserves'
  BY <1>1 DEF Ownership, EntryFollowsFactory, WaitsForEntry, LockReserves, TypeOK
<1>3. PcFollowsEntry' /\ NoOrphans' /\ RegisteredIsCurrent' /\ OccupantOwnsAll'
        /\ MapsHoldOccupants' /\ ClaimsAreOwn'
  BY <1>1 DEF Ownership, PcFollowsEntry, NoOrphans, RegisteredIsCurrent, OccupantOwnsAll,
     MapsHoldOccupants, ClaimsAreOwn, Occupies
<1>4. QED
  BY <1>2, <1>3 DEF Ownership

LEMMA AdmitOwnership ==
  ASSUME TypeOK, Ownership, NEW c \in Conns, AdmitStep(c)
  PROVE  Ownership'
<1>0. UuidOf[c] \in Uuids
  BY DEF Entries
<1>1. CASE AdmitFree(c)
  <2>1. "recheck" \in AdmPc \ {"install", "return", "done"}
    BY DEF AdmPc
  <2>2. /\ admPc[c] = "idle" /\ admPc' = [admPc EXCEPT ![c] = "recheck"]
        /\ UNCHANGED <<registry, entry, admOld, lock, depPc, claimH, claimB, handlers, bouncers>>
    BY <1>1 DEF AdmitFree, registryVars, departVars, mapVars
  <2>3. QED
    BY <2>1, <2>2, AdmitMovesOwnership
<1>2. CASE AdmitOccupied(c)
  <2>1. "waiting" \in AdmPc \ {"install", "return", "done"}
    BY DEF AdmPc
  <2>2. /\ admPc[c] = "idle" /\ admPc' = [admPc EXCEPT ![c] = "waiting"]
        /\ registry[UuidOf[c]] # None
        /\ admOld' = [admOld EXCEPT ![c] = registry[UuidOf[c]]]
        /\ UNCHANGED <<registry, entry, lock, depPc, claimH, claimB, handlers, bouncers>>
    BY <1>2 DEF AdmitOccupied, registryVars, departVars, mapVars
  <2>3. admOld'[c] \in Entries /\ \A d \in Conns \ {c} : admOld'[d] = admOld[d]
    BY <1>0, <2>2 DEF TypeOK
  <2>4. QED
    BY <2>1, <2>2, <2>3, AdmitMovesOwnership
<1>3. CASE AdmitDeparted(c)
  <2>1. "recheck" \in AdmPc \ {"install", "return", "done"}
    BY DEF AdmPc
  <2>2. /\ admPc[c] \in {"waiting", "forced", "rewaiting"} /\ admPc' = [admPc EXCEPT ![c] = "recheck"]
        /\ UNCHANGED <<registry, entry, admOld, lock, depPc, claimH, claimB, handlers, bouncers>>
    BY <1>3 DEF AdmitDeparted, registryVars, departVars, mapVars
  <2>3. QED
    BY <2>1, <2>2, AdmitMovesOwnership
<1>4. CASE AdmitForce(c)
  <2>1. /\ admPc[c] = "waiting" /\ admPc' = [admPc EXCEPT ![c] = "forced"]
        /\ BeginDeparture(admOld[c])
        /\ UNCHANGED <<registry, lock, claimH, claimB, handlers, bouncers, admOld>>
    BY <1>4 DEF AdmitForce, mapVars
  <2>2. admOld[c] \in Entries
    BY <2>1 DEF Ownership, WaitsForEntry
  <2>3. \A d \in Conns : /\ admPc'[d] \in {"return", "done"} <=> admPc[d] \in {"return", "done"}
                         /\ admPc'[d] = "install" <=> admPc[d] = "install"
                         /\ admPc'[d] = "waiting" => admPc[d] = "waiting"
    BY <2>1 DEF TypeOK
  <2>4. QED
    BY <2>1, <2>2, <2>3, BeginOwnership
<1>5. CASE AdmitRewait(c)
  <2>1. "rewaiting" \in AdmPc \ {"install", "return", "done"}
    BY DEF AdmPc
  <2>2. /\ admPc[c] = "waiting" /\ admPc' = [admPc EXCEPT ![c] = "rewaiting"]
        /\ UNCHANGED <<registry, entry, admOld, lock, depPc, claimH, claimB, handlers, bouncers>>
    BY <1>5 DEF AdmitRewait, registryVars, departVars, mapVars
  <2>3. QED
    BY <2>1, <2>2, AdmitMovesOwnership
<1>6. CASE AdmitWedged(c)
  <2>1. "rejected" \in AdmPc \ {"install", "return", "done"}
    BY DEF AdmPc
  <2>2. /\ admPc[c] = "rewaiting" /\ admPc' = [admPc EXCEPT ![c] = "rejected"]
        /\ UNCHANGED <<registry, entry, admOld, lock, depPc, claimH, claimB, handlers, bouncers>>
    BY <1>6 DEF AdmitWedged, registryVars, departVars, mapVars
  <2>3. QED
    BY <2>1, <2>2, AdmitMovesOwnership
<1>7. CASE FactoryRefuse(c)
  <2>1. "rejected" \in AdmPc \ {"install", "return", "done"}
    BY DEF AdmPc
  <2>2. /\ admPc[c] = "recheck" /\ admPc' = [admPc EXCEPT ![c] = "rejected"]
        /\ UNCHANGED <<registry, entry, admOld, lock, depPc, claimH, claimB, handlers, bouncers>>
    BY <1>7 DEF FactoryRefuse, registryVars, departVars, mapVars
  <2>3. QED
    BY <2>1, <2>2, AdmitMovesOwnership
<1>8. QED
  BY <1>1, <1>2, <1>3, <1>4, <1>5, <1>6, <1>7, RecheckOwnership, InstallOwnership,
     ReturnedOwnership DEF AdmitStep

-------------------------------------------------------------------------------
(* Clients, mixer, dispatcher.                                             *)

LEMMA ClientOwnership ==
  ASSUME TypeOK, Ownership, NEW c \in Conns, ClientStep(c)
  PROVE  Ownership'
<1>0. c \in Entries
  BY DEF Entries
<1>1. CASE TransportCloses(c) \/ OwnerFindsNoHandler(c) \/ Publish(c)
             \/ \E k \in CommandKeys : Command(c, k)
  <2>1. UNCHANGED OwnershipVars
    BY <1>1 DEF TransportCloses, OwnerFindsNoHandler, Publish, Command, OwnershipVars,
       registryVars, admitVars, departVars, mapVars
  <2>2. QED
    BY <2>1, UnchangedOwnership
<1>2. CASE OwnerStops(c)
  <2>1. CASE entry[c] = "live"
    BY <1>0, <1>2, <2>1, BeginOwnership DEF OwnerStops, admitVars, mapVars
  <2>2. CASE entry[c] # "live"
    BY <1>2, <2>2, UnchangedOwnership DEF OwnerStops, OwnershipVars, admitVars, mapVars
  <2>3. QED
    BY <2>1, <2>2
<1>3. CASE ReconcileDead(c)
  BY <1>0, <1>3, BeginOwnership DEF ReconcileDead, admitVars, mapVars
<1>4. QED
  BY <1>1, <1>2, <1>3 DEF ClientStep

LEMMA MixerOwnership ==
  ASSUME TypeOK, Ownership, MixerStep
  PROVE  Ownership'
<1>1. CASE MixerAdd \/ MixerEnableOut \/ MixerDeparted \/ MixerFree
  <2>1. UNCHANGED OwnershipVars
    BY <1>1 DEF MixerAdd, MixerEnableOut, MixerDeparted, MixerFree,
       OwnershipVars, registryVars, admitVars, departVars, mapVars
  <2>2. QED
    BY <2>1, UnchangedOwnership
<1>2. CASE MixerDelete
  <2> DEFINE u == UuidOf[Head(queue).by]
             e == Backstop(u)
  <2>1. u \in Uuids
    <3>1. queue \in Seq(Change) /\ queue # <<>>
      BY <1>2 DEF TypeOK, MixerDelete
    <3>2. Head(queue) \in Change
      BY <3>1
    <3>3. QED
      BY <3>2 DEF Change, Entries
  <2>2. e \in Entries \cup {None}
    BY <2>1 DEF TypeOK, Backstop
  <2>3. CASE nodes[u] # None /\ e # None /\ entry[e] = "live"
    <3>1. e \in Entries /\ BeginDeparture(e)
      BY <1>2, <2>2, <2>3 DEF MixerDelete
    <3>2. UNCHANGED <<registry, lock, claimH, claimB, handlers, bouncers, admOld, admPc>>
      BY <1>2 DEF MixerDelete, admitVars, mapVars
    <3>3. QED
      BY <3>1, <3>2, BeginOwnership
  <2>4. CASE ~(nodes[u] # None /\ e # None /\ entry[e] = "live")
    <3>1. UNCHANGED OwnershipVars
      BY <1>2, <2>4 DEF MixerDelete, OwnershipVars, admitVars, mapVars
    <3>2. QED
      BY <3>1, UnchangedOwnership
  <2>5. QED
    BY <2>3, <2>4
<1>3. QED
  BY <1>1, <1>2 DEF MixerStep

LEMMA DispatchOwnership ==
  ASSUME TypeOK, Ownership, Dispatch
  PROVE  Ownership'
  BY UnchangedOwnership DEF Dispatch, OwnershipVars, registryVars, admitVars, departVars

LEMMA NextOwnership ==
  TypeOK /\ Ownership /\ [Next]_vars => Ownership'
<1> SUFFICES ASSUME TypeOK, Ownership, [Next]_vars PROVE Ownership'
  OBVIOUS
<1>1. ASSUME NEW c \in Conns, AdmitStep(c) \/ ClientStep(c) PROVE Ownership'
  BY <1>1, AdmitOwnership, ClientOwnership
<1>2. ASSUME NEW e \in Entries, DepartStep(e) PROVE Ownership'
  BY <1>2, SeverOwnership, AnnounceOwnership, ReleaseOwnership, UnregisterOwnership,
     MarkOwnership DEF DepartStep
<1>3. CASE MixerStep
  BY <1>3, MixerOwnership
<1>4. CASE Dispatch
  BY <1>4, DispatchOwnership
<1>5. CASE UNCHANGED vars
  BY <1>5, UnchangedOwnership DEF vars, OwnershipVars, registryVars, admitVars, departVars, mapVars
<1>6. QED
  BY <1>1, <1>2, <1>3, <1>4, <1>5 DEF Next

-------------------------------------------------------------------------------
(* The theorems.                                                           *)

\* Ownership holds of every reachable state: the strengthening is invariant.
THEOREM OwnershipInvariant == Spec => []Ownership
<1>1. Init => Ownership
  BY InitOwnership
<1>2. TypeOK /\ Ownership /\ [Next]_vars => Ownership'
  BY NextOwnership
<1>3. QED
  BY <1>1, <1>2, TypeCorrect, PTL DEF Spec

\* Two sessions of one identity never overlap, however many connections race
\* for however many identities (the admission wait of backend.go's factory).
THEOREM OneSession == Spec => []OneSessionPerIdentity
<1>1. Ownership => OneSessionPerIdentity
  BY DEF Ownership, OccupantOwnsAll, OneSessionPerIdentity
<1>2. QED
  BY <1>1, OwnershipInvariant, PTL

\* The handler and bouncer maps hold nobody but the registered, undeparted
\* session of the uuid (DepartNode's identity-checked release).
THEOREM MapsAgree == Spec => []MapsFollowRegistry
<1>1. TypeOK /\ Ownership => MapsFollowRegistry
  <2> SUFFICES ASSUME TypeOK, Ownership, NEW u \in Uuids
               PROVE  /\ handlers[u] # None => registry[u] = handlers[u] /\ Occupies(handlers[u])
                      /\ bouncers[u] # None => registry[u] = bouncers[u] /\ Occupies(bouncers[u])
    BY DEF MapsFollowRegistry
  <2>1. handlers[u] \in Conns \cup {None} /\ bouncers[u] \in Conns \cup {None}
    BY DEF TypeOK
  <2>2. QED
    BY <2>1 DEF Ownership, MapsHoldOccupants, OccupantOwnsAll
<1>2. QED
  BY <1>1, TypeCorrect, OwnershipInvariant, PTL

-------------------------------------------------------------------------------
(* The refinement.                                                         *)

\* What the abstract state is computed from.
OccupancyVars == <<registry, entry, depPc>>

AbstractStutter == UNCHANGED <<Occupant, Phase>>

(* The steps that SessionLifecycle does not see.                           *)

LEMMA SameOccupants ==
  ASSUME TypeOK, Ownership,
         \A c \in Conns : /\ Occupies(c)' <=> Occupies(c)
                          /\ entry'[c] = "none" <=> entry[c] = "none",
         \A u \in Uuids : \/ registry'[u] = registry[u]
                          \/ registry'[u] = None /\ ~Occupies(registry[u])
  PROVE  AbstractStutter
<1>1. Phase' = Phase
  BY DEF Phase
<1>2. \A u \in Uuids : registry[u] # None => registry[u] \in Conns
  BY DEF Ownership, RegisteredIsCurrent
<1>3. ASSUME NEW u \in Uuids PROVE Occupant[u]' = Occupant[u]
  <2>1. CASE registry'[u] = registry[u]
    <3>1. CASE registry[u] = None
      BY <2>1, <3>1 DEF Occupant
    <3>2. CASE registry[u] # None
      <4>1. (/\ entry'[registry[u]] \in {"live", "departing"}
             /\ depPc'[registry[u]] \in {"none", "sever", "collect", "announce", "delete", "release"})
            <=> Occupies(registry[u])
        BY <1>2, <3>2 DEF Occupies
      <4>2. QED
        BY <2>1, <3>2, <4>1 DEF Occupant, Occupies
    <3>3. QED BY <3>1, <3>2
  <2>2. CASE registry'[u] = None /\ ~Occupies(registry[u])
    BY <2>2 DEF Occupant
  <2>3. QED BY <2>1, <2>2
<1>4. Occupant' = Occupant
  BY <1>3 DEF Occupant
<1>5. QED
  BY <1>1, <1>4 DEF AbstractStutter

LEMMA UnchangedStutter ==
  ASSUME UNCHANGED OccupancyVars
  PROVE  AbstractStutter
  BY DEF OccupancyVars, AbstractStutter, Occupant, Phase, Occupies

\* A departure that starts keeps its session present.
LEMMA BeginStutter ==
  ASSUME TypeOK, Ownership, NEW e \in Entries, BeginDeparture(e), UNCHANGED registry
  PROVE  AbstractStutter
<1>1. /\ entry[e] = "live" /\ depPc[e] = "none"
      /\ entry' = [entry EXCEPT ![e] = "departing"]
      /\ depPc' = [depPc EXCEPT ![e] = "sever"]
  BY DEF BeginDeparture, Ownership, PcFollowsEntry
<1>2. \A c \in Conns : Occupies(c)' <=> Occupies(c)
  BY <1>1 DEF Occupies, TypeOK, Entries
<1>3. \A c \in Conns : entry'[c] = "none" <=> entry[c] = "none"
  BY <1>1 DEF TypeOK, Entries
<1>4. QED
  BY <1>2, <1>3, SameOccupants

\* The departure's steps before and after Release.
LEMMA DepartStutter ==
  ASSUME TypeOK, Ownership, NEW e \in Entries,
         Sever(e) \/ CollectKeys(e) \/ Announce(e) \/ EnqueueDelete(e) \/ Unregister(e) \/ MarkDeparted(e)
  PROVE  AbstractStutter
<1>0. e \in Conns /\ entry[e] = "departing" /\ UuidOf[e] \in Uuids
  BY DeparterIsConn DEF Sever, CollectKeys, Announce, EnqueueDelete, Unregister, MarkDeparted
<1>1. CASE Sever(e) \/ CollectKeys(e) \/ Announce(e) \/ EnqueueDelete(e)
  <2>1. /\ depPc[e] \in {"sever", "collect", "announce", "delete"}
        /\ \E to \in {"collect", "announce", "delete", "release"} : depPc' = [depPc EXCEPT ![e] = to]
        /\ UNCHANGED <<registry, entry>>
    BY <1>1 DEF Sever, CollectKeys, Announce, EnqueueDelete, registryVars
  <2>2. \A c \in Conns : Occupies(c)' <=> Occupies(c)
    BY <2>1 DEF Occupies, TypeOK, Entries
  <2>3. QED
    BY <2>1, <2>2, SameOccupants
<1>2. CASE Unregister(e)
  <2>1. /\ depPc[e] = "unregister" /\ depPc' = [depPc EXCEPT ![e] = "mark"]
        /\ entry' = entry
        /\ registry' = [registry EXCEPT ![UuidOf[e]] = IF registry[UuidOf[e]] = e THEN None
                                                       ELSE registry[UuidOf[e]]]
    BY <1>0, <1>2 DEF Unregister, TypeOK
  <2>2. \A c \in Conns : Occupies(c)' <=> Occupies(c)
    BY <1>0, <2>1 DEF Occupies, TypeOK, Entries
  <2>3. ~Occupies(e)
    BY <2>1 DEF Occupies
  <2>4. \A u \in Uuids : \/ registry'[u] = registry[u]
                         \/ registry'[u] = None /\ ~Occupies(registry[u])
    BY <2>1, <2>3 DEF TypeOK
  <2>5. QED
    BY <2>1, <2>2, <2>4, SameOccupants
<1>3. CASE MarkDeparted(e)
  <2>1. /\ depPc[e] = "mark" /\ depPc' = [depPc EXCEPT ![e] = "done"]
        /\ entry' = [entry EXCEPT ![e] = "departed"]
        /\ registry' = registry
    BY <1>3 DEF MarkDeparted
  <2>2. \A c \in Conns : Occupies(c)' <=> Occupies(c)
    BY <2>1 DEF Occupies, TypeOK, Entries
  <2>3. \A c \in Conns : entry'[c] = "none" <=> entry[c] = "none"
    BY <1>0, <2>1 DEF TypeOK, Entries
  <2>4. QED
    BY <2>1, <2>2, <2>3, SameOccupants
<1>4. QED
  BY <1>1, <1>2, <1>3

-------------------------------------------------------------------------------
(* The two steps it does see.                                              *)

LEMMA InstallJoins ==
  ASSUME TypeOK, Ownership, NEW c \in Conns, FactoryInstall(c)
  PROVE  Lifecycle!Join(c)
<1> DEFINE u == UuidOf[c]
<1>1. c \in Entries /\ u \in Uuids
  BY DEF Entries
<1>2. /\ admPc[c] = "install"
      /\ registry' = [registry EXCEPT ![u] = c]
      /\ entry' = [entry EXCEPT ![c] = "live"]
      /\ depPc' = depPc
  BY DEF FactoryInstall, departVars
<1>3. registry[u] = None /\ entry[c] = "none" /\ depPc[c] = "none"
  BY <1>1, <1>2 DEF Ownership, LockReserves, EntryFollowsFactory, PcFollowsEntry
<1>4. \A d \in Entries : Occupies(d)' <=> Occupies(d) \/ d = c
  BY <1>1, <1>2, <1>3 DEF Occupies, TypeOK
<1>5. Phase[c] = "before" /\ Occupant[u] = None
  BY <1>1, <1>3 DEF Phase, Occupant
<1>6. Phase' = [Phase EXCEPT ![c] = "present"]
  <2>1. \A d \in Conns : entry'[d] = "none" <=> entry[d] = "none" /\ d # c
    BY <1>1, <1>2 DEF TypeOK, Entries
  <2>2. \A d \in Conns \ {c} : Phase'[d] = Phase[d]
    BY <1>4, <2>1 DEF Phase, Entries
  <2>3. Phase'[c] = "present"
    BY <1>1, <1>4, <2>1 DEF Phase
  <2>4. QED
    BY <2>2, <2>3 DEF Phase
<1>7. Occupant' = [Occupant EXCEPT ![u] = c]
  <2>1. Occupant'[u] = c
    <3>1. registry'[u] = c /\ c # None
      BY <1>1, <1>2 DEF TypeOK
    <3>2. Occupies(c)'
      BY <1>1, <1>4
    <3>3. QED
      BY <1>1, <3>1, <3>2 DEF Occupant, Occupies
  <2>2. ASSUME NEW v \in Uuids \ {u} PROVE Occupant'[v] = Occupant[v]
    <3>1. registry'[v] = registry[v]
      BY <1>1, <1>2 DEF TypeOK
    <3>2. CASE registry[v] = None
      BY <3>1, <3>2 DEF Occupant
    <3>3. CASE registry[v] # None
      <4>1. registry[v] \in Entries /\ registry[v] # c
        BY <3>3 DEF Ownership, RegisteredIsCurrent, Entries
      <4>2. entry'[registry[v]] = entry[registry[v]] /\ depPc'[registry[v]] = depPc[registry[v]]
        BY <1>1, <1>2, <4>1 DEF TypeOK
      <4>3. QED
        BY <3>1, <3>3, <4>2 DEF Occupant, Occupies
    <3>4. QED BY <3>2, <3>3
  <2>3. QED
    BY <2>1, <2>2 DEF Occupant
<1>8. QED
  BY <1>5, <1>6, <1>7 DEF Lifecycle!Join

LEMMA ReleaseLeaves ==
  ASSUME TypeOK, Ownership, NEW e \in Entries, Release(e)
  PROVE  e \in Conns /\ Lifecycle!Leave(e)
<1> DEFINE u == UuidOf[e]
<1>1. depPc[e] = "release" /\ e \in Conns /\ entry[e] = "departing" /\ u \in Uuids
  BY DeparterIsConn DEF Release
<1>2. /\ depPc' = [depPc EXCEPT ![e] = "unregister"]
      /\ UNCHANGED <<registry, entry>>
  BY DEF Release, registryVars
<1>3. Occupies(e) /\ registry[u] = e /\ e # None
  BY <1>1 DEF Occupies, Ownership, OccupantOwnsAll
<1>4. \A d \in Entries : Occupies(d)' <=> Occupies(d) /\ d # e
  BY <1>1, <1>2 DEF Occupies, TypeOK
<1>5. Phase[e] = "present" /\ Occupant[u] = e
  BY <1>1, <1>3 DEF Phase, Occupant
<1>6. Phase' = [Phase EXCEPT ![e] = "gone"]
  <2>1. \A d \in Conns \ {e} : Phase'[d] = Phase[d]
    BY <1>2, <1>4 DEF Phase, Entries
  <2>2. Phase'[e] = "gone"
    BY <1>1, <1>2, <1>4 DEF Phase
  <2>3. QED
    BY <2>1, <2>2 DEF Phase
<1>7. Occupant' = [Occupant EXCEPT ![u] = None]
  <2>1. Occupant'[u] = None
    <3>1. registry'[u] = e /\ ~Occupies(e)'
      BY <1>1, <1>2, <1>3, <1>4
    <3>2. QED
      BY <1>1, <3>1 DEF Occupant, Occupies
  <2>2. ASSUME NEW v \in Uuids \ {u} PROVE Occupant'[v] = Occupant[v]
    <3>1. registry'[v] = registry[v]
      BY <1>2
    <3>2. CASE registry[v] = None
      BY <3>1, <3>2 DEF Occupant
    <3>3. CASE registry[v] # None
      <4>1. registry[v] \in Entries /\ registry[v] # e
        BY <3>3 DEF Ownership, RegisteredIsCurrent, Entries
      <4>2. entry'[registry[v]] = entry[registry[v]] /\ depPc'[registry[v]] = depPc[registry[v]]
        BY <1>1, <1>2, <4>1 DEF TypeOK
      <4>3. QED
        BY <3>1, <3>3, <4>2 DEF Occupant, Occupies
    <3>4. QED BY <3>2, <3>3
  <2>3. QED
    BY <2>1, <2>2 DEF Occupant
<1>8. QED
  BY <1>1, <1>5, <1>6, <1>7 DEF Lifecycle!Leave

-------------------------------------------------------------------------------
LEMMA InitRefines == Init => Lifecycle!LifecycleInit
  BY DEF Init, Lifecycle!LifecycleInit, Occupant, Phase, Entries

LEMMA StepRefines ==
  TypeOK /\ Ownership /\ [Next]_vars => [Lifecycle!LifecycleNext]_(Lifecycle!lifecycleVars)
<1> SUFFICES ASSUME TypeOK, Ownership, [Next]_vars
             PROVE  Lifecycle!LifecycleNext \/ AbstractStutter
  BY DEF AbstractStutter, Lifecycle!lifecycleVars
<1>1. ASSUME NEW c \in Conns, AdmitStep(c) PROVE Lifecycle!LifecycleNext \/ AbstractStutter
  <2>1. CASE FactoryInstall(c)
    BY <2>1, InstallJoins DEF Lifecycle!LifecycleNext
  <2>2. CASE AdmitForce(c)
    <3>1. BeginDeparture(admOld[c]) /\ admPc[c] = "waiting" /\ registry' = registry
      BY <2>2 DEF AdmitForce
    <3>2. admOld[c] \in Entries
      BY <3>1 DEF Ownership, WaitsForEntry
    <3>3. QED
      BY <3>1, <3>2, BeginStutter
  <2>3. CASE \/ AdmitFree(c) \/ AdmitOccupied(c) \/ AdmitDeparted(c) \/ AdmitRewait(c)
             \/ AdmitWedged(c) \/ FactoryRefuse(c) \/ FactoryRecheck(c) \/ HandlerReturned(c)
    <3>1. UNCHANGED OccupancyVars
      BY <2>3 DEF AdmitFree, AdmitOccupied, AdmitDeparted, AdmitRewait, AdmitWedged,
         FactoryRefuse, FactoryRecheck, HandlerReturned, OccupancyVars, registryVars, departVars
    <3>2. QED
      BY <3>1, UnchangedStutter
  <2>4. QED
    BY <1>1, <2>1, <2>2, <2>3 DEF AdmitStep
<1>2. ASSUME NEW c \in Conns, ClientStep(c) PROVE AbstractStutter
  <2>0. c \in Entries
    BY DEF Entries
  <2>1. CASE (OwnerStops(c) /\ entry[c] = "live") \/ ReconcileDead(c)
    BY <2>0, <2>1, BeginStutter DEF OwnerStops, ReconcileDead
  <2>2. CASE \/ OwnerStops(c) /\ entry[c] # "live"
             \/ TransportCloses(c) \/ OwnerFindsNoHandler(c) \/ Publish(c)
             \/ \E k \in CommandKeys : Command(c, k)
    <3>1. UNCHANGED OccupancyVars
      BY <2>2 DEF OwnerStops, TransportCloses, OwnerFindsNoHandler, Publish, Command,
         OccupancyVars, registryVars, departVars
    <3>2. QED
      BY <3>1, UnchangedStutter
  <2>3. QED
    BY <1>2, <2>1, <2>2 DEF ClientStep
<1>3. ASSUME NEW e \in Entries, DepartStep(e) PROVE Lifecycle!LifecycleNext \/ AbstractStutter
  BY <1>3, ReleaseLeaves, DepartStutter DEF DepartStep, Lifecycle!LifecycleNext
<1>4. CASE MixerStep
  <2>1. CASE MixerDelete
    <3> DEFINE u == UuidOf[Head(queue).by]
               b == Backstop(u)
    <3>1. b \in Entries \cup {None}
      <4>1. queue \in Seq(Change) /\ queue # <<>>
        BY <2>1 DEF TypeOK, MixerDelete
      <4>2. Head(queue) \in Change
        BY <4>1
      <4>3. u \in Uuids
        BY <4>2 DEF Change, Entries
      <4>4. QED
        BY <4>3 DEF TypeOK, Backstop
    <3>2. CASE nodes[u] # None /\ b # None /\ entry[b] = "live"
      <4>1. b \in Entries /\ BeginDeparture(b) /\ registry' = registry
        BY <2>1, <3>1, <3>2 DEF MixerDelete
      <4>2. QED
        BY <4>1, BeginStutter
    <3>3. CASE ~(nodes[u] # None /\ b # None /\ entry[b] = "live")
      <4>1. UNCHANGED OccupancyVars
        BY <2>1, <3>3 DEF MixerDelete, OccupancyVars
      <4>2. QED
        BY <4>1, UnchangedStutter
    <3>4. QED BY <3>2, <3>3
  <2>2. CASE MixerAdd \/ MixerEnableOut \/ MixerDeparted \/ MixerFree
    <3>1. UNCHANGED OccupancyVars
      BY <2>2 DEF MixerAdd, MixerEnableOut, MixerDeparted, MixerFree,
         OccupancyVars, registryVars, departVars
    <3>2. QED
      BY <3>1, UnchangedStutter
  <2>3. QED
    BY <1>4, <2>1, <2>2 DEF MixerStep
<1>5. CASE Dispatch
  BY <1>5, UnchangedStutter DEF Dispatch, OccupancyVars, registryVars, departVars
<1>6. CASE UNCHANGED vars
  BY <1>6, UnchangedStutter DEF vars, OccupancyVars, registryVars, departVars
<1>7. QED
  BY <1>1, <1>2, <1>3, <1>4, <1>5, <1>6 DEF Next

\* The departure funnel, with its locks, queues and goroutines, promises no less
\* than SessionLifecycle: sessions of one identity are strictly serialized, each
\* joins once and leaves once.
THEOREM Refinement == Spec => ImplementsLifecycle
<1>1. Init => Lifecycle!LifecycleInit
  BY InitRefines
<1>2. TypeOK /\ Ownership /\ [Next]_vars => [Lifecycle!LifecycleNext]_(Lifecycle!lifecycleVars)
  BY StepRefines
<1>3. QED
  BY <1>1, <1>2, TypeCorrect, OwnershipInvariant, PTL
     DEF Spec, ImplementsLifecycle, Lifecycle!LifecycleSpec

-------------------------------------------------------------------------------
(* Order in the two queues: what StringChIn says about an identity is one   *)
(* block per session, closed by that session's tombstones, and the change    *)
(* queue has a DELETE between any two ADDs of one uuid.  With the second     *)
(* comes what the mixer goroutine does to encoders: nothing freed is         *)
(* rendered and nothing leased is lost.                                      *)

\* A departure that has sent its tombstones.
AnnouncedPcs == {"delete", "release", "unregister", "mark", "done"}

Announced(e) == depPc[e] \in AnnouncedPcs

\* Only the bouncer of a session that has not been severed forwards.
OpenBeforeSever ==
  \A c \in open : entry[c] \in {"live", "departing"} /\ depPc[c] \in {"none", "sever"}

\* What is on the channel was written by a session that was installed.
WritersHaveEntries ==
  \A i \in DOMAIN strIn : strIn[i].by \in Conns /\ entry[strIn[i].by] # "none"

\* A tombstone, on the channel or in the cache, is of an announced departure.
TombsAnnounced ==
  /\ \A i \in DOMAIN strIn : strIn[i].kind = "tomb" => Announced(strIn[i].by)
  /\ \A u \in Uuids, k \in Keys :
       cache[u][k].kind = "tomb" => cache[u][k].by \in Conns /\ Announced(cache[u][k].by)

\* Behind a message of a session that occupies its identity nobody else has
\* written about that identity.
OccupantWritesLast ==
  \A i, j \in DOMAIN strIn :
    i < j /\ SameSubject(strIn[i].by, strIn[j].by) /\ Occupies(strIn[i].by)
      => strIn[j].by = strIn[i].by

\* The keys of a message that BouncerClient sent are still recorded, or in the
\* hands of the departure, or tombstoned behind it.
PublishedIsSwept ==
  \A i \in DOMAIN strIn :
    strIn[i].kind = "set" /\ strIn[i].keys = SentKeys =>
      /\ SentKeys # {}
      /\ depPc[strIn[i].by] \in {"none", "sever", "collect"} => strIn[i].by \in sent
      /\ depPc[strIn[i].by] = "announce" => SentKeys \subseteq sweep[strIn[i].by]
      /\ Announced(strIn[i].by) =>
           \E k \in DOMAIN strIn : i < k /\ strIn[k].kind = "tomb" /\ strIn[k].by = strIn[i].by

BusOrder ==
  /\ OpenBeforeSever
  /\ WritersHaveEntries
  /\ TombsAnnounced
  /\ OccupantWritesLast
  /\ PublishedIsSwept
  /\ TombstonesLast
  /\ EpochsInOrder

USE EntriesAssumption, BoundsAssumption

-------------------------------------------------------------------------------
(* Steps that leave channel and cache alone.                               *)

\* What such a step may do to sessions and departures: install, begin, sever,
\* and move on behind the announcement.
QuietStep ==
  /\ UNCHANGED <<strIn, cache, sent, sweep>>
  /\ \A c \in open' : entry'[c] \in {"live", "departing"} /\ depPc'[c] \in {"none", "sever"}
  /\ \A e \in Entries :
       /\ entry[e] # "none" => entry'[e] # "none"
       /\ Announced(e)' <=> Announced(e)
       /\ depPc'[e] \in {"none", "sever", "collect"} <=> depPc[e] \in {"none", "sever", "collect"}
       /\ depPc'[e] = "announce" <=> depPc[e] = "announce"
       /\ entry[e] # "none" /\ Occupies(e)' => Occupies(e)

LEMMA QuietBus ==
  ASSUME TypeOK, BusOrder, QuietStep
  PROVE  BusOrder'
<1>1. \A i \in DOMAIN strIn : strIn[i].by \in Conns /\ entry[strIn[i].by] # "none"
  BY DEF BusOrder, WritersHaveEntries
<1>2. \A u \in Uuids, k \in Keys : cache[u][k].kind = "tomb" => cache[u][k].by \in Entries
  BY DEF BusOrder, TombsAnnounced, Entries
<1>3. OpenBeforeSever'
  BY DEF QuietStep, OpenBeforeSever
<1>4. WritersHaveEntries'
  BY <1>1 DEF QuietStep, WritersHaveEntries, Entries
<1>5. TombstonesLast' /\ EpochsInOrder'
  BY DEF QuietStep, BusOrder, TombstonesLast, EpochsInOrder, SameSubject
<1>6. OccupantWritesLast'
  BY <1>1 DEF QuietStep, BusOrder, OccupantWritesLast, SameSubject, Entries
<1>7. PublishedIsSwept'
  BY <1>1 DEF QuietStep, BusOrder, PublishedIsSwept, Entries
<1>8. TombsAnnounced'
  BY <1>1, <1>2 DEF QuietStep, BusOrder, TombsAnnounced, Entries
<1>9. QED
  BY <1>3, <1>4, <1>5, <1>6, <1>7, <1>8 DEF BusOrder

LEMMA UnchangedQuiet ==
  ASSUME BusOrder, UNCHANGED <<entry, depPc, open, sent, sweep, strIn, cache>>
  PROVE  QuietStep
  BY DEF QuietStep, BusOrder, OpenBeforeSever, Announced, AnnouncedPcs, Occupies

LEMMA BeginQuiet ==
  ASSUME TypeOK, Ownership, BusOrder, NEW e \in Entries, BeginDeparture(e),
         UNCHANGED <<open, sent, sweep, strIn, cache>>
  PROVE  QuietStep
<1>1. /\ depPc[e] = "none"
      /\ entry' = [entry EXCEPT ![e] = "departing"]
      /\ depPc' = [depPc EXCEPT ![e] = "sever"]
  BY DEF BeginDeparture, Ownership, PcFollowsEntry
<1>2. \A c \in open : entry[c] \in {"live", "departing"} /\ depPc[c] \in {"none", "sever"}
  BY DEF BusOrder, OpenBeforeSever
<1>3. QED
  BY <1>1, <1>2 DEF QuietStep, Announced, AnnouncedPcs, Occupies, TypeOK, Entries, BeginDeparture

\* Sever captures and closes the bouncer of its own session.
LEMMA SeverQuiet ==
  ASSUME TypeOK, Ownership, BusOrder, NEW e \in Entries, Sever(e)
  PROVE  QuietStep
<1>1. depPc[e] = "sever" /\ e \in Conns /\ entry[e] = "departing"
  BY DeparterIsConn DEF Sever
<1>2. bouncers[UuidOf[e]] = e
  BY <1>1 DEF Occupies, Ownership, OccupantOwnsAll
<1>3. /\ depPc' = [depPc EXCEPT ![e] = "collect"]
      /\ open' = open \ {e}
      /\ UNCHANGED <<entry, sent, sweep, strIn, cache>>
  BY <1>2 DEF Sever, registryVars, busVars
<1>4. QED
  BY <1>1, <1>3 DEF QuietStep, BusOrder, OpenBeforeSever, Announced, AnnouncedPcs, Occupies, TypeOK, Entries

\* Behind the announcement a departure is no longer heard.
LEMMA FinishQuiet ==
  ASSUME TypeOK, Ownership, BusOrder, NEW e \in Entries,
         EnqueueDelete(e) \/ Release(e) \/ Unregister(e) \/ MarkDeparted(e)
  PROVE  QuietStep
<1>1. /\ depPc[e] \in {"delete", "release", "unregister", "mark"}
      /\ \E to \in {"release", "unregister", "mark", "done"} :
           /\ to = "release" => depPc[e] = "delete"
           /\ depPc' = [depPc EXCEPT ![e] = to]
      /\ UNCHANGED <<open, sent, sweep, strIn, cache>>
  BY DEF EnqueueDelete, Release, Unregister, MarkDeparted, clientVars, busVars
<1>2. entry' = entry \/ (depPc[e] = "mark" /\ entry' = [entry EXCEPT ![e] = "departed"])
  BY DEF EnqueueDelete, Release, Unregister, MarkDeparted, registryVars
<1>3. e \notin open
  BY <1>1 DEF BusOrder, OpenBeforeSever
<1>4. \A c \in open : entry[c] \in {"live", "departing"} /\ depPc[c] \in {"none", "sever"}
  BY DEF BusOrder, OpenBeforeSever
<1>5. \A f \in Entries \ {e} : entry'[f] = entry[f] /\ depPc'[f] = depPc[f]
  BY <1>1, <1>2 DEF TypeOK
<1>6. \A c \in open' : entry'[c] \in {"live", "departing"} /\ depPc'[c] \in {"none", "sever"}
  BY <1>1, <1>3, <1>4, <1>5 DEF TypeOK, Entries
<1>7. /\ entry[e] # "none" => entry'[e] # "none"
      /\ depPc'[e] \in {"release", "unregister", "mark", "done"}
      /\ entry[e] # "none" /\ Occupies(e)' => Occupies(e)
  <2>1. entry'[e] = entry[e] \/ entry'[e] = "departed"
    BY <1>2 DEF TypeOK
  <2>2. depPc'[e] \in {"release", "unregister", "mark", "done"}
    BY <1>1 DEF TypeOK
  <2>3. depPc'[e] = "release" => depPc[e] = "delete"
    BY <1>1 DEF TypeOK
  <2>4. QED
    BY <2>1, <2>2, <2>3 DEF Occupies
<1>8. Announced(e) /\ Announced(e)'
  BY <1>1, <1>7 DEF Announced, AnnouncedPcs
<1>9. \A f \in Entries \ {e} : (Announced(f)' <=> Announced(f)) /\ (Occupies(f)' <=> Occupies(f))
  BY <1>5 DEF Announced, AnnouncedPcs, Occupies
<1>10. QED
  BY <1>1, <1>5, <1>6, <1>7, <1>8, <1>9 DEF QuietStep

LEMMA InstallQuiet ==
  ASSUME TypeOK, Ownership, BusOrder, NEW c \in Conns, FactoryInstall(c)
  PROVE  QuietStep
<1>1. /\ open' = open \cup {c}
      /\ entry' = [entry EXCEPT ![c] = "live"]
      /\ UNCHANGED <<depPc, sent, sweep, strIn, cache>>
      /\ admPc[c] = "install"
  BY DEF FactoryInstall, departVars, busVars
<1>2. entry[c] = "none" /\ depPc[c] = "none" /\ c \in Entries
  BY <1>1 DEF Ownership, EntryFollowsFactory, PcFollowsEntry, Entries
<1>3. QED
  BY <1>1, <1>2 DEF QuietStep, BusOrder, OpenBeforeSever, Announced, AnnouncedPcs, Occupies, TypeOK

LEMMA AdmitQuiet ==
  ASSUME TypeOK, Ownership, BusOrder, NEW c \in Conns, AdmitStep(c)
  PROVE  QuietStep
<1>1. CASE AdmitForce(c)
  <2>1. admOld[c] \in Entries
    BY <1>1 DEF AdmitForce, Ownership, WaitsForEntry
  <2>2. BeginDeparture(admOld[c]) /\ UNCHANGED <<open, sent, sweep, strIn, cache>>
    BY <1>1 DEF AdmitForce, clientVars, busVars
  <2>3. QED
    BY <2>1, <2>2, BeginQuiet
<1>2. CASE FactoryInstall(c)
  BY <1>2, InstallQuiet
<1>3. CASE ~AdmitForce(c) /\ ~FactoryInstall(c)
  <2>1. UNCHANGED <<entry, depPc, open, sent, sweep, strIn, cache>>
    BY <1>3 DEF AdmitStep, AdmitFree, AdmitOccupied, AdmitDeparted, AdmitRewait, AdmitWedged,
       FactoryRefuse, FactoryRecheck, HandlerReturned, registryVars, departVars, clientVars, busVars
  <2>2. QED
    BY <2>1, UnchangedQuiet
<1>4. QED
  BY <1>1, <1>2, <1>3

LEMMA MixerQuiet ==
  ASSUME TypeOK, Ownership, BusOrder, MixerStep
  PROVE  QuietStep
<1>1. CASE MixerDelete
  <2> DEFINE u == UuidOf[Head(queue).by]
             e == Backstop(u)
  <2>1. u \in Uuids
    <3>1. queue \in Seq(Change) /\ queue # <<>>
      BY <1>1 DEF TypeOK, MixerDelete
    <3>2. Head(queue) \in Change
      BY <3>1
    <3>3. QED
      BY <3>2 DEF Change, Entries
  <2>2. e \in Entries \cup {None}
    BY <2>1 DEF TypeOK, Backstop
  <2>3. UNCHANGED <<open, sent, sweep, strIn, cache>>
    BY <1>1 DEF MixerDelete, clientVars, busVars
  <2>4. CASE nodes[u] # None /\ e # None /\ entry[e] = "live"
    <3>1. e \in Entries /\ BeginDeparture(e)
      BY <1>1, <2>2, <2>4 DEF MixerDelete
    <3>2. QED
      BY <2>3, <3>1, BeginQuiet
  <2>5. CASE ~(nodes[u] # None /\ e # None /\ entry[e] = "live")
    <3>1. UNCHANGED <<entry, depPc>>
      BY <1>1, <2>5 DEF MixerDelete
    <3>2. QED
      BY <2>3, <3>1, UnchangedQuiet
  <2>6. QED
    BY <2>4, <2>5
<1>2. CASE ~MixerDelete
  <2>1. UNCHANGED <<entry, depPc, open, sent, sweep, strIn, cache>>
    BY <1>2 DEF MixerStep, MixerAdd, MixerEnableOut, MixerDeparted, MixerFree,
       registryVars, departVars, clientVars, busVars
  <2>2. QED
    BY <2>1, UnchangedQuiet
<1>3. QED
  BY <1>1, <1>2

-------------------------------------------------------------------------------
(* Steps that write to the channel or take from it.                        *)

LEMMA CollectBus ==
  ASSUME TypeOK, Ownership, BusOrder, NEW e \in Entries, CollectKeys(e)
  PROVE  BusOrder'
<1>1. depPc[e] = "collect" /\ e \in Conns /\ entry[e] = "departing"
  BY DeparterIsConn DEF CollectKeys
<1>2. claimB[e] = e
  BY <1>1 DEF Ownership, ClaimsAreOwn
<1>3. /\ sweep' = [sweep EXCEPT ![e] = KeysToSweep(e)]
      /\ sent' = sent \ {e}
      /\ depPc' = [depPc EXCEPT ![e] = "announce"]
      /\ UNCHANGED <<entry, open, strIn, cache>>
  BY <1>2 DEF CollectKeys, registryVars, busVars
<1>4. \A i \in DOMAIN strIn : strIn[i].by \in Entries
  BY DEF BusOrder, WritersHaveEntries, Entries
<1>5. \A f \in Entries : (Announced(f)' <=> Announced(f)) /\ (Occupies(f)' <=> Occupies(f))
  BY <1>1, <1>3 DEF Announced, AnnouncedPcs, Occupies, TypeOK
<1>6. OpenBeforeSever'
  BY <1>1, <1>3 DEF BusOrder, OpenBeforeSever, TypeOK, Entries
<1>7. WritersHaveEntries' /\ TombstonesLast' /\ EpochsInOrder'
  BY <1>3 DEF BusOrder, WritersHaveEntries, TombstonesLast, EpochsInOrder, SameSubject
<1>8. TombsAnnounced' /\ OccupantWritesLast'
  BY <1>3, <1>4, <1>5 DEF BusOrder, TombsAnnounced, OccupantWritesLast, SameSubject, Entries
<1>9. PublishedIsSwept'
  <2> SUFFICES ASSUME NEW i \in DOMAIN strIn, strIn[i].kind = "set", strIn[i].keys = SentKeys
               PROVE  /\ SentKeys # {}
                      /\ depPc'[strIn[i].by] \in {"none", "sever", "collect"} => strIn[i].by \in sent'
                      /\ depPc'[strIn[i].by] = "announce" => SentKeys \subseteq sweep'[strIn[i].by]
                      /\ Announced(strIn[i].by)' =>
                           \E k \in DOMAIN strIn :
                             i < k /\ strIn[k].kind = "tomb" /\ strIn[k].by = strIn[i].by
    BY <1>3 DEF PublishedIsSwept
  <2>1. CASE strIn[i].by = e
    <3>1. SentKeys # {} /\ e \in sent
      BY <1>1, <2>1 DEF BusOrder, PublishedIsSwept
    <3>2. SentKeys \subseteq KeysToSweep(e)
      BY <1>2, <3>1 DEF KeysToSweep
    <3>3. depPc'[e] = "announce" /\ ~Announced(e)' /\ sweep'[e] = KeysToSweep(e)
      BY <1>3 DEF Announced, AnnouncedPcs, TypeOK
    <3>4. QED
      BY <1>3, <2>1, <3>1, <3>2, <3>3
  <2>2. CASE strIn[i].by # e
    <3>1. /\ depPc'[strIn[i].by] = depPc[strIn[i].by]
          /\ sweep'[strIn[i].by] = sweep[strIn[i].by]
          /\ strIn[i].by \in sent' <=> strIn[i].by \in sent
      BY <1>3, <1>4, <2>2 DEF TypeOK
    <3>2. QED
      BY <1>3, <1>4, <1>5, <3>1 DEF BusOrder, PublishedIsSwept
  <2>3. QED
    BY <2>1, <2>2
<1>10. QED
  BY <1>6, <1>7, <1>8, <1>9 DEF BusOrder

\* A session that was installed and no longer occupies its identity has
\* announced.
LEMMA GoneIsAnnounced ==
  ASSUME TypeOK, Ownership, NEW c \in Conns, entry[c] # "none", ~Occupies(c)
  PROVE  Announced(c)
  BY DEF TypeOK, Ownership, PcFollowsEntry, Occupies, Announced, AnnouncedPcs, Entries, EntryState, DepPc

LEMMA AppendMessage ==
  ASSUME NEW s \in Seq(Message), NEW m \in Message
  PROVE  /\ Len(s) \in Nat
         /\ DOMAIN s = 1..Len(s)
         /\ DOMAIN Append(s, m) = 1..(Len(s) + 1)
         /\ \A i \in 1..Len(s) : Append(s, m)[i] = s[i]
         /\ Append(s, m)[Len(s) + 1] = m
  OBVIOUS

\* Whoever writes occupies its identity and has not announced: its message
\* goes behind its own, and behind the tombstones of its predecessors.
LEMMA WriteKeepsOrder ==
  ASSUME TypeOK, Ownership, BusOrder,
         NEW m \in Message, m.by \in Conns, Occupies(m.by), ~Announced(m.by),
         strIn' = Append(strIn, m), UNCHANGED <<entry, cache>>,
         \A f \in Entries : Occupies(f)' <=> Occupies(f)
  PROVE  WritersHaveEntries' /\ OccupantWritesLast' /\ TombstonesLast' /\ EpochsInOrder'
<1> DEFINE n == Len(strIn)
           d == m.by
<1>1. /\ n \in Nat
      /\ DOMAIN strIn = 1..n
      /\ DOMAIN strIn' = 1..(n + 1)
      /\ \A i \in 1..n : strIn'[i] = strIn[i]
      /\ strIn'[n + 1] = m
  BY AppendMessage DEF TypeOK
<1>2. \A i \in 1..n : strIn[i].by \in Conns /\ entry[strIn[i].by] # "none"
  BY <1>1 DEF BusOrder, WritersHaveEntries
<1>3. entry[d] # "none"
  BY DEF Occupies
<1>4. \A i \in 1..n : SameSubject(strIn[i].by, d) /\ strIn[i].by # d => ~Occupies(strIn[i].by)
  BY <1>2 DEF SameSubject, Ownership, OccupantOwnsAll
<1> HIDE DEF n, d
<1>5. WritersHaveEntries'
  BY <1>1, <1>2, <1>3 DEF WritersHaveEntries, d
<1>6. OccupantWritesLast'
  <2> SUFFICES ASSUME NEW i \in 1..(n + 1), NEW j \in 1..(n + 1), i < j,
                      SameSubject(strIn[i].by, strIn[j].by)', Occupies(strIn[i].by)'
               PROVE  strIn'[j].by = strIn'[i].by
    BY <1>1 DEF OccupantWritesLast
  <2>1. i \in 1..n /\ strIn'[i] = strIn[i]
    BY <1>1
  <2>2. Occupies(strIn[i].by)
    BY <1>2, <2>1 DEF Entries
  <2>3. CASE j \in 1..n
    BY <1>1, <2>1, <2>2, <2>3 DEF BusOrder, OccupantWritesLast
  <2>4. CASE j = n + 1
    BY <1>1, <1>4, <2>1, <2>2, <2>4 DEF d
  <2>5. QED
    BY <1>1, <2>3, <2>4
<1>7. TombstonesLast'
  <2>1. \A i \in 1..n : strIn[i].kind = "tomb" => strIn[i].by # d
    BY <1>1 DEF BusOrder, TombsAnnounced, d
  <2>2. \A u \in Uuids, k \in Keys : cache[u][k].kind = "tomb" => cache[u][k].by # d
    BY DEF BusOrder, TombsAnnounced, d
  <2>3. \A i, j \in 1..(n + 1) :
          i < j /\ strIn'[i].kind = "tomb" => strIn'[j].by # strIn'[i].by
    BY <1>1, <2>1 DEF BusOrder, TombstonesLast, d
  <2>4. \A u \in Uuids, k \in Keys, j \in 1..(n + 1) :
          cache[u][k].kind = "tomb" => strIn'[j].by # cache[u][k].by
    BY <1>1, <2>2 DEF BusOrder, TombstonesLast, d
  <2>5. QED
    BY <1>1, <2>3, <2>4 DEF TombstonesLast
<1>8. EpochsInOrder'
  <2>1. ASSUME NEW i \in 1..(n + 1), NEW j \in 1..(n + 1), NEW k \in 1..(n + 1), i < j, j < k,
               SameSubject(strIn'[i].by, strIn'[j].by), strIn'[i].by = strIn'[k].by
        PROVE  strIn'[j].by = strIn'[i].by
    <3>1. i \in 1..n /\ j \in 1..n /\ strIn'[i] = strIn[i] /\ strIn'[j] = strIn[j]
      BY <1>1, <2>1
    <3>2. CASE k \in 1..n
      <4>1. strIn'[k] = strIn[k]
        BY <1>1, <3>2
      <4>2. SameSubject(strIn[i].by, strIn[j].by) /\ strIn[i].by = strIn[k].by
        BY <2>1, <3>1, <4>1
      <4>3. strIn[j].by = strIn[i].by
        BY <1>1, <2>1, <3>1, <3>2, <4>2 DEF BusOrder, EpochsInOrder
      <4>4. QED
        BY <3>1, <4>3
    <3>3. CASE k = n + 1
      <4>1. Occupies(strIn[i].by)
        BY <1>1, <2>1, <3>1, <3>3 DEF d
      <4>2. QED
        BY <1>1, <2>1, <3>1, <4>1 DEF BusOrder, OccupantWritesLast
    <3>4. QED
      BY <1>1, <3>2, <3>3
  <2>2. ASSUME NEW i \in 1..(n + 1), NEW j \in 1..(n + 1), i < j,
               strIn'[i].kind = "set", strIn'[i].keys = SentKeys,
               SameSubject(strIn'[i].by, strIn'[j].by), strIn'[j].by # strIn'[i].by
        PROVE  \E k \in i..j : strIn'[k].kind = "tomb" /\ strIn'[k].by = strIn'[i].by
    <3>1. i \in 1..n /\ strIn'[i] = strIn[i]
      BY <1>1, <2>2
    <3>2. CASE j \in 1..n
      <4>1. PICK k \in i..j : strIn[k].kind = "tomb" /\ strIn[k].by = strIn[i].by
        BY <1>1, <2>2, <3>1, <3>2 DEF BusOrder, EpochsInOrder
      <4>2. strIn'[k] = strIn[k]
        BY <1>1, <3>1, <3>2
      <4>3. QED
        BY <3>1, <4>1, <4>2
    <3>3. CASE j = n + 1
      <4>1. Announced(strIn[i].by)
        BY <1>1, <1>2, <1>4, <2>2, <3>1, <3>3, GoneIsAnnounced DEF d
      <4>2. PICK k \in 1..n : i < k /\ strIn[k].kind = "tomb" /\ strIn[k].by = strIn[i].by
        BY <1>1, <2>2, <3>1, <4>1 DEF BusOrder, PublishedIsSwept
      <4>3. k \in i..j /\ strIn'[k] = strIn[k]
        BY <1>1, <3>3, <3>1, <4>2
      <4>4. QED
        BY <3>1, <4>2, <4>3
    <3>4. QED
      BY <1>1, <3>2, <3>3
  <2>3. QED
    BY <1>1, <2>1, <2>2 DEF EpochsInOrder, SameSubject
<1>9. QED
  BY <1>5, <1>6, <1>7, <1>8

\* The tombstones: nobody of this session writes behind them, and the keys it
\* published are among them.
LEMMA AnnounceBus ==
  ASSUME TypeOK, Ownership, BusOrder, NEW e \in Entries, Announce(e)
  PROVE  BusOrder'
<1> DEFINE m == [kind |-> "tomb", keys |-> sweep[e], by |-> e]
           n == Len(strIn)
<1>1. depPc[e] = "announce" /\ e \in Conns /\ entry[e] = "departing"
  BY DeparterIsConn DEF Announce
<1>2. Occupies(e) /\ ~Announced(e)
  BY <1>1 DEF Occupies, Announced, AnnouncedPcs
<1>3. /\ sweep' = [sweep EXCEPT ![e] = {}]
      /\ depPc' = [depPc EXCEPT ![e] = "delete"]
      /\ UNCHANGED <<entry, open, sent, cache>>
      /\ sweep[e] = {} => strIn' = strIn
      /\ sweep[e] # {} => strIn' = Append(strIn, m)
  BY DEF Announce, registryVars, clientVars
<1>4. \A f \in Entries : /\ Occupies(f)' <=> Occupies(f)
                         /\ Announced(f)' <=> Announced(f) \/ f = e
  BY <1>1, <1>3 DEF Announced, AnnouncedPcs, Occupies, TypeOK
<1>5. m \in Message
  BY DEF Message, TypeOK
<1>6. OpenBeforeSever'
  BY <1>1, <1>3 DEF BusOrder, OpenBeforeSever, TypeOK, Entries
<1>7. \A i \in DOMAIN strIn : strIn[i].by \in Entries
  BY DEF BusOrder, WritersHaveEntries, Entries
<1>8. \A u \in Uuids, k \in Keys :
        cache'[u][k].kind = "tomb" => cache'[u][k].by \in Conns /\ depPc'[cache'[u][k].by] \in AnnouncedPcs
  BY <1>1, <1>3 DEF BusOrder, TombsAnnounced, Announced, AnnouncedPcs, TypeOK, Entries
<1>9. CASE sweep[e] = {}
  <2>1. UNCHANGED strIn
    BY <1>3, <1>9
  <2>2. WritersHaveEntries' /\ TombstonesLast' /\ EpochsInOrder'
    BY <1>3, <2>1 DEF BusOrder, WritersHaveEntries, TombstonesLast, EpochsInOrder, SameSubject
  <2>3. TombsAnnounced' /\ OccupantWritesLast'
    BY <1>3, <1>4, <1>7, <1>8, <2>1 DEF BusOrder, TombsAnnounced, OccupantWritesLast, SameSubject, Announced, AnnouncedPcs
  <2>4. ASSUME NEW i \in DOMAIN strIn, strIn[i].kind = "set", strIn[i].keys = SentKeys
        PROVE  strIn[i].by # e
    BY <1>1, <1>9, <2>4 DEF BusOrder, PublishedIsSwept
  <2>5. PublishedIsSwept'
    BY <1>3, <1>4, <1>7, <2>1, <2>4 DEF BusOrder, PublishedIsSwept, TypeOK
  <2>6. QED
    BY <1>6, <2>2, <2>3, <2>5 DEF BusOrder
<1>10. CASE sweep[e] # {}
  <2>1. strIn' = Append(strIn, m)
    BY <1>3, <1>10
  <2>2. /\ n \in Nat
        /\ DOMAIN strIn = 1..n
        /\ DOMAIN strIn' = 1..(n + 1)
        /\ \A i \in 1..n : strIn'[i] = strIn[i]
        /\ strIn'[n + 1] = m
    BY <1>5, <2>1, AppendMessage DEF TypeOK
  <2>3. WritersHaveEntries' /\ OccupantWritesLast' /\ TombstonesLast' /\ EpochsInOrder'
    BY <1>1, <1>2, <1>3, <1>4, <1>5, <2>1, WriteKeepsOrder
  <2>4. Announced(e)'
    BY <1>3 DEF Announced, AnnouncedPcs, TypeOK
  <2>5. \A i \in 1..(n + 1) : strIn'[i].kind = "tomb" => depPc'[strIn'[i].by] \in AnnouncedPcs
    <3>1. \A i \in 1..n : strIn[i].kind = "tomb" => Announced(strIn[i].by)
      BY <2>2 DEF BusOrder, TombsAnnounced
    <3>2. \A i \in 1..n : strIn[i].kind = "tomb" => depPc'[strIn[i].by] = depPc[strIn[i].by]
      BY <1>2, <1>3, <1>7, <2>2, <3>1 DEF TypeOK
    <3>3. \A i \in 1..n : strIn'[i].kind = "tomb" => depPc'[strIn'[i].by] \in AnnouncedPcs
      BY <2>2, <3>1, <3>2 DEF Announced, AnnouncedPcs
    <3>4. depPc'[strIn'[n + 1].by] \in AnnouncedPcs
      BY <1>3, <2>2 DEF TypeOK, AnnouncedPcs
    <3>5. QED
      BY <2>2, <3>3, <3>4
  <2>6. TombsAnnounced'
    BY <1>8, <2>2, <2>5 DEF TombsAnnounced, Announced, AnnouncedPcs
  <2>7. PublishedIsSwept'
    <3> SUFFICES ASSUME NEW i \in 1..(n + 1), strIn'[i].kind = "set", strIn'[i].keys = SentKeys
                 PROVE  /\ SentKeys # {}
                        /\ depPc'[strIn'[i].by] \in {"none", "sever", "collect"} => strIn'[i].by \in sent
                        /\ depPc'[strIn'[i].by] = "announce" => SentKeys \subseteq sweep'[strIn'[i].by]
                        /\ depPc'[strIn'[i].by] \in AnnouncedPcs =>
                             \E k \in 1..(n + 1) :
                               i < k /\ strIn'[k].kind = "tomb" /\ strIn'[k].by = strIn'[i].by
      BY <1>3, <2>2 DEF PublishedIsSwept, Announced, AnnouncedPcs
    <3>1. i \in 1..n /\ strIn'[i] = strIn[i]
      BY <2>2
    <3>2. SentKeys # {}
      BY <2>2, <3>1 DEF BusOrder, PublishedIsSwept
    <3>3. CASE strIn[i].by = e
      <4>1. strIn'[i].by = e /\ depPc'[e] = "delete"
        BY <1>3, <3>1, <3>3 DEF TypeOK
      <4>2. n + 1 \in 1..(n + 1) /\ i < n + 1
        BY <2>2, <3>1
      <4>3. strIn'[n + 1].kind = "tomb" /\ strIn'[n + 1].by = e
        BY <2>2
      <4>4. QED
        BY <3>2, <4>1, <4>2, <4>3
    <3>4. CASE strIn[i].by # e
      <4>1. depPc'[strIn[i].by] = depPc[strIn[i].by] /\ sweep'[strIn[i].by] = sweep[strIn[i].by]
        BY <1>3, <1>7, <2>2, <3>1, <3>4 DEF TypeOK
      <4>2. Announced(strIn[i].by) =>
              \E k \in 1..n : i < k /\ strIn[k].kind = "tomb" /\ strIn[k].by = strIn[i].by
        BY <2>2, <3>1 DEF BusOrder, PublishedIsSwept
      <4>3. Announced(strIn[i].by) =>
              \E k \in 1..(n + 1) : i < k /\ strIn'[k].kind = "tomb" /\ strIn'[k].by = strIn[i].by
        BY <2>2, <4>2
      <4>4. QED
        BY <2>2, <3>1, <4>1, <4>3 DEF BusOrder, PublishedIsSwept, Announced, AnnouncedPcs
    <3>5. QED
      BY <3>3, <3>4
  <2>8. QED
    BY <1>6, <2>3, <2>6, <2>7 DEF BusOrder
<1>11. QED
  BY <1>9, <1>10

\* A client writes about itself, through an open bouncer.
LEMMA WriteBus ==
  ASSUME TypeOK, Ownership, BusOrder, NEW c \in Conns,
         Publish(c) \/ \E k \in CommandKeys : Command(c, k)
  PROVE  BusOrder'
<1> DEFINE n == Len(strIn)
<1>1. c \in open /\ c \in Entries
  BY DEF Publish, Command, Entries
<1>2. entry[c] \in {"live", "departing"} /\ depPc[c] \in {"none", "sever"}
  BY <1>1 DEF BusOrder, OpenBeforeSever
<1>3. Occupies(c) /\ ~Announced(c)
  BY <1>2 DEF Occupies, Announced, AnnouncedPcs
<1>4. PICK m \in Message :
        /\ m.kind = "set" /\ m.by = c /\ strIn' = Append(strIn, m)
        /\ m.keys = SentKeys => SentKeys # {} /\ c \in sent'
  <2>1. CASE Publish(c)
    <3>1. [kind |-> "set", keys |-> SentKeys, by |-> c] \in Message
      BY <1>1 DEF Message, Keys
    <3>2. SentKeys # {} /\ c \in sent' /\ strIn' = Append(strIn, [kind |-> "set", keys |-> SentKeys, by |-> c])
      BY <2>1 DEF Publish
    <3>3. QED
      BY <3>1, <3>2
  <2>2. ASSUME NEW k \in CommandKeys, Command(c, k)
        PROVE  \E m \in Message :
                 /\ m.kind = "set" /\ m.by = c /\ strIn' = Append(strIn, m)
                 /\ m.keys = SentKeys => SentKeys # {} /\ c \in sent'
    <3>1. [kind |-> "set", keys |-> {k}, by |-> c] \in Message
      BY <1>1, <2>2 DEF Message, Keys
    <3>2. {k} # SentKeys
      BY <2>2
    <3>3. strIn' = Append(strIn, [kind |-> "set", keys |-> {k}, by |-> c])
      BY <2>2 DEF Command
    <3>4. QED
      BY <3>1, <3>2, <3>3
  <2>3. QED
    BY <2>1, <2>2
<1>5. sent \subseteq sent' /\ UNCHANGED <<entry, depPc, open, sweep, cache>>
  BY DEF Publish, Command, registryVars, departVars, clientVars
<1>6. /\ n \in Nat
      /\ DOMAIN strIn = 1..n
      /\ DOMAIN strIn' = 1..(n + 1)
      /\ \A i \in 1..n : strIn'[i] = strIn[i]
      /\ strIn'[n + 1] = m
  BY <1>4, AppendMessage DEF TypeOK
<1>7. \A f \in Entries : (Occupies(f)' <=> Occupies(f)) /\ (Announced(f)' <=> Announced(f))
  BY <1>5 DEF Occupies, Announced
<1>8. WritersHaveEntries' /\ OccupantWritesLast' /\ TombstonesLast' /\ EpochsInOrder'
  BY <1>3, <1>4, <1>5, <1>7, WriteKeepsOrder
<1>9. OpenBeforeSever'
  BY <1>5 DEF BusOrder, OpenBeforeSever
<1>10. TombsAnnounced'
  <2>1. \A i \in 1..(n + 1) : strIn'[i].kind = "tomb" => depPc'[strIn'[i].by] \in AnnouncedPcs
    BY <1>4, <1>5, <1>6 DEF BusOrder, TombsAnnounced, Announced
  <2>2. QED
    BY <1>5, <1>6, <2>1 DEF BusOrder, TombsAnnounced, Announced
<1>11. PublishedIsSwept'
  <2> SUFFICES ASSUME NEW i \in 1..(n + 1), strIn'[i].kind = "set", strIn'[i].keys = SentKeys
               PROVE  /\ SentKeys # {}
                      /\ depPc[strIn'[i].by] \in {"none", "sever", "collect"} => strIn'[i].by \in sent'
                      /\ depPc[strIn'[i].by] = "announce" => SentKeys \subseteq sweep[strIn'[i].by]
                      /\ Announced(strIn'[i].by) =>
                           \E k \in 1..(n + 1) :
                             i < k /\ strIn'[k].kind = "tomb" /\ strIn'[k].by = strIn'[i].by
    BY <1>5, <1>6 DEF PublishedIsSwept, Announced
  <2>1. CASE i = n + 1
    BY <1>2, <1>3, <1>4, <1>6, <2>1
  <2>2. CASE i \in 1..n
    <3>1. strIn'[i] = strIn[i]
      BY <1>6, <2>2
    <3>2. Announced(strIn[i].by) =>
            \E k \in 1..n : i < k /\ strIn[k].kind = "tomb" /\ strIn[k].by = strIn[i].by
      BY <1>6, <2>2, <3>1 DEF BusOrder, PublishedIsSwept
    <3>3. Announced(strIn[i].by) =>
            \E k \in 1..(n + 1) : i < k /\ strIn'[k].kind = "tomb" /\ strIn'[k].by = strIn[i].by
      BY <1>6, <3>2
    <3>4. QED
      BY <1>5, <1>6, <2>2, <3>1, <3>3 DEF BusOrder, PublishedIsSwept
  <2>3. QED
    BY <1>6, <2>1, <2>2
<1>12. QED
  BY <1>8, <1>9, <1>10, <1>11 DEF BusOrder

LEMMA TakeMessage ==
  ASSUME NEW s \in Seq(Message), s # <<>>
  PROVE  /\ Len(s) \in Nat \ {0}
         /\ DOMAIN s = 1..Len(s)
         /\ DOMAIN Tail(s) = 1..(Len(s) - 1)
         /\ \A i \in 1..(Len(s) - 1) : Tail(s)[i] = s[i + 1]
         /\ Head(s) = s[1]
  OBVIOUS

\* The dispatcher takes the oldest message; no later one is its author's if it
\* is a tombstone.
LEMMA DispatchBus ==
  ASSUME TypeOK, Ownership, BusOrder, Dispatch
  PROVE  BusOrder'
<1> DEFINE n == Len(strIn)
           m == Head(strIn)
<1>1. /\ n \in Nat \ {0}
      /\ DOMAIN strIn = 1..n
      /\ DOMAIN strIn' = 1..(n - 1)
      /\ \A i \in 1..(n - 1) : strIn'[i] = strIn[i + 1]
      /\ m = strIn[1]
  BY TakeMessage DEF TypeOK, Dispatch
<1>2. UNCHANGED <<entry, depPc, open, sent, sweep>>
  BY DEF Dispatch, registryVars, departVars, clientVars
<1>3. \A u \in Uuids, k \in Keys :
        cache'[u][k] = cache[u][k] \/ (cache'[u][k].kind = m.kind /\ cache'[u][k].by = m.by)
  BY DEF Dispatch, TypeOK
<1>4. 1 \in 1..n /\ \A i \in 1..(n - 1) : i + 1 \in 1..n
  BY <1>1
<1> HIDE DEF n, m
<1>5. OpenBeforeSever'
  BY <1>2 DEF BusOrder, OpenBeforeSever
<1>6. WritersHaveEntries'
  BY <1>1, <1>2, <1>4 DEF BusOrder, WritersHaveEntries
<1>7. TombsAnnounced'
  <2>1. \A i \in 1..n : strIn[i].kind = "tomb" => Announced(strIn[i].by)
    BY <1>1 DEF BusOrder, TombsAnnounced
  <2>2. \A i \in 1..(n - 1) : strIn'[i].kind = "tomb" => Announced(strIn'[i].by)
    BY <1>1, <1>4, <2>1
  <2>3. m.kind = "tomb" => m.by \in Conns /\ Announced(m.by)
    BY <1>1, <1>4, <2>1 DEF BusOrder, WritersHaveEntries
  <2>4. \A u \in Uuids, k \in Keys :
          cache'[u][k].kind = "tomb" => cache'[u][k].by \in Conns /\ Announced(cache'[u][k].by)
    BY <1>3, <2>3 DEF BusOrder, TombsAnnounced
  <2>5. QED
    BY <1>1, <1>2, <2>2, <2>4 DEF TombsAnnounced, Announced
<1>8. OccupantWritesLast'
  <2>1. ASSUME NEW i \in 1..(n - 1), NEW j \in 1..(n - 1), i < j,
               SameSubject(strIn'[i].by, strIn'[j].by), Occupies(strIn'[i].by)
        PROVE  strIn'[j].by = strIn'[i].by
    <3>1. strIn'[i] = strIn[i + 1] /\ strIn'[j] = strIn[j + 1] /\ i + 1 \in 1..n /\ j + 1 \in 1..n
      BY <1>1, <1>4
    <3>2. i + 1 < j + 1
      BY <1>1, <2>1
    <3>3. strIn[j + 1].by = strIn[i + 1].by
      BY <1>1, <2>1, <3>1, <3>2 DEF BusOrder, OccupantWritesLast
    <3>4. QED
      BY <3>1, <3>3
  <2>2. QED
    BY <1>1, <1>2, <2>1 DEF OccupantWritesLast, SameSubject, Occupies
<1>9. PublishedIsSwept'
  <2> SUFFICES ASSUME NEW i \in 1..(n - 1), strIn'[i].kind = "set", strIn'[i].keys = SentKeys
               PROVE  /\ SentKeys # {}
                      /\ depPc[strIn'[i].by] \in {"none", "sever", "collect"} => strIn'[i].by \in sent
                      /\ depPc[strIn'[i].by] = "announce" => SentKeys \subseteq sweep[strIn'[i].by]
                      /\ Announced(strIn'[i].by) =>
                           \E k \in 1..(n - 1) :
                             i < k /\ strIn'[k].kind = "tomb" /\ strIn'[k].by = strIn'[i].by
    BY <1>1, <1>2 DEF PublishedIsSwept, Announced
  <2>1. strIn'[i] = strIn[i + 1] /\ i + 1 \in 1..n
    BY <1>1, <1>4
  <2>2. Announced(strIn[i + 1].by) =>
          \E k \in 1..n : i + 1 < k /\ strIn[k].kind = "tomb" /\ strIn[k].by = strIn[i + 1].by
    BY <1>1, <2>1 DEF BusOrder, PublishedIsSwept
  <2>3. ASSUME NEW k \in 1..n, i + 1 < k PROVE k - 1 \in 1..(n - 1) /\ i < k - 1 /\ strIn'[k - 1] = strIn[k]
    BY <1>1, <2>3
  <2>4. Announced(strIn[i + 1].by) =>
          \E k \in 1..(n - 1) : i < k /\ strIn'[k].kind = "tomb" /\ strIn'[k].by = strIn[i + 1].by
    BY <2>2, <2>3
  <2>5. QED
    BY <1>1, <2>1, <2>4 DEF BusOrder, PublishedIsSwept
<1>10. TombstonesLast'
  <2>1. \A i, j \in 1..(n - 1) :
          i < j /\ strIn'[i].kind = "tomb" => strIn'[j].by # strIn'[i].by
    <3> SUFFICES ASSUME NEW i \in 1..(n - 1), NEW j \in 1..(n - 1), i < j, strIn'[i].kind = "tomb"
                 PROVE  strIn'[j].by # strIn'[i].by
      OBVIOUS
    <3>1. strIn'[i] = strIn[i + 1] /\ strIn'[j] = strIn[j + 1] /\ i + 1 \in 1..n /\ j + 1 \in 1..n
      BY <1>1, <1>4
    <3>2. i + 1 < j + 1
      BY <1>1
    <3>3. strIn[j + 1].by # strIn[i + 1].by
      BY <1>1, <3>1, <3>2 DEF BusOrder, TombstonesLast
    <3>4. QED
      BY <3>1, <3>3
  <2>2. \A j \in 1..(n - 1) : m.kind = "tomb" => strIn'[j].by # m.by
    BY <1>1, <1>4 DEF BusOrder, TombstonesLast
  <2>3. \A u \in Uuids, k \in Keys, j \in 1..(n - 1) :
          cache[u][k].kind = "tomb" => strIn'[j].by # cache[u][k].by
    BY <1>1, <1>4 DEF BusOrder, TombstonesLast
  <2>4. QED
    BY <1>1, <1>3, <2>1, <2>2, <2>3 DEF TombstonesLast
<1>11. EpochsInOrder'
  <2>1. \A i, j, k \in 1..(n - 1) :
          i < j /\ j < k /\ SameSubject(strIn'[i].by, strIn'[j].by) /\ strIn'[i].by = strIn'[k].by
            => strIn'[j].by = strIn'[i].by
    <3> SUFFICES ASSUME NEW i \in 1..(n - 1), NEW j \in 1..(n - 1), NEW k \in 1..(n - 1), i < j, j < k,
                        SameSubject(strIn'[i].by, strIn'[j].by), strIn'[i].by = strIn'[k].by
                 PROVE  strIn'[j].by = strIn'[i].by
      OBVIOUS
    <3>1. /\ strIn'[i] = strIn[i + 1] /\ i + 1 \in 1..n
          /\ strIn'[j] = strIn[j + 1] /\ j + 1 \in 1..n
          /\ strIn'[k] = strIn[k + 1] /\ k + 1 \in 1..n
      BY <1>1, <1>4
    <3>2. i + 1 < j + 1 /\ j + 1 < k + 1
      BY <1>1
    <3>3. SameSubject(strIn[i + 1].by, strIn[j + 1].by) /\ strIn[i + 1].by = strIn[k + 1].by
      BY <3>1
    <3>4. strIn[j + 1].by = strIn[i + 1].by
      BY <1>1, <3>1, <3>2, <3>3 DEF BusOrder, EpochsInOrder
    <3>5. QED
      BY <3>1, <3>4
  <2>2. ASSUME NEW i \in 1..(n - 1), NEW j \in 1..(n - 1), i < j,
               strIn'[i].kind = "set", strIn'[i].keys = SentKeys,
               SameSubject(strIn'[i].by, strIn'[j].by), strIn'[j].by # strIn'[i].by
        PROVE  \E k \in i..j : strIn'[k].kind = "tomb" /\ strIn'[k].by = strIn'[i].by
    <3>1. strIn'[i] = strIn[i + 1] /\ strIn'[j] = strIn[j + 1] /\ i + 1 \in 1..n /\ j + 1 \in 1..n
      BY <1>1, <1>4
    <3>2. PICK k \in (i + 1)..(j + 1) : strIn[k].kind = "tomb" /\ strIn[k].by = strIn[i + 1].by
      <4>1. i + 1 < j + 1
        BY <1>1, <2>2
      <4>2. /\ strIn[i + 1].kind = "set" /\ strIn[i + 1].keys = SentKeys
            /\ SameSubject(strIn[i + 1].by, strIn[j + 1].by) /\ strIn[j + 1].by # strIn[i + 1].by
        BY <2>2, <3>1
      <4>3. QED
        BY <1>1, <3>1, <4>1, <4>2 DEF BusOrder, EpochsInOrder
    <3>3. k - 1 \in i..j /\ strIn'[k - 1] = strIn[k]
      BY <1>1, <3>1
    <3>4. QED
      BY <3>1, <3>2, <3>3
  <2>3. QED
    BY <1>1, <2>1, <2>2 DEF EpochsInOrder, SameSubject
<1>12. QED
  BY <1>5, <1>6, <1>7, <1>8, <1>9, <1>10, <1>11 DEF BusOrder

LEMMA InitBus == Init => BusOrder
  BY DEF Init, BusOrder, OpenBeforeSever, WritersHaveEntries, TombsAnnounced, OccupantWritesLast,
     PublishedIsSwept, TombstonesLast, EpochsInOrder

LEMMA NextBus ==
  TypeOK /\ Ownership /\ BusOrder /\ [Next]_vars => BusOrder'
<1> SUFFICES ASSUME TypeOK, Ownership, BusOrder, [Next]_vars PROVE BusOrder'
  OBVIOUS
<1>1. ASSUME NEW c \in Conns, AdmitStep(c) PROVE BusOrder'
  BY <1>1, AdmitQuiet, QuietBus
<1>2. ASSUME NEW c \in Conns, ClientStep(c) PROVE BusOrder'
  <2>0. c \in Entries
    BY DEF Entries
  <2>1. CASE Publish(c) \/ \E k \in CommandKeys : Command(c, k)
    BY <2>1, WriteBus
  <2>2. CASE TransportCloses(c) \/ OwnerFindsNoHandler(c) \/ (OwnerStops(c) /\ entry[c] # "live")
    <3>1. UNCHANGED <<entry, depPc, open, sent, sweep, strIn, cache>>
      BY <2>2 DEF TransportCloses, OwnerFindsNoHandler, OwnerStops, registryVars, departVars,
         clientVars, busVars
    <3>2. QED
      BY <3>1, UnchangedQuiet, QuietBus
  <2>3. CASE ReconcileDead(c) \/ (OwnerStops(c) /\ entry[c] = "live")
    <3>1. BeginDeparture(c) /\ UNCHANGED <<open, sent, sweep, strIn, cache>>
      BY <2>3 DEF ReconcileDead, OwnerStops, clientVars, busVars
    <3>2. QED
      BY <2>0, <3>1, BeginQuiet, QuietBus
  <2>4. QED
    BY <1>2, <2>1, <2>2, <2>3 DEF ClientStep
<1>3. ASSUME NEW e \in Entries, DepartStep(e) PROVE BusOrder'
  <2>1. CASE Sever(e)
    BY <2>1, SeverQuiet, QuietBus
  <2>2. CASE EnqueueDelete(e) \/ Release(e) \/ Unregister(e) \/ MarkDeparted(e)
    BY <2>2, FinishQuiet, QuietBus
  <2>3. QED
    BY <1>3, <2>1, <2>2, CollectBus, AnnounceBus DEF DepartStep
<1>4. CASE MixerStep
  BY <1>4, MixerQuiet, QuietBus
<1>5. CASE Dispatch
  BY <1>5, DispatchBus
<1>6. CASE UNCHANGED vars
  <2>1. UNCHANGED <<entry, depPc, open, sent, sweep, strIn, cache>>
    BY <1>6 DEF vars, registryVars, departVars, clientVars, busVars
  <2>2. QED
    BY <2>1, UnchangedQuiet, QuietBus
<1>7. QED
  BY <1>1, <1>2, <1>3, <1>4, <1>5, <1>6 DEF Next

\* The order of StringChIn holds in every reachable state.
THEOREM BusOrderInvariant == Spec => []BusOrder
<1>1. Init => BusOrder
  BY InitBus
<1>2. TypeOK /\ Ownership /\ BusOrder /\ [Next]_vars => BusOrder'
  BY NextBus
<1>3. QED
  BY <1>1, <1>2, TypeCorrect, OwnershipInvariant, PTL DEF Spec

\* An entry's tombstones are its last message, on the channel and in the cache:
\* nothing a departed session wrote is dispatched after them.
THEOREM TombstonesComeLast == Spec => []TombstonesLast
<1>1. BusOrder => TombstonesLast
  BY DEF BusOrder
<1>2. QED
  BY <1>1, BusOrderInvariant, PTL

\* The messages about an identity form one block per session, and what a session
\* published is tombstoned before its successor's block begins.
THEOREM EpochsStayInOrder == Spec => []EpochsInOrder
<1>1. BusOrder => EpochsInOrder
  BY DEF BusOrder
<1>2. QED
  BY <1>1, BusOrderInvariant, PTL

-------------------------------------------------------------------------------
(* Encoders.                                                               *)

\* A departure that has handed its handler over.
Released(e) == depPc[e] \in {"unregister", "mark", "done"}

MixerKnowsUuid == mixer.pc # "idle" => mixer.uuid \in Uuids

\* Handlers of released sessions, each under its own uuid, wait for the mixer.
ReleasedAwaitFree ==
  \A u \in Uuids : \A c \in pendingFree[u] : UuidOf[c] = u /\ Released(c)

\* No encoder of a session is freed before its release.
FreedWereReleased == \A c \in Conns : decoder[c] = "freed" => Released(c)

\* A node renders through handlers of its own uuid.
NodesRenderOwn ==
  \A u \in Uuids : nodes[u] # None =>
    \A h \in {nodes[u].input, nodes[u].output} \ {None} : UuidOf[h] = u

Encoders ==
  /\ MixerKnowsUuid
  /\ ReleasedAwaitFree
  /\ FreedWereReleased
  /\ NodesRenderOwn
  /\ NoFreeWhileMixed
  /\ DecoderLedger

\* Most steps touch no handler, no node and no decoder, and release nobody.
HandsOff ==
  /\ UNCHANGED <<handlers, pendingFree, decoder, nodes>>
  /\ MixerKnowsUuid'
  /\ \A e \in Entries : Released(e) => Released(e)'

LEMMA HandsOffEncoders ==
  ASSUME TypeOK, Encoders, HandsOff
  PROVE  Encoders'
<1>1. MixerKnowsUuid' /\ NodesRenderOwn' /\ NoFreeWhileMixed' /\ DecoderLedger'
  BY DEF HandsOff, Encoders, NodesRenderOwn, NoFreeWhileMixed, DecoderLedger
<1>2. ReleasedAwaitFree' /\ FreedWereReleased'
  BY DEF HandsOff, Encoders, ReleasedAwaitFree, FreedWereReleased, TypeOK, Entries
<1>3. QED
  BY <1>1, <1>2 DEF Encoders

LEMMA UnchangedHandsOff ==
  ASSUME Encoders, UNCHANGED <<handlers, pendingFree, decoder, nodes, mixer, depPc>>
  PROVE  HandsOff
  BY DEF HandsOff, Encoders, MixerKnowsUuid, Released

LEMMA BeginHandsOff ==
  ASSUME TypeOK, Ownership, NEW e \in Entries, BeginDeparture(e), MixerKnowsUuid',
         UNCHANGED <<handlers, pendingFree, decoder, nodes>>
  PROVE  HandsOff
<1>1. depPc[e] = "none" /\ depPc' = [depPc EXCEPT ![e] = "sever"]
  BY DEF BeginDeparture, Ownership, PcFollowsEntry
<1>2. QED
  BY <1>1 DEF HandsOff, Released, TypeOK

LEMMA DepartHandsOff ==
  ASSUME TypeOK, Ownership, Encoders, NEW e \in Entries, DepartStep(e), ~Release(e)
  PROVE  HandsOff
<1>1. UNCHANGED <<handlers, pendingFree, decoder, nodes, mixer>>
  BY DEF DepartStep, Sever, CollectKeys, Announce, EnqueueDelete, Unregister, MarkDeparted,
     mapVars, mixVars
<1>2. \/ depPc[e] \in {"sever", "collect", "announce", "delete"} /\ \E to \in DepPc : depPc' = [depPc EXCEPT ![e] = to]
      \/ depPc' = [depPc EXCEPT ![e] = "mark"]
      \/ depPc' = [depPc EXCEPT ![e] = "done"]
  BY DEF DepartStep, Sever, CollectKeys, Announce, EnqueueDelete, Unregister, MarkDeparted, DepPc
<1>3. \A f \in Entries : Released(f) => Released(f)'
  BY <1>2 DEF Released, TypeOK
<1>4. QED
  BY <1>1, <1>3 DEF HandsOff, Encoders, MixerKnowsUuid

\* The handler goes from the map to the mixer's pending ones.
LEMMA ReleaseEncoders ==
  ASSUME TypeOK, Ownership, Encoders, NEW e \in Entries, Release(e)
  PROVE  Encoders'
<1> DEFINE u == UuidOf[e]
<1>1. depPc[e] = "release" /\ e \in Conns /\ entry[e] = "departing" /\ u \in Uuids
  BY DeparterIsConn DEF Release
<1>2. handlers[u] = e /\ claimH[e] = e /\ e # None
  BY <1>1 DEF Occupies, Ownership, OccupantOwnsAll, ClaimsAreOwn
<1>3. /\ handlers' = [handlers EXCEPT ![u] = None]
      /\ pendingFree' = [pendingFree EXCEPT ![u] = @ \cup {e}]
      /\ depPc' = [depPc EXCEPT ![e] = "unregister"]
      /\ UNCHANGED <<nodes, mixer, decoder>>
  BY <1>1, <1>2 DEF Release
<1>4. \A f \in Entries : Released(f)' <=> Released(f) \/ f = e
  BY <1>1, <1>3 DEF Released, TypeOK
<1>5. MixerKnowsUuid' /\ NodesRenderOwn' /\ NoFreeWhileMixed'
  BY <1>3 DEF Encoders, MixerKnowsUuid, NodesRenderOwn, NoFreeWhileMixed
<1>6. ReleasedAwaitFree'
  BY <1>1, <1>3, <1>4 DEF Encoders, ReleasedAwaitFree, TypeOK, Entries
<1>7. FreedWereReleased'
  BY <1>3, <1>4 DEF Encoders, FreedWereReleased, Entries
<1>8. DecoderLedger'
  BY <1>1, <1>2, <1>3 DEF Encoders, DecoderLedger, TypeOK, Entries
<1>9. QED
  BY <1>5, <1>6, <1>7, <1>8 DEF Encoders

\* The installation overwrites no handler.
LEMMA InstallEncoders ==
  ASSUME TypeOK, Ownership, Encoders, NEW c \in Conns, FactoryInstall(c)
  PROVE  Encoders'
<1> DEFINE u == UuidOf[c]
<1>1. c \in Entries /\ u \in Uuids
  BY DEF Entries
<1>2. /\ admPc[c] = "install"
      /\ handlers' = [handlers EXCEPT ![u] = c]
      /\ decoder' = [decoder EXCEPT ![c] = GetDecoder]
      /\ UNCHANGED <<depPc, nodes, mixer, pendingFree>>
  BY DEF FactoryInstall, departVars
<1>3. handlers[u] = None
  <2>1. registry[u] = None
    BY <1>2 DEF Ownership, LockReserves
  <2>2. handlers[u] \in Conns \cup {None}
    BY <1>1 DEF TypeOK
  <2>3. QED
    BY <1>1, <2>1, <2>2 DEF Ownership, MapsHoldOccupants, OccupantOwnsAll
<1>4. GetDecoder # "freed"
  BY DEF GetDecoder
<1>5. \A d \in Conns : decoder'[d] = "freed" => decoder[d] = "freed"
  BY <1>2, <1>4 DEF TypeOK
<1>6. MixerKnowsUuid' /\ NodesRenderOwn' /\ ReleasedAwaitFree'
  BY <1>2 DEF Encoders, MixerKnowsUuid, NodesRenderOwn, ReleasedAwaitFree, Released
<1>7. FreedWereReleased'
  BY <1>2, <1>5 DEF Encoders, FreedWereReleased, Released
<1>8. NoFreeWhileMixed'
  <2>1. \A v \in Uuids : nodes[v] # None =>
          \A h \in {nodes[v].input, nodes[v].output} \ {None} : h \in Conns
    BY DEF TypeOK, Node
  <2>2. QED
    BY <1>2, <1>5, <2>1 DEF Encoders, NoFreeWhileMixed
<1>9. DecoderLedger'
  BY <1>1, <1>2, <1>3 DEF Encoders, DecoderLedger, TypeOK, Entries
<1>10. QED
  BY <1>6, <1>7, <1>8, <1>9 DEF Encoders

\* What the map holds when the mixer looks has not been freed.
LEMMA MappedNotFreed ==
  ASSUME TypeOK, Ownership, Encoders, NEW u \in Uuids, handlers[u] # None
  PROVE  UuidOf[handlers[u]] = u /\ decoder[handlers[u]] # "freed"
<1>1. handlers[u] \in Conns
  BY DEF TypeOK
<1>2. UuidOf[handlers[u]] = u /\ Occupies(handlers[u])
  BY DEF Ownership, MapsHoldOccupants
<1>3. QED
  BY <1>1, <1>2 DEF Encoders, FreedWereReleased, Released, Occupies

LEMMA QueueHead ==
  ASSUME TypeOK, queue # <<>>
  PROVE  Head(queue) \in Change /\ UuidOf[Head(queue).by] \in Uuids
<1>1. queue \in Seq(Change)
  BY DEF TypeOK
<1>2. Head(queue) \in Change
  BY <1>1
<1>3. QED
  BY <1>2 DEF Change, Entries

LEMMA MixEncoders ==
  ASSUME TypeOK, Ownership, Encoders, MixerAdd \/ MixerEnableOut
  PROVE  Encoders'
<1> DEFINE u == UuidOf[Head(queue).by]
<1>1. u \in Uuids
  BY QueueHead DEF MixerAdd, MixerEnableOut
<1>2. UNCHANGED <<depPc, handlers, mixer, pendingFree, decoder>>
  BY DEF MixerAdd, MixerEnableOut, departVars, mapVars
<1>3. \A v \in Uuids \ {u} : nodes'[v] = nodes[v]
  BY DEF MixerAdd, MixerEnableOut, TypeOK
<1>4. nodes'[u] # None =>
        \A h \in {nodes'[u].input, nodes'[u].output} \ {None} :
          h = handlers[u] \/ (nodes[u] # None /\ h \in {nodes[u].input, nodes[u].output})
  <2> DEFINE added == [by |-> Head(queue).by, input |-> handlers[u], output |-> None]
  <2>1. CASE nodes'[u] = nodes[u]
    BY <2>1
  <2>2. CASE MixerAdd /\ nodes[u] = None
    <3>1. nodes'[u] = added
      BY <1>1, <2>2 DEF MixerAdd, TypeOK
    <3>2. added.input = handlers[u] /\ added.output = None
      OBVIOUS
    <3>3. QED
      BY <3>1, <3>2
  <2>3. CASE MixerEnableOut /\ nodes[u] # None
    <3>1. nodes[u] \in Node /\ nodes' = [nodes EXCEPT ![u].output = handlers[u]]
      BY <1>1, <2>3 DEF MixerEnableOut, TypeOK
    <3>2. nodes'[u].input = nodes[u].input /\ nodes'[u].output = handlers[u]
      BY <1>1, <3>1 DEF TypeOK, Node
    <3>3. QED
      BY <2>3, <3>2
  <2>4. QED
    BY <2>1, <2>2, <2>3 DEF MixerAdd, MixerEnableOut
<1>5. handlers[u] # None => UuidOf[handlers[u]] = u /\ decoder[handlers[u]] # "freed"
  BY <1>1, MappedNotFreed
<1>6. MixerKnowsUuid' /\ ReleasedAwaitFree' /\ FreedWereReleased' /\ DecoderLedger'
  BY <1>2 DEF Encoders, MixerKnowsUuid, ReleasedAwaitFree, FreedWereReleased, DecoderLedger, Released
<1>7. NodesRenderOwn'
  BY <1>1, <1>3, <1>4, <1>5 DEF Encoders, NodesRenderOwn
<1>8. NoFreeWhileMixed'
  BY <1>1, <1>2, <1>3, <1>4, <1>5 DEF Encoders, NoFreeWhileMixed
<1>9. QED
  BY <1>6, <1>7, <1>8 DEF Encoders

\* The node and the encoders it rendered through go in one step.
LEMMA FreeEncoders ==
  ASSUME TypeOK, Ownership, Encoders, MixerFree
  PROVE  Encoders'
<1> DEFINE u == mixer.uuid
<1>1. u \in Uuids
  BY DEF MixerFree, Encoders, MixerKnowsUuid
<1>2. /\ decoder' = [c \in Conns |-> IF c \in pendingFree[u] THEN "freed" ELSE decoder[c]]
      /\ pendingFree' = [pendingFree EXCEPT ![u] = {}]
      /\ nodes' = [nodes EXCEPT ![u] = None]
      /\ mixer' = MixerIdle
      /\ UNCHANGED <<depPc, handlers>>
  BY DEF MixerFree, departVars, mapVars
<1>3. \A c \in Conns : decoder'[c] = "freed" => decoder[c] = "freed" \/ (UuidOf[c] = u /\ Released(c))
  BY <1>1, <1>2 DEF Encoders, ReleasedAwaitFree
<1>4. MixerKnowsUuid'
  BY <1>2 DEF MixerKnowsUuid, MixerIdle
<1>5. ReleasedAwaitFree' /\ FreedWereReleased'
  BY <1>1, <1>2, <1>3 DEF Encoders, ReleasedAwaitFree, FreedWereReleased, Released, TypeOK
<1>6. NodesRenderOwn'
  BY <1>1, <1>2 DEF Encoders, NodesRenderOwn, TypeOK
<1>7. NoFreeWhileMixed'
  <2> SUFFICES ASSUME NEW v \in Uuids, nodes'[v] # None,
                      NEW h \in {nodes'[v].input, nodes'[v].output} \ {None}
               PROVE  decoder'[h] # "freed"
    BY DEF NoFreeWhileMixed
  <2>1. v # u /\ nodes'[v] = nodes[v]
    BY <1>1, <1>2 DEF TypeOK
  <2>2. h \in Conns /\ UuidOf[h] = v /\ decoder[h] # "freed"
    BY <2>1 DEF Encoders, NodesRenderOwn, NoFreeWhileMixed, TypeOK, Node
  <2>3. QED
    BY <1>3, <2>1, <2>2
<1>8. DecoderLedger'
  BY <1>1, <1>2 DEF Encoders, DecoderLedger, TypeOK, Entries
<1>9. QED
  BY <1>4, <1>5, <1>6, <1>7, <1>8 DEF Encoders

LEMMA MixerEncoders ==
  ASSUME TypeOK, Ownership, Encoders, MixerStep
  PROVE  Encoders'
<1>1. CASE MixerDelete
  <2> DEFINE u == UuidOf[Head(queue).by]
             e == Backstop(u)
  <2>1. u \in Uuids
    BY <1>1, QueueHead DEF MixerDelete
  <2>2. MixerKnowsUuid' /\ UNCHANGED <<handlers, pendingFree, decoder, nodes>>
    BY <1>1, <2>1 DEF MixerDelete, Encoders, MixerKnowsUuid, mapVars
  <2>3. CASE nodes[u] # None /\ e # None /\ entry[e] = "live"
    <3>1. e \in Entries
      BY <2>1, <2>3 DEF TypeOK, Backstop
    <3>2. BeginDeparture(e)
      BY <1>1, <2>3 DEF MixerDelete
    <3>3. QED
      BY <2>2, <3>1, <3>2, BeginHandsOff, HandsOffEncoders
  <2>4. CASE ~(nodes[u] # None /\ e # None /\ entry[e] = "live")
    <3>1. UNCHANGED depPc
      BY <1>1, <2>4 DEF MixerDelete
    <3>2. QED
      BY <2>2, <3>1, HandsOffEncoders DEF HandsOff, Released
  <2>5. QED
    BY <2>3, <2>4
<1>2. CASE MixerDeparted
  <2>1. MixerKnowsUuid' /\ UNCHANGED <<handlers, pendingFree, decoder, nodes, depPc>>
    BY <1>2 DEF MixerDeparted, Encoders, MixerKnowsUuid, mapVars, departVars, TypeOK, Mixer
  <2>2. QED
    BY <2>1, HandsOffEncoders DEF HandsOff, Released
<1>3. QED
  BY <1>1, <1>2, MixEncoders, FreeEncoders DEF MixerStep

LEMMA InitEncoders == Init => Encoders
  BY DEF Init, Encoders, MixerKnowsUuid, MixerIdle, ReleasedAwaitFree, FreedWereReleased,
     NodesRenderOwn, NoFreeWhileMixed, DecoderLedger

LEMMA NextEncoders ==
  TypeOK /\ Ownership /\ Encoders /\ [Next]_vars => Encoders'
<1> SUFFICES ASSUME TypeOK, Ownership, Encoders, [Next]_vars PROVE Encoders'
  OBVIOUS
<1> DEFINE untouched == <<handlers, pendingFree, decoder, nodes, mixer, depPc>>
<1>1. ASSUME NEW c \in Conns, AdmitStep(c) PROVE Encoders'
  <2>1. CASE AdmitForce(c)
    <3>1. admOld[c] \in Entries
      BY <2>1 DEF AdmitForce, Ownership, WaitsForEntry
    <3>2. BeginDeparture(admOld[c]) /\ UNCHANGED <<handlers, pendingFree, decoder, nodes, mixer>>
      BY <2>1 DEF AdmitForce, mapVars, mixVars
    <3>3. MixerKnowsUuid'
      BY <3>2 DEF Encoders, MixerKnowsUuid
    <3>4. QED
      BY <3>1, <3>2, <3>3, BeginHandsOff, HandsOffEncoders
  <2>2. CASE ~AdmitForce(c) /\ ~FactoryInstall(c)
    <3>1. UNCHANGED untouched
      BY <1>1, <2>2 DEF AdmitStep, AdmitFree, AdmitOccupied, AdmitDeparted, AdmitRewait, AdmitWedged,
         FactoryRefuse, FactoryRecheck, HandlerReturned, mapVars, departVars, mixVars
    <3>2. QED
      BY <3>1, UnchangedHandsOff, HandsOffEncoders
  <2>3. QED
    BY <2>1, <2>2, InstallEncoders
<1>2. ASSUME NEW c \in Conns, ClientStep(c) PROVE Encoders'
  <2>0. c \in Entries
    BY DEF Entries
  <2>1. CASE ReconcileDead(c) \/ (OwnerStops(c) /\ entry[c] = "live")
    <3>1. BeginDeparture(c) /\ UNCHANGED <<handlers, pendingFree, decoder, nodes, mixer>>
      BY <2>1 DEF ReconcileDead, OwnerStops, mapVars, mixVars
    <3>2. MixerKnowsUuid'
      BY <3>1 DEF Encoders, MixerKnowsUuid
    <3>3. QED
      BY <2>0, <3>1, <3>2, BeginHandsOff, HandsOffEncoders
  <2>2. CASE ~(ReconcileDead(c) \/ (OwnerStops(c) /\ entry[c] = "live"))
    <3>1. UNCHANGED untouched
      BY <1>2, <2>2 DEF ClientStep, TransportCloses, OwnerFindsNoHandler, OwnerStops, Publish, Command,
         mapVars, departVars, mixVars
    <3>2. QED
      BY <3>1, UnchangedHandsOff, HandsOffEncoders
  <2>3. QED
    BY <2>1, <2>2
<1>3. ASSUME NEW e \in Entries, DepartStep(e) PROVE Encoders'
  BY <1>3, ReleaseEncoders, DepartHandsOff, HandsOffEncoders
<1>4. CASE MixerStep
  BY <1>4, MixerEncoders
<1>5. CASE Dispatch \/ UNCHANGED vars
  <2>1. UNCHANGED untouched
    BY <1>5 DEF Dispatch, vars, mapVars, departVars, mixVars
  <2>2. QED
    BY <2>1, UnchangedHandsOff, HandsOffEncoders
<1>6. QED
  BY <1>1, <1>2, <1>3, <1>4, <1>5 DEF Next

LEMMA EncodersInvariant == Spec => []Encoders
<1>1. Init => Encoders
  BY InitEncoders
<1>2. TypeOK /\ Ownership /\ Encoders /\ [Next]_vars => Encoders'
  BY NextEncoders
<1>3. QED
  BY <1>1, <1>2, TypeCorrect, OwnershipInvariant, PTL DEF Spec

\* The mixer renders through no freed encoder, however admissions, departures
\* and the backstop of FreeSource interleave.
THEOREM NothingFreedIsMixed == Spec => []NoFreeWhileMixed
<1>1. Encoders => NoFreeWhileMixed
  BY DEF Encoders
<1>2. QED
  BY <1>1, EncodersInvariant, PTL

\* A leased decoder's handler is in the map or waits for the mixer goroutine.
THEOREM LeasesAreReachable == Spec => []DecoderLedger
<1>1. Encoders => DecoderLedger
  BY DEF Encoders
<1>2. QED
  BY <1>1, EncodersInvariant, PTL

-------------------------------------------------------------------------------
(* The change queue.                                                       *)

\* A session of u that has still to queue its DELETE.
WillDelete(u) ==
  \E c \in Conns :
    /\ UuidOf[c] = u
    /\ entry[c] \in {"live", "departing"}
    /\ depPc[c] \in {"none", "sever", "collect", "announce", "delete"}

Queued(i, op, u) == queue[i].op = op /\ UuidOf[queue[i].by] = u

\* The mixer has a node that it is not about to drop.
NodeStays(u) == nodes[u] # None /\ ~(mixer.pc # "idle" /\ mixer.uuid = u)

\* Between an ADD and the node, or the ADD, before it there is a DELETE.
AddBehindDelete ==
  \A u \in Uuids, i \in DOMAIN queue : Queued(i, "ADD", u) =>
    /\ NodeStays(u) => \E j \in DOMAIN queue : j < i /\ Queued(j, "DELETE", u)
    /\ \A k \in DOMAIN queue : k < i /\ Queued(k, "ADD", u) =>
         \E j \in DOMAIN queue : k < j /\ j < i /\ Queued(j, "DELETE", u)

\* And behind the last of them, once every session has queued its DELETE.
DeleteFollows ==
  \A u \in Uuids : ~WillDelete(u) =>
    /\ NodeStays(u) => \E j \in DOMAIN queue : Queued(j, "DELETE", u)
    /\ \A k \in DOMAIN queue : Queued(k, "ADD", u) =>
         \E j \in DOMAIN queue : k < j /\ Queued(j, "DELETE", u)

ChangeOrder == AddBehindDelete /\ DeleteFollows

LEMMA QuietChanges ==
  ASSUME ChangeOrder, UNCHANGED queue,
         \A u \in Uuids : (NodeStays(u)' => NodeStays(u)) /\ (WillDelete(u) => WillDelete(u)')
  PROVE  ChangeOrder'
<1>1. AddBehindDelete'
  BY DEF ChangeOrder, AddBehindDelete, Queued
<1>2. DeleteFollows'
  BY DEF ChangeOrder, DeleteFollows, Queued
<1>3. QED
  BY <1>1, <1>2 DEF ChangeOrder

\* The mixer takes a change: what it adds to or removes from the nodes is what
\* the change says.
LEMMA TakeChange ==
  ASSUME TypeOK, ChangeOrder, queue # <<>>, queue' = Tail(queue),
         \A u \in Uuids : /\ WillDelete(u) => WillDelete(u)'
                          /\ NodeStays(u)' => \/ NodeStays(u) /\ ~Queued(1, "DELETE", u)
                                              \/ Queued(1, "ADD", u)
  PROVE  ChangeOrder'
<1> DEFINE n == Len(queue)
<1>1. /\ n \in Nat \ {0}
      /\ DOMAIN queue = 1..n
      /\ DOMAIN queue' = 1..(n - 1)
      /\ \A i \in 1..(n - 1) : queue'[i] = queue[i + 1] /\ i + 1 \in 1..n
  <2>1. queue \in Seq(Change)
    BY DEF TypeOK
  <2>2. QED
    BY <2>1
<1> HIDE DEF n
<1>2. 1 \in 1..n
  BY <1>1
<1>3. ASSUME NEW op, NEW u, NEW i \in 1..(n - 1)
      PROVE  Queued(i, op, u)' <=> Queued(i + 1, op, u)
  BY <1>1 DEF Queued
<1>4. ASSUME NEW u, NEW j \in 1..n, j # 1, Queued(j, "DELETE", u)
      PROVE  j - 1 \in 1..(n - 1) /\ Queued(j - 1, "DELETE", u)'
  <2>1. j - 1 \in 1..(n - 1) /\ (j - 1) + 1 = j
    BY <1>1, <1>4
  <2>2. QED
    BY <1>3, <1>4, <2>1
<1>5. AddBehindDelete'
  <2> SUFFICES ASSUME NEW u \in Uuids, NEW i \in 1..(n - 1), Queued(i, "ADD", u)'
               PROVE  /\ NodeStays(u)' => \E j \in 1..(n - 1) : j < i /\ Queued(j, "DELETE", u)'
                      /\ \A k \in 1..(n - 1) : k < i /\ Queued(k, "ADD", u)' =>
                           \E j \in 1..(n - 1) : k < j /\ j < i /\ Queued(j, "DELETE", u)'
    BY <1>1 DEF AddBehindDelete
  <2>1. i + 1 \in 1..n /\ Queued(i + 1, "ADD", u)
    BY <1>1, <1>3
  <2>2. ASSUME NEW j \in 1..n, j # 1, j < i + 1, Queued(j, "DELETE", u)
        PROVE  \E l \in 1..(n - 1) : l < i /\ Queued(l, "DELETE", u)'
    <3>1. j - 1 \in 1..(n - 1) /\ j - 1 < i /\ Queued(j - 1, "DELETE", u)'
      BY <1>1, <1>4, <2>2
    <3>2. QED
      BY <3>1
  <2>3. ASSUME NodeStays(u)'
        PROVE  \E j \in 1..(n - 1) : j < i /\ Queued(j, "DELETE", u)'
    <3>1. CASE NodeStays(u) /\ ~Queued(1, "DELETE", u)
      <4>1. PICK j \in 1..n : j < i + 1 /\ Queued(j, "DELETE", u)
        BY <1>1, <2>1, <3>1 DEF ChangeOrder, AddBehindDelete
      <4>2. QED
        BY <2>2, <3>1, <4>1
    <3>2. CASE Queued(1, "ADD", u)
      <4>1. 1 < i + 1
        BY <1>1
      <4>2. PICK j \in 1..n : 1 < j /\ j < i + 1 /\ Queued(j, "DELETE", u)
        BY <1>1, <1>2, <2>1, <3>2, <4>1 DEF ChangeOrder, AddBehindDelete
      <4>3. QED
        BY <2>2, <4>2
    <3>3. QED
      BY <2>3, <3>1, <3>2
  <2>4. ASSUME NEW k \in 1..(n - 1), k < i, Queued(k, "ADD", u)'
        PROVE  \E j \in 1..(n - 1) : k < j /\ j < i /\ Queued(j, "DELETE", u)'
    <3>1. k + 1 \in 1..n /\ k + 1 < i + 1 /\ Queued(k + 1, "ADD", u)
      BY <1>1, <1>3, <2>4
    <3>2. PICK j \in 1..n : k + 1 < j /\ j < i + 1 /\ Queued(j, "DELETE", u)
      BY <1>1, <2>1, <3>1 DEF ChangeOrder, AddBehindDelete
    <3>3. j # 1 /\ k < j - 1 /\ j - 1 < i
      BY <1>1, <3>2
    <3>4. QED
      BY <1>4, <3>2, <3>3
  <2>5. QED
    BY <2>3, <2>4
<1>6. DeleteFollows'
  <2> SUFFICES ASSUME NEW u \in Uuids, ~WillDelete(u)'
               PROVE  /\ NodeStays(u)' => \E j \in 1..(n - 1) : Queued(j, "DELETE", u)'
                      /\ \A k \in 1..(n - 1) : Queued(k, "ADD", u)' =>
                           \E j \in 1..(n - 1) : k < j /\ Queued(j, "DELETE", u)'
    BY <1>1 DEF DeleteFollows
  <2>1. ~WillDelete(u)
    OBVIOUS
  <2>2. ASSUME NodeStays(u)'
        PROVE  \E j \in 1..(n - 1) : Queued(j, "DELETE", u)'
    <3>1. CASE NodeStays(u) /\ ~Queued(1, "DELETE", u)
      <4>1. PICK j \in 1..n : Queued(j, "DELETE", u)
        BY <1>1, <2>1, <3>1 DEF ChangeOrder, DeleteFollows
      <4>2. j # 1
        BY <3>1, <4>1
      <4>3. QED
        BY <1>4, <4>1, <4>2
    <3>2. CASE Queued(1, "ADD", u)
      <4>1. PICK j \in 1..n : 1 < j /\ Queued(j, "DELETE", u)
        BY <1>1, <1>2, <2>1, <3>2 DEF ChangeOrder, DeleteFollows
      <4>2. QED
        BY <1>4, <4>1
    <3>3. QED
      BY <2>2, <3>1, <3>2
  <2>3. ASSUME NEW k \in 1..(n - 1), Queued(k, "ADD", u)'
        PROVE  \E j \in 1..(n - 1) : k < j /\ Queued(j, "DELETE", u)'
    <3>1. k + 1 \in 1..n /\ Queued(k + 1, "ADD", u)
      BY <1>1, <1>3, <2>3
    <3>2. PICK j \in 1..n : k + 1 < j /\ Queued(j, "DELETE", u)
      BY <1>1, <2>1, <3>1 DEF ChangeOrder, DeleteFollows
    <3>3. j # 1 /\ k < j - 1
      BY <1>1, <3>2
    <3>4. QED
      BY <1>4, <3>2, <3>3
  <2>4. QED
    BY <2>2, <2>3
<1>7. QED
  BY <1>5, <1>6 DEF ChangeOrder

\* Every step keeps a session's DELETE due, but the one that queues it.
KeepsDue == \A u \in Uuids : WillDelete(u) => WillDelete(u)'

LEMMA BeginKeepsDue ==
  ASSUME TypeOK, NEW e \in Entries, BeginDeparture(e)
  PROVE  KeepsDue
  BY DEF KeepsDue, WillDelete, BeginDeparture, TypeOK, Entries

LEMMA UnchangedKeepsDue ==
  ASSUME UNCHANGED <<entry, depPc>>
  PROVE  KeepsDue
  BY DEF KeepsDue, WillDelete

LEMMA DepartKeepsDue ==
  ASSUME TypeOK, Ownership, NEW e \in Entries, DepartStep(e), ~EnqueueDelete(e)
  PROVE  KeepsDue
<1>1. CASE Sever(e) \/ CollectKeys(e) \/ Announce(e)
  <2>1. UNCHANGED entry /\ depPc[e] \in {"sever", "collect", "announce"}
        /\ \E to \in {"collect", "announce", "delete"} : depPc' = [depPc EXCEPT ![e] = to]
    BY <1>1 DEF Sever, CollectKeys, Announce, registryVars
  <2>2. QED
    BY <2>1 DEF KeepsDue, WillDelete, TypeOK
<1>2. CASE Release(e) \/ Unregister(e) \/ MarkDeparted(e)
  <2>1. depPc[e] \in {"release", "unregister", "mark"}
    BY <1>2 DEF Release, Unregister, MarkDeparted
  <2>2. \A c \in Conns \ {e} : entry'[c] = entry[c] /\ depPc'[c] = depPc[c]
    BY <1>2 DEF Release, Unregister, MarkDeparted, registryVars, TypeOK, Entries
  <2>3. QED
    BY <2>1, <2>2 DEF KeepsDue, WillDelete
<1>3. QED
  BY <1>1, <1>2 DEF DepartStep

\* The DELETE of a session goes behind everything queued before it.
LEMMA DeleteChanges ==
  ASSUME TypeOK, Ownership, ChangeOrder, NEW e \in Entries, EnqueueDelete(e)
  PROVE  ChangeOrder'
<1> DEFINE u == UuidOf[e]
<1>0. PICK n : n = Len(queue)
  OBVIOUS
<1>1. depPc[e] = "delete" /\ e \in Conns /\ entry[e] = "departing" /\ u \in Uuids
  BY DeparterIsConn DEF EnqueueDelete
<1>2. /\ n \in Nat
      /\ DOMAIN queue = 1..n
      /\ DOMAIN queue' = 1..(n + 1)
      /\ \A i \in 1..n : queue'[i] = queue[i]
      /\ queue'[n + 1] = [op |-> "DELETE", by |-> e]
  <2>1. queue \in Seq(Change) /\ queue' = Append(queue, [op |-> "DELETE", by |-> e])
    BY DEF TypeOK, EnqueueDelete
  <2>2. QED
    BY <1>0, <2>1
<1>3. UNCHANGED <<nodes, mixer, entry>> /\ depPc' = [depPc EXCEPT ![e] = "release"]
  BY DEF EnqueueDelete, registryVars
<1>4. \A v \in Uuids : NodeStays(v)' <=> NodeStays(v)
  BY <1>3 DEF NodeStays
<1>5. \A v \in Uuids \ {u} : WillDelete(v)' <=> WillDelete(v)
  <2>1. \A c \in Conns \ {e} : depPc'[c] = depPc[c] /\ entry'[c] = entry[c]
    BY <1>3 DEF TypeOK, Entries
  <2>2. QED
    BY <1>3, <2>1 DEF WillDelete
<1>6. ASSUME NEW op, NEW v, NEW i \in 1..n
      PROVE  Queued(i, op, v)' <=> Queued(i, op, v)
  BY <1>2 DEF Queued
<1>7. n + 1 \in 1..(n + 1) /\ Queued(n + 1, "DELETE", u)' /\ \A v : ~Queued(n + 1, "ADD", v)'
  BY <1>2 DEF Queued
<1>8. \A i \in 1..(n + 1) : i = n + 1 \/ i \in 1..n
  BY <1>2
<1>9. \A i \in 1..n : i \in 1..(n + 1) /\ i < n + 1
  BY <1>2
<1>10. AddBehindDelete'
  <2> SUFFICES ASSUME NEW v \in Uuids, NEW i \in 1..(n + 1), Queued(i, "ADD", v)'
               PROVE  /\ NodeStays(v)' => \E j \in 1..(n + 1) : j < i /\ Queued(j, "DELETE", v)'
                      /\ \A k \in 1..(n + 1) : k < i /\ Queued(k, "ADD", v)' =>
                           \E j \in 1..(n + 1) : k < j /\ j < i /\ Queued(j, "DELETE", v)'
    BY <1>2 DEF AddBehindDelete
  <2>1. i \in 1..n /\ Queued(i, "ADD", v)
    BY <1>6, <1>7, <1>8
  <2>2. ASSUME NodeStays(v)'
        PROVE  \E j \in 1..(n + 1) : j < i /\ Queued(j, "DELETE", v)'
    <3>1. PICK j \in 1..n : j < i /\ Queued(j, "DELETE", v)
      BY <1>2, <1>4, <2>1, <2>2 DEF ChangeOrder, AddBehindDelete
    <3>2. QED
      BY <1>6, <1>9, <3>1
  <2>3. ASSUME NEW k \in 1..(n + 1), k < i, Queued(k, "ADD", v)'
        PROVE  \E j \in 1..(n + 1) : k < j /\ j < i /\ Queued(j, "DELETE", v)'
    <3>1. k \in 1..n /\ Queued(k, "ADD", v)
      BY <1>6, <1>7, <1>8, <2>3
    <3>2. PICK j \in 1..n : k < j /\ j < i /\ Queued(j, "DELETE", v)
      BY <1>2, <2>1, <2>3, <3>1 DEF ChangeOrder, AddBehindDelete
    <3>3. QED
      BY <1>6, <1>9, <3>2
  <2>4. QED
    BY <2>2, <2>3
<1>11. DeleteFollows'
  <2> SUFFICES ASSUME NEW v \in Uuids, ~WillDelete(v)'
               PROVE  /\ NodeStays(v)' => \E j \in 1..(n + 1) : Queued(j, "DELETE", v)'
                      /\ \A k \in 1..(n + 1) : Queued(k, "ADD", v)' =>
                           \E j \in 1..(n + 1) : k < j /\ Queued(j, "DELETE", v)'
    BY <1>2 DEF DeleteFollows
  <2>1. CASE v = u
    <3>1. Queued(n + 1, "DELETE", v)'
      BY <1>7, <2>1
    <3>2. \A k \in 1..(n + 1) : Queued(k, "ADD", v)' => k < n + 1
      BY <1>7, <1>8, <1>9
    <3>3. QED
      BY <1>7, <3>1, <3>2
  <2>2. CASE v # u
    <3>1. ~WillDelete(v)
      BY <1>5, <2>2
    <3>2. ASSUME NodeStays(v)'
          PROVE  \E j \in 1..(n + 1) : Queued(j, "DELETE", v)'
      <4>1. PICK j \in 1..n : Queued(j, "DELETE", v)
        BY <1>2, <1>4, <3>1, <3>2 DEF ChangeOrder, DeleteFollows
      <4>2. QED
        BY <1>6, <1>9, <4>1
    <3>3. ASSUME NEW k \in 1..(n + 1), Queued(k, "ADD", v)'
          PROVE  \E j \in 1..(n + 1) : k < j /\ Queued(j, "DELETE", v)'
      <4>1. k \in 1..n /\ Queued(k, "ADD", v)
        BY <1>6, <1>7, <1>8, <3>3
      <4>2. PICK j \in 1..n : k < j /\ Queued(j, "DELETE", v)
        BY <1>2, <3>1, <4>1 DEF ChangeOrder, DeleteFollows
      <4>3. QED
        BY <1>6, <1>9, <4>2
    <3>4. QED
      BY <3>2, <3>3
  <2>3. QED
    BY <2>1, <2>2
<1>12. QED
  BY <1>10, <1>11 DEF ChangeOrder

\* The ADD of a newcomer finds its identity free, so every predecessor has
\* queued its DELETE; the newcomer has not.
LEMMA InstallChanges ==
  ASSUME TypeOK, Ownership, ChangeOrder, NEW c \in Conns, FactoryInstall(c)
  PROVE  ChangeOrder'
<1> DEFINE u == UuidOf[c]
<1>0. PICK n : n = Len(queue)
  OBVIOUS
<1>1. c \in Entries /\ u \in Uuids /\ admPc[c] = "install" /\ entry[c] = "none" /\ depPc[c] = "none"
  BY DEF Entries, FactoryInstall, Ownership, EntryFollowsFactory, PcFollowsEntry
<1>2. /\ n \in Nat
      /\ DOMAIN queue = 1..n
      /\ DOMAIN queue' = 1..(n + 2)
      /\ \A i \in 1..n : queue'[i] = queue[i]
      /\ queue'[n + 1] = [op |-> "ADD", by |-> c]
      /\ queue'[n + 2] = [op |-> "ENABLE_OUT", by |-> c]
  <2>1. /\ queue \in Seq(Change)
        /\ queue' = queue \o <<[op |-> "ADD", by |-> c], [op |-> "ENABLE_OUT", by |-> c]>>
    BY DEF TypeOK, FactoryInstall
  <2>2. QED
    BY <1>0, <2>1
<1>3. UNCHANGED <<nodes, mixer, depPc>> /\ entry' = [entry EXCEPT ![c] = "live"]
  BY DEF FactoryInstall, departVars
<1>4. \A v \in Uuids : NodeStays(v)' <=> NodeStays(v)
  BY <1>3 DEF NodeStays
<1>5. WillDelete(u)' /\ \A v \in Uuids : WillDelete(v) => WillDelete(v)'
  BY <1>1, <1>3 DEF WillDelete, TypeOK, Entries
<1>6. ~WillDelete(u)
  <2> SUFFICES ASSUME NEW d \in Conns, UuidOf[d] = u, entry[d] \in {"live", "departing"},
                      depPc[d] \in {"none", "sever", "collect", "announce", "delete"}
               PROVE  FALSE
    BY DEF WillDelete
  <2>1. Occupies(d)
    BY DEF Occupies
  <2>2. registry[u] = d /\ registry[u] = None
    BY <1>1, <2>1 DEF Ownership, OccupantOwnsAll, LockReserves
  <2>3. QED
    BY <2>2
<1>7. ASSUME NEW op, NEW v, NEW i \in 1..n
      PROVE  Queued(i, op, v)' <=> Queued(i, op, v)
  BY <1>2 DEF Queued
<1>8. \A v : (Queued(n + 1, "ADD", v)' => v = u) /\ ~Queued(n + 2, "ADD", v)'
  BY <1>2 DEF Queued
<1>9. \A i \in 1..(n + 2) : i = n + 1 \/ i = n + 2 \/ i \in 1..n
  BY <1>2
<1>10. \A i \in 1..n : i \in 1..(n + 2) /\ i < n + 1
  BY <1>2
<1>11. AddBehindDelete'
  <2> SUFFICES ASSUME NEW v \in Uuids, NEW i \in 1..(n + 2), Queued(i, "ADD", v)'
               PROVE  /\ NodeStays(v)' => \E j \in 1..(n + 2) : j < i /\ Queued(j, "DELETE", v)'
                      /\ \A k \in 1..(n + 2) : k < i /\ Queued(k, "ADD", v)' =>
                           \E j \in 1..(n + 2) : k < j /\ j < i /\ Queued(j, "DELETE", v)'
    BY <1>2 DEF AddBehindDelete
  <2>1. CASE i \in 1..n
    <3>1. Queued(i, "ADD", v)
      BY <1>7, <2>1
    <3>2. ASSUME NodeStays(v)'
          PROVE  \E j \in 1..(n + 2) : j < i /\ Queued(j, "DELETE", v)'
      <4>1. PICK j \in 1..n : j < i /\ Queued(j, "DELETE", v)
        BY <1>2, <1>4, <2>1, <3>1, <3>2 DEF ChangeOrder, AddBehindDelete
      <4>2. QED
        BY <1>7, <1>10, <4>1
    <3>3. ASSUME NEW k \in 1..(n + 2), k < i, Queued(k, "ADD", v)'
          PROVE  \E j \in 1..(n + 2) : k < j /\ j < i /\ Queued(j, "DELETE", v)'
      <4>1. k \in 1..n
        BY <1>2, <2>1, <3>3
      <4>2. Queued(k, "ADD", v)
        BY <1>7, <3>3, <4>1
      <4>3. PICK j \in 1..n : k < j /\ j < i /\ Queued(j, "DELETE", v)
        BY <1>2, <2>1, <3>1, <3>3, <4>1, <4>2 DEF ChangeOrder, AddBehindDelete
      <4>4. QED
        BY <1>7, <1>10, <4>3
    <3>4. QED
      BY <3>2, <3>3
  <2>2. CASE i = n + 1
    <3>1. v = u
      BY <1>8, <2>2
    <3>2. ASSUME NodeStays(v)'
          PROVE  \E j \in 1..(n + 2) : j < i /\ Queued(j, "DELETE", v)'
      <4>1. PICK j \in 1..n : Queued(j, "DELETE", v)
        BY <1>2, <1>4, <1>6, <3>1, <3>2 DEF ChangeOrder, DeleteFollows
      <4>2. QED
        BY <1>7, <1>10, <2>2, <4>1
    <3>3. ASSUME NEW k \in 1..(n + 2), k < i, Queued(k, "ADD", v)'
          PROVE  \E j \in 1..(n + 2) : k < j /\ j < i /\ Queued(j, "DELETE", v)'
      <4>1. k \in 1..n
        BY <1>2, <2>2, <3>3
      <4>2. Queued(k, "ADD", v)
        BY <1>7, <3>3, <4>1
      <4>3. PICK j \in 1..n : k < j /\ Queued(j, "DELETE", v)
        BY <1>2, <1>6, <3>1, <4>1, <4>2 DEF ChangeOrder, DeleteFollows
      <4>4. QED
        BY <1>7, <1>10, <2>2, <4>3
    <3>4. QED
      BY <3>2, <3>3
  <2>3. CASE i = n + 2
    BY <1>8, <2>3
  <2>4. QED
    BY <1>9, <2>1, <2>2, <2>3
<1>12. DeleteFollows'
  <2> SUFFICES ASSUME NEW v \in Uuids, ~WillDelete(v)'
               PROVE  /\ NodeStays(v)' => \E j \in 1..(n + 2) : Queued(j, "DELETE", v)'
                      /\ \A k \in 1..(n + 2) : Queued(k, "ADD", v)' =>
                           \E j \in 1..(n + 2) : k < j /\ Queued(j, "DELETE", v)'
    BY <1>2 DEF DeleteFollows
  <2>1. v # u
    BY <1>5
  <2>2. ~WillDelete(v)
    BY <1>5
  <2>3. ASSUME NodeStays(v)'
        PROVE  \E j \in 1..(n + 2) : Queued(j, "DELETE", v)'
    <3>1. PICK j \in 1..n : Queued(j, "DELETE", v)
      BY <1>2, <1>4, <2>2, <2>3 DEF ChangeOrder, DeleteFollows
    <3>2. QED
      BY <1>7, <1>10, <3>1
  <2>4. ASSUME NEW k \in 1..(n + 2), Queued(k, "ADD", v)'
        PROVE  \E j \in 1..(n + 2) : k < j /\ Queued(j, "DELETE", v)'
    <3>1. k \in 1..n
      BY <1>8, <1>9, <2>1, <2>4
    <3>2. Queued(k, "ADD", v)
      BY <1>7, <2>4, <3>1
    <3>3. PICK j \in 1..n : k < j /\ Queued(j, "DELETE", v)
      BY <1>2, <2>2, <3>1, <3>2 DEF ChangeOrder, DeleteFollows
    <3>4. QED
      BY <1>7, <1>10, <3>3
  <2>5. QED
    BY <2>3, <2>4
<1>13. QED
  BY <1>11, <1>12 DEF ChangeOrder

LEMMA MixerTakes ==
  ASSUME TypeOK, Ownership, ChangeOrder, MixerAdd \/ MixerEnableOut \/ MixerDelete
  PROVE  ChangeOrder'
<1> DEFINE u == UuidOf[Head(queue).by]
<1>1. queue # <<>> /\ queue' = Tail(queue) /\ mixer.pc = "idle" /\ u \in Uuids
  BY QueueHead DEF MixerAdd, MixerEnableOut, MixerDelete
<1>2. \A op, v : Queued(1, op, v) <=> Head(queue).op = op /\ v = u
  <2>1. Head(queue) = queue[1]
    BY <1>1
  <2>2. QED
    BY <2>1 DEF Queued
<1>3. CASE MixerAdd
  <2>1. KeepsDue
    BY <1>3, UnchangedKeepsDue DEF MixerAdd, registryVars, departVars
  <2>2. /\ Head(queue).op = "ADD"
        /\ UNCHANGED mixer
        /\ \A v \in Uuids \ {u} : nodes'[v] = nodes[v]
    BY <1>3 DEF MixerAdd, TypeOK
  <2>3. \A v \in Uuids : NodeStays(v)' =>
          (NodeStays(v) /\ ~Queued(1, "DELETE", v)) \/ Queued(1, "ADD", v)
    BY <1>2, <2>2 DEF NodeStays
  <2>4. QED
    BY <1>1, <2>1, <2>3, TakeChange DEF KeepsDue
<1>4. CASE MixerEnableOut
  <2>1. KeepsDue
    BY <1>4, UnchangedKeepsDue DEF MixerEnableOut, registryVars, departVars
  <2>2. /\ Head(queue).op = "ENABLE_OUT"
        /\ UNCHANGED mixer
        /\ \A v \in Uuids : nodes[v] = None => nodes'[v] = None
    BY <1>4 DEF MixerEnableOut, TypeOK
  <2>3. \A v \in Uuids : NodeStays(v)' => NodeStays(v) /\ ~Queued(1, "DELETE", v)
    BY <1>2, <2>2 DEF NodeStays
  <2>4. QED
    BY <1>1, <2>1, <2>3, TakeChange DEF KeepsDue
<1>5. CASE MixerDelete
  <2> DEFINE e == Backstop(u)
             departs == nodes[u] # None /\ e # None /\ entry[e] = "live"
  <2>1. KeepsDue
    <3>1. CASE departs
      <4>1. e \in Entries /\ BeginDeparture(e)
        BY <1>1, <1>5, <3>1 DEF MixerDelete, Backstop, TypeOK
      <4>2. QED
        BY <4>1, BeginKeepsDue
    <3>2. CASE ~departs
      BY <1>5, <3>2, UnchangedKeepsDue DEF MixerDelete
    <3>3. QED
      BY <3>1, <3>2
  <2>2. Head(queue).op = "DELETE" /\ UNCHANGED nodes
    BY <1>5 DEF MixerDelete
  <2>3. nodes[u] # None => mixer'.pc # "idle" /\ mixer'.uuid = u
    BY <1>5 DEF MixerDelete
  <2>4. \A v \in Uuids : NodeStays(v)' => NodeStays(v) /\ ~Queued(1, "DELETE", v)
    BY <1>1, <1>2, <2>2, <2>3 DEF NodeStays
  <2>5. QED
    BY <1>1, <2>1, <2>4, TakeChange DEF KeepsDue
<1>6. QED
  BY <1>3, <1>4, <1>5

\* The removal of a node, on its own side of the queue.
LEMMA MixerRemoves ==
  ASSUME TypeOK, ChangeOrder, MixerDeparted \/ MixerFree
  PROVE  ChangeOrder'
<1>1. UNCHANGED queue /\ KeepsDue
  BY UnchangedKeepsDue DEF MixerDeparted, MixerFree, registryVars, departVars
<1>2. \A v \in Uuids : NodeStays(v)' => NodeStays(v)
  BY DEF MixerDeparted, MixerFree, NodeStays, TypeOK, Mixer, MixerIdle
<1>3. QED
  BY <1>1, <1>2, QuietChanges DEF KeepsDue

LEMMA UnchangedChanges ==
  ASSUME ChangeOrder, UNCHANGED <<queue, nodes, mixer>>, KeepsDue
  PROVE  ChangeOrder'
<1>1. \A v \in Uuids : NodeStays(v)' => NodeStays(v)
  BY DEF NodeStays
<1>2. QED
  BY <1>1, QuietChanges DEF KeepsDue

LEMMA InitChanges == Init => ChangeOrder
  BY DEF Init, ChangeOrder, AddBehindDelete, DeleteFollows, NodeStays

LEMMA NextChanges ==
  TypeOK /\ Ownership /\ ChangeOrder /\ [Next]_vars => ChangeOrder'
<1> SUFFICES ASSUME TypeOK, Ownership, ChangeOrder, [Next]_vars PROVE ChangeOrder'
  OBVIOUS
<1> DEFINE mixing == <<queue, nodes, mixer>>
<1>1. ASSUME NEW c \in Conns, AdmitStep(c) PROVE ChangeOrder'
  <2>1. CASE AdmitForce(c)
    <3>1. admOld[c] \in Entries
      BY <2>1 DEF AdmitForce, Ownership, WaitsForEntry
    <3>2. BeginDeparture(admOld[c]) /\ UNCHANGED mixing
      BY <2>1 DEF AdmitForce, mixVars
    <3>3. QED
      BY <3>1, <3>2, BeginKeepsDue, UnchangedChanges
  <2>2. CASE ~AdmitForce(c) /\ ~FactoryInstall(c)
    <3>1. UNCHANGED mixing /\ UNCHANGED <<entry, depPc>>
      BY <1>1, <2>2 DEF AdmitStep, AdmitFree, AdmitOccupied, AdmitDeparted, AdmitRewait, AdmitWedged,
         FactoryRefuse, FactoryRecheck, HandlerReturned, registryVars, departVars, mixVars
    <3>2. QED
      BY <3>1, UnchangedKeepsDue, UnchangedChanges
  <2>3. QED
    BY <2>1, <2>2, InstallChanges
<1>2. ASSUME NEW c \in Conns, ClientStep(c) PROVE ChangeOrder'
  <2>0. c \in Entries
    BY DEF Entries
  <2>1. UNCHANGED mixing
    BY <1>2 DEF ClientStep, TransportCloses, OwnerFindsNoHandler, OwnerStops, ReconcileDead,
       Publish, Command, mixVars
  <2>2. BeginDeparture(c) \/ UNCHANGED <<entry, depPc>>
    BY <1>2 DEF ClientStep, TransportCloses, OwnerFindsNoHandler, OwnerStops, ReconcileDead,
       Publish, Command, registryVars, departVars
  <2>3. QED
    BY <2>0, <2>1, <2>2, BeginKeepsDue, UnchangedKeepsDue, UnchangedChanges
<1>3. ASSUME NEW e \in Entries, DepartStep(e) PROVE ChangeOrder'
  <2>1. CASE EnqueueDelete(e)
    BY <2>1, DeleteChanges
  <2>2. CASE ~EnqueueDelete(e)
    <3>1. UNCHANGED mixing
      BY <1>3, <2>2 DEF DepartStep, Sever, CollectKeys, Announce, Release, Unregister, MarkDeparted, mixVars
    <3>2. QED
      BY <1>3, <2>2, <3>1, DepartKeepsDue, UnchangedChanges
  <2>3. QED
    BY <2>1, <2>2
<1>4. CASE MixerStep
  BY <1>4, MixerTakes, MixerRemoves DEF MixerStep
<1>5. CASE Dispatch \/ UNCHANGED vars
  <2>1. UNCHANGED mixing /\ UNCHANGED <<entry, depPc>>
    BY <1>5 DEF Dispatch, vars, registryVars, departVars, mixVars
  <2>2. QED
    BY <2>1, UnchangedKeepsDue, UnchangedChanges
<1>6. QED
  BY <1>1, <1>2, <1>3, <1>4, <1>5 DEF Next

LEMMA ChangeOrderInvariant == Spec => []ChangeOrder
<1>1. Init => ChangeOrder
  BY InitChanges
<1>2. TypeOK /\ Ownership /\ ChangeOrder /\ [Next]_vars => ChangeOrder'
  BY NextChanges
<1>3. QED
  BY <1>1, <1>2, TypeCorrect, OwnershipInvariant, PTL DEF Spec

\* The mixer never meets a successor's ADD while the predecessor's node is
\* there, so doAddNode refuses none as a duplicate.
THEOREM SuccessorsAreAdded == Spec => []AddFindsFreeUuid
<1>1. TypeOK /\ ChangeOrder => AddFindsFreeUuid
  <2> SUFFICES ASSUME TypeOK, ChangeOrder, queue # <<>>, Head(queue).op = "ADD", mixer.pc = "idle",
                      nodes[UuidOf[Head(queue).by]] # None
               PROVE  FALSE
    BY DEF AddFindsFreeUuid
  <2> DEFINE u == UuidOf[Head(queue).by]
  <2>1. u \in Uuids
    BY QueueHead
  <2>2. 1 \in DOMAIN queue /\ queue[1] = Head(queue) /\ \A j \in DOMAIN queue : ~(j < 1)
    <3>1. queue \in Seq(Change)
      BY DEF TypeOK
    <3>2. QED
      BY <3>1
  <2>3. Queued(1, "ADD", u) /\ NodeStays(u)
    BY <2>2 DEF Queued, NodeStays
  <2>4. QED
    BY <2>1, <2>2, <2>3 DEF ChangeOrder, AddBehindDelete
<1>2. QED
  BY <1>1, TypeCorrect, ChangeOrderInvariant, PTL
===============================================================================
