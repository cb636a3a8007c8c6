---------------------------- MODULE DepartureFunnel ----------------------------
(***************************************************************************)
(* Admission, departure and mixer removal of client sessions:              *)
(*   core/sessions   the registry, its entries and Admit                   *)
(*   direct          the connection-handler factory, DepartNode, the       *)
(*                   dispatcher's key tracking, FreeSource, the first      *)
(*                   pass of the reconciler                                *)
(*   core/space      the change queue and the mixer tick that drains it    *)
(*   core/binaural   the decoder pool                                      *)
(*                                                                         *)
(* A connection c \in Conns is one attempt to join; if it is admitted it   *)
(* owns one registry entry, one generation, named by c itself.  Goroutines *)
(* are: one factory call and one transport owner per connection, one       *)
(* departure per entry (run by whoever wins the entry's CAS), the mixer,   *)
(* the dispatcher and the reconciler.  Steps between two acquisitions of   *)
(* the backend mutex, or between two channel operations, are one action.   *)
(*                                                                         *)
(* Left out: MOVE changes, audio, the uncached state topic (module Bouncer *)
(* has its channel) and the delivery of broadcasts to bouncers.            *)
(***************************************************************************)
EXTENDS Naturals, Sequences, FiniteSets

CONSTANTS Uuids,       \* node identities
          Conns,       \* connection attempts
          Orphans,     \* synthetic entries of the reconciler (module OrphanSweep)
          LegacyConns, \* connections without a LiveSession: Kill is a no-op
          UuidOf,      \* [Conns \cup Orphans -> Uuids]
          SentKeys,    \* connection-scoped keys BouncerClient records and sends
          CommandKeys, \* connection-scoped keys only commands write
          StrCap,      \* capacity of StringChIn
          QueueCap,    \* capacity of changesQueue
          MaxSources,  \* node cap of the space, and size of the decoder pool
          None

ASSUME EntriesAssumption ==
  /\ Conns \cap Orphans = {}
  /\ LegacyConns \subseteq Conns
  /\ UuidOf \in [Conns \cup Orphans -> Uuids]
  /\ None \notin Conns \cup Orphans \cup Uuids

ASSUME BoundsAssumption ==
  /\ SentKeys \cap CommandKeys = {}
  /\ StrCap \in Nat \ {0}
  /\ QueueCap \in Nat \ {0}
  /\ MaxSources \in Nat \ {0}

Entries == Conns \cup Orphans
Keys    == SentKeys \cup CommandKeys

VARIABLES
  registry,    \* [Uuids -> Entries \cup {None}]: Registry.entries
  entry,       \* [Entries -> EntryState]: Entry.state
  closed,      \* connections whose transport is down
  exited,      \* connections whose owner goroutine has finished
  admPc,       \* [Conns -> AdmPc]: where the factory call is
  admOld,      \* [Conns -> Entries \cup {None}]: the entry Admit waits for
  waited,      \* connections whose admission waited for a departure
  lock,        \* factory call holding the backend mutex, or None
  depPc,       \* [Entries -> DepPc]: where DepartNode(e) is
  claimH,      \* [Entries -> Conns \cup {None}]: handler DepartNode captured
  claimB,      \* [Entries -> Conns \cup {None}]: bouncer DepartNode captured
  sweep,       \* [Entries -> SUBSET Keys]: keys DepartNode has still to tombstone
  handlers,    \* [Uuids -> Conns \cup {None}]: HandlersByUuid
  bouncers,    \* [Uuids -> Conns \cup {None}]: BouncersByUuid
  open,        \* connections whose bouncer is not stopped
  sent,        \* connections whose BouncerClient holds sent keys
  tracked,     \* [Uuids -> [present: BOOLEAN, keys: SUBSET Keys]]: ConnKeysBySubject
  strIn,       \* StringChIn
  cache,       \* [Uuids -> [Keys -> CacheEntry]]: latest op per key
  queue,       \* BaseSpace.changesQueue
  nodes,       \* [Uuids -> Node \cup {None}]: BaseSpace.Nodes
  mixer,       \* what the mixer goroutine is doing
  pendingFree, \* [Uuids -> SUBSET Conns]
  decoder      \* [Conns -> DecoderState]

registryVars == <<registry, entry>>
admitVars    == <<admPc, admOld, waited, lock>>
departVars   == <<depPc, claimH, claimB, sweep>>
mapVars      == <<handlers, bouncers, tracked>>
clientVars   == <<open, sent>>
busVars      == <<strIn, cache>>
mixVars      == <<queue, nodes, mixer, pendingFree, decoder>>

vars == <<registryVars, closed, exited, admitVars, departVars, mapVars,
          clientVars, busVars, mixVars>>

EntryState   == {"none", "live", "departing", "departed"}
AdmPc        == {"idle", "waiting", "forced", "rewaiting", "recheck", "install",
                 "return", "done", "rejected"}
DepPc        == {"none", "sever", "collect", "announce", "delete", "release",
                 "unregister", "mark", "done"}
DecoderState == {"none", "leased", "starved", "freed"}
Message      == [kind : {"set", "tomb"}, keys : SUBSET Keys, by : Entries]
CacheEntry   == [kind : {"absent", "set", "tomb"}, by : Entries \cup {None}]
Change       == [op : {"ADD", "ENABLE_OUT", "DELETE"}, by : Entries]
Node         == [by : Entries, input : Conns \cup {None}, output : Conns \cup {None}]
Mixer        == [pc : {"idle", "departing", "taking"},
                 uuid : Uuids \cup {None}, waits : Entries \cup {None}]

MixerIdle == [pc |-> "idle", uuid |-> None, waits |-> None]

TypeOK ==
  /\ registry \in [Uuids -> Entries \cup {None}]
  /\ entry \in [Entries -> EntryState]
  /\ closed \subseteq Conns
  /\ exited \subseteq Conns
  /\ admPc \in [Conns -> AdmPc]
  /\ admOld \in [Conns -> Entries \cup {None}]
  /\ waited \subseteq Conns
  /\ lock \in Conns \cup {None}
  /\ depPc \in [Entries -> DepPc]
  /\ claimH \in [Entries -> Conns \cup {None}]
  /\ claimB \in [Entries -> Conns \cup {None}]
  /\ sweep \in [Entries -> SUBSET Keys]
  /\ handlers \in [Uuids -> Conns \cup {None}]
  /\ bouncers \in [Uuids -> Conns \cup {None}]
  /\ open \subseteq Conns
  /\ sent \subseteq Conns
  /\ tracked \in [Uuids -> [present : BOOLEAN, keys : SUBSET Keys]]
  /\ strIn \in Seq(Message)
  /\ cache \in [Uuids -> [Keys -> CacheEntry]]
  /\ queue \in Seq(Change)
  /\ nodes \in [Uuids -> Node \cup {None}]
  /\ mixer \in Mixer
  /\ pendingFree \in [Uuids -> SUBSET Conns]
  /\ decoder \in [Conns -> DecoderState]

Init ==
  /\ registry = [u \in Uuids |-> None]
  /\ entry = [e \in Entries |-> "none"]
  /\ closed = {}
  /\ exited = {}
  /\ admPc = [c \in Conns |-> "idle"]
  /\ admOld = [c \in Conns |-> None]
  /\ waited = {}
  /\ lock = None
  /\ depPc = [e \in Entries |-> "none"]
  /\ claimH = [e \in Entries |-> None]
  /\ claimB = [e \in Entries |-> None]
  /\ sweep = [e \in Entries |-> {}]
  /\ handlers = [u \in Uuids |-> None]
  /\ bouncers = [u \in Uuids |-> None]
  /\ open = {}
  /\ sent = {}
  /\ tracked = [u \in Uuids |-> [present |-> FALSE, keys |-> {}]]
  /\ strIn = <<>>
  /\ cache = [u \in Uuids |-> [k \in Keys |-> [kind |-> "absent", by |-> None]]]
  /\ queue = <<>>
  /\ nodes = [u \in Uuids |-> None]
  /\ mixer = MixerIdle
  /\ pendingFree = [u \in Uuids |-> {}]
  /\ decoder = [c \in Conns |-> "none"]

-------------------------------------------------------------------------------
(* Helpers.                                                                *)

\* LiveSession.Kill: single-fire, and without effect on sessions that were
\* admitted without a transport handle.
Killed(e) == closed \cup ({e} \cap (Conns \ LegacyConns))

\* Seeded bug: the transport never reports itself dead.
Alive_Always(e) == TRUE

\* LiveSession.Alive: legacy sessions and orphans always report true.
Alive(e) == e \notin (closed \ LegacyConns)

\* Seeded bug: only what the dispatcher has tracked is swept.
KeysToSweep_TrackedOnly(e) == tracked[UuidOf[e]].keys

\* Seeded bug: the bare uuid is swept as if it were a connection-scoped key.
KeysToSweep_BareUuid(e) == tracked[UuidOf[e]].keys \cup {UuidOf[e]}

\* The keys the departure of e has to tombstone: the subject's tracked keys
\* and those the captured BouncerClient sent.
KeysToSweep(e) ==
  tracked[UuidOf[e]].keys \cup (IF claimB[e] \in sent THEN SentKeys ELSE {})

NodeCount == Cardinality({u \in Uuids : nodes[u] # None})

Leased == {c \in Conns : decoder[c] = "leased"}

\* BinauralDecoderPool.GetDecoder: the first inactive decoder, nil if none.
GetDecoder == IF Cardinality(Leased) < MaxSources THEN "leased" ELSE "starved"

-------------------------------------------------------------------------------
(* DepartNode.  The CAS admits one caller per entry; every other caller    *)
(* returns at once, so BeginDeparture is guarded by the entry being live.  *)

\* TryBeginDeparture succeeds and phase 1 kills the transport.
BeginDeparture(e) ==
  /\ entry[e] = "live"
  /\ entry' = [entry EXCEPT ![e] = "departing"]
  /\ depPc' = [depPc EXCEPT ![e] = "sever"]
  /\ closed' = Killed(e)

\* Seeded bug: the bouncer is captured but not stopped before the announcement.
Sever_StillForwarding(e) ==
  /\ depPc[e] = "sever"
  /\ lock = None
  /\ claimH' = [claimH EXCEPT ![e] = handlers[UuidOf[e]]]
  /\ claimB' = [claimB EXCEPT ![e] = bouncers[UuidOf[e]]]
  /\ depPc' = [depPc EXCEPT ![e] = "collect"]
  /\ UNCHANGED <<registryVars, closed, exited, admitVars, sweep, mapVars, clientVars, busVars, mixVars>>

\* Phase 2: capture handler and bouncer under the mutex, then Quiesce the
\* client and Stop the bouncer.  A handler of another entry that has not
\* departed is left alone; the bouncer is taken whoever it belongs to.
Sever(e) ==
  LET u == UuidOf[e]
      h == handlers[u]
      mine == h = e \/ (h # None /\ entry[h] = "departed")
  IN
  /\ depPc[e] = "sever"
  /\ lock = None
  /\ claimH' = [claimH EXCEPT ![e] = IF mine THEN h ELSE None]
  /\ claimB' = [claimB EXCEPT ![e] = bouncers[u]]
  /\ open' = open \ {bouncers[u]}
  /\ depPc' = [depPc EXCEPT ![e] = "collect"]
  /\ UNCHANGED <<registryVars, closed, exited, admitVars, sweep, mapVars, sent, busVars, mixVars>>

\* Phase 3 starts: everything the subject's connection wrote, as far as the
\* maps know.  TakeSentKeys empties the client's record.
CollectKeys(e) ==
  /\ depPc[e] = "collect"
  /\ lock = None
  /\ sweep' = [sweep EXCEPT ![e] = KeysToSweep(e)]
  /\ sent' = sent \ {claimB[e]}
  /\ depPc' = [depPc EXCEPT ![e] = "announce"]
  /\ UNCHANGED <<registryVars, closed, exited, admitVars, claimH, claimB, mapVars, open,
                 busVars, mixVars>>

\* One batch of tombstones for the collected keys, behind everything already
\* enqueued; the send holds no lock and waits while StringChIn is full.
Announce(e) ==
  /\ depPc[e] = "announce"
  /\ IF sweep[e] = {}
     THEN UNCHANGED strIn
     ELSE /\ Len(strIn) < StrCap
          /\ strIn' = Append(strIn, [kind |-> "tomb", keys |-> sweep[e], by |-> e])
  /\ sweep' = [sweep EXCEPT ![e] = {}]
  /\ depPc' = [depPc EXCEPT ![e] = "delete"]
  /\ UNCHANGED <<registryVars, closed, exited, admitVars, claimH, claimB, mapVars,
                 clientVars, cache, mixVars>>

\* Seeded bug: a node the mixer has not added yet is not deleted.
EnqueueDelete_IfPresent(e) ==
  /\ depPc[e] = "delete"
  /\ queue' = IF nodes[UuidOf[e]] = None
              THEN queue
              ELSE Append(queue, [op |-> "DELETE", by |-> e])
  /\ depPc' = [depPc EXCEPT ![e] = "release"]
  /\ UNCHANGED <<registryVars, closed, exited, admitVars, claimH, claimB, sweep, mapVars,
                 clientVars, busVars, nodes, mixer, pendingFree, decoder>>

\* Phase 4: ISpace.DeleteNode.
EnqueueDelete(e) ==
  /\ depPc[e] = "delete"
  /\ Len(queue) < QueueCap
  /\ queue' = Append(queue, [op |-> "DELETE", by |-> e])
  /\ depPc' = [depPc EXCEPT ![e] = "release"]
  /\ UNCHANGED <<registryVars, closed, exited, admitVars, claimH, claimB, sweep, mapVars,
                 clientVars, busVars, nodes, mixer, pendingFree, decoder>>

\* Seeded bug: the handler leaves the map without a handover to the mixer.
Release_NoHandover(e) ==
  LET u == UuidOf[e] IN
  /\ depPc[e] = "release"
  /\ lock = None
  /\ handlers' = [handlers EXCEPT ![u] = IF @ = claimH[e] THEN None ELSE @]
  /\ bouncers' = [bouncers EXCEPT ![u] = IF @ = claimB[e] THEN None ELSE @]
  /\ tracked' = [tracked EXCEPT ![u] = [present |-> FALSE, keys |-> {}]]
  /\ depPc' = [depPc EXCEPT ![e] = "unregister"]
  /\ UNCHANGED <<registryVars, closed, exited, admitVars, claimH, claimB, sweep, clientVars,
                 busVars, mixVars>>

\* Seeded bug: the departing goroutine frees the encoder itself.
Release_FreesEncoder(e) ==
  LET u == UuidOf[e] IN
  /\ depPc[e] = "release"
  /\ lock = None
  /\ handlers' = [handlers EXCEPT ![u] = IF @ = claimH[e] THEN None ELSE @]
  /\ decoder' = [c \in Conns |-> IF c = claimH[e] THEN "freed" ELSE decoder[c]]
  /\ bouncers' = [bouncers EXCEPT ![u] = IF @ = claimB[e] THEN None ELSE @]
  /\ tracked' = [tracked EXCEPT ![u] = [present |-> FALSE, keys |-> {}]]
  /\ depPc' = [depPc EXCEPT ![e] = "unregister"]
  /\ UNCHANGED <<registryVars, closed, exited, admitVars, claimH, claimB, sweep, clientVars,
                 busVars, queue, nodes, mixer, pendingFree>>

\* Seeded bug: the bouncer stays in the map.
Release_KeepsBouncer(e) ==
  LET u == UuidOf[e] IN
  /\ depPc[e] = "release"
  /\ lock = None
  /\ handlers' = [handlers EXCEPT ![u] = IF @ = claimH[e] THEN None ELSE @]
  /\ pendingFree' = [pendingFree EXCEPT ![u] = @ \cup ({claimH[e]} \ {None})]
  /\ tracked' = [tracked EXCEPT ![u] = [present |-> FALSE, keys |-> {}]]
  /\ depPc' = [depPc EXCEPT ![e] = "unregister"]
  /\ UNCHANGED <<registryVars, closed, exited, admitVars, claimH, claimB, sweep, bouncers,
                 clientVars, busVars, queue, nodes, mixer, decoder>>

\* Phase 5: drop the map entries that are still the captured ones, hand the
\* handler to the mixer goroutine, forget the subject's tracked keys.
Release(e) ==
  LET u == UuidOf[e]
      hit == claimH[e] # None /\ handlers[u] = claimH[e]
  IN
  /\ depPc[e] = "release"
  /\ lock = None
  /\ handlers' = [handlers EXCEPT ![u] = IF hit THEN None ELSE @]
  /\ pendingFree' = [pendingFree EXCEPT ![u] = IF hit THEN @ \cup {claimH[e]} ELSE @]
  /\ bouncers' = [bouncers EXCEPT ![u] = IF @ = claimB[e] THEN None ELSE @]
  /\ tracked' = [tracked EXCEPT ![u] = [present |-> FALSE, keys |-> {}]]
  /\ depPc' = [depPc EXCEPT ![e] = "unregister"]
  /\ UNCHANGED <<registryVars, closed, exited, admitVars, claimH, claimB, sweep, clientVars,
                 busVars, queue, nodes, mixer, decoder>>

\* Registry.Unregister: only if the entry is still the current one.
Unregister(e) ==
  /\ depPc[e] = "unregister"
  /\ registry' = [registry EXCEPT ![UuidOf[e]] = IF @ = e THEN None ELSE @]
  /\ depPc' = [depPc EXCEPT ![e] = "mark"]
  /\ UNCHANGED <<entry, closed, exited, admitVars, claimH, claimB, sweep, mapVars, clientVars,
                 busVars, mixVars>>

\* Entry.MarkDeparted: releases everyone waiting on Departed().
MarkDeparted(e) ==
  /\ depPc[e] = "mark"
  /\ entry' = [entry EXCEPT ![e] = "departed"]
  /\ depPc' = [depPc EXCEPT ![e] = "done"]
  /\ UNCHANGED <<registry, closed, exited, admitVars, claimH, claimB, sweep, mapVars, clientVars,
                 busVars, mixVars>>

DepartStep(e) ==
  \/ Sever(e)
  \/ CollectKeys(e)
  \/ Announce(e)
  \/ EnqueueDelete(e)
  \/ Release(e)
  \/ Unregister(e)
  \/ MarkDeparted(e)

-------------------------------------------------------------------------------
(* Admission: Registry.Admit, then the factory under the backend mutex.    *)

\* Admit looks the identity up; a live entry is evicted by a Kill.
AdmitFree(c) ==
  /\ admPc[c] = "idle"
  /\ registry[UuidOf[c]] = None
  /\ admPc' = [admPc EXCEPT ![c] = "recheck"]
  /\ UNCHANGED <<registryVars, closed, exited, admOld, waited, lock, departVars, mapVars,
                 clientVars, busVars, mixVars>>

AdmitOccupied(c) ==
  LET old == registry[UuidOf[c]] IN
  /\ admPc[c] = "idle"
  /\ old # None
  /\ admOld' = [admOld EXCEPT ![c] = old]
  /\ admPc' = [admPc EXCEPT ![c] = "waiting"]
  /\ closed' = IF entry[old] = "live" THEN Killed(old) ELSE closed
  /\ UNCHANGED <<registryVars, exited, waited, lock, departVars, mapVars, clientVars,
                 busVars, mixVars>>

\* The old session's departure completed within the wait.
AdmitDeparted(c) ==
  /\ admPc[c] \in {"waiting", "forced", "rewaiting"}
  /\ entry[admOld[c]] = "departed"
  /\ admPc' = [admPc EXCEPT ![c] = "recheck"]
  /\ waited' = waited \cup {c}
  /\ UNCHANGED <<registryVars, closed, exited, admOld, lock, departVars, mapVars, clientVars,
                 busVars, mixVars>>

\* Seeded bug: only a session that reports itself dead is forced out.
AdmitForce_DeadOnly(c) ==
  /\ admPc[c] = "waiting"
  /\ ~Alive(admOld[c])
  /\ BeginDeparture(admOld[c])
  /\ admPc' = [admPc EXCEPT ![c] = "forced"]
  /\ UNCHANGED <<registry, exited, admOld, waited, lock, claimH, claimB, sweep, mapVars, clientVars,
                 busVars, mixVars>>

\* The wait timed out: forceDepart runs the departure on this goroutine, or
\* returns at once when the CAS is lost.
AdmitForce(c) ==
  /\ admPc[c] = "waiting"
  /\ BeginDeparture(admOld[c])
  /\ admPc' = [admPc EXCEPT ![c] = "forced"]
  /\ UNCHANGED <<registry, exited, admOld, waited, lock, claimH, claimB, sweep, mapVars, clientVars,
                 busVars, mixVars>>

AdmitRewait(c) ==
  /\ admPc[c] = "waiting"
  /\ entry[admOld[c]] # "live"
  /\ admPc' = [admPc EXCEPT ![c] = "rewaiting"]
  /\ UNCHANGED <<registryVars, closed, exited, admOld, waited, lock, departVars, mapVars,
                 clientVars, busVars, mixVars>>

\* The second wait timed out as well: the old session is wedged.
AdmitWedged(c) ==
  /\ admPc[c] = "rewaiting"
  /\ admPc' = [admPc EXCEPT ![c] = "rejected"]
  /\ UNCHANGED <<registryVars, closed, exited, admOld, waited, lock, departVars, mapVars,
                 clientVars, busVars, mixVars>>

\* Seeded bug: the registry is not looked at again under the mutex.
Refused_NoRecheck(c) ==
  \/ c \notin waited /\ nodes[UuidOf[c]] # None
  \/ NodeCount >= MaxSources

\* Under the mutex the factory re-checks the registry, looks for a node
\* without an entry (unless a departure was waited for) and the node cap.
Refused(c) ==
  LET u == UuidOf[c] IN
  \/ registry[u] # None /\ entry[registry[u]] # "departed"
  \/ c \notin waited /\ nodes[u] # None
  \/ NodeCount >= MaxSources

FactoryRefuse(c) ==
  /\ admPc[c] = "recheck"
  /\ lock = None
  /\ Refused(c)
  /\ admPc' = [admPc EXCEPT ![c] = "rejected"]
  /\ UNCHANGED <<registryVars, closed, exited, admOld, waited, lock, departVars, mapVars,
                 clientVars, busVars, mixVars>>

FactoryRecheck(c) ==
  /\ admPc[c] = "recheck"
  /\ lock = None
  /\ ~Refused(c)
  /\ lock' = c
  /\ admPc' = [admPc EXCEPT ![c] = "install"]
  /\ UNCHANGED <<registryVars, closed, exited, admOld, waited, departVars, mapVars,
                 clientVars, busVars, mixVars>>

\* Still under the mutex: claim a decoder, start the bouncer and its client,
\* Register (displacing whatever is there), fill the maps, enqueue the node.
\* The two sends are one step: nothing reads the queue but the mixer.
FactoryInstall(c) ==
  LET u == UuidOf[c] IN
  /\ admPc[c] = "install"
  /\ Len(queue) + 2 <= QueueCap
  /\ decoder' = [decoder EXCEPT ![c] = GetDecoder]
  /\ open' = open \cup {c}
  /\ registry' = [registry EXCEPT ![u] = c]
  /\ entry' = [entry EXCEPT ![c] = "live"]
  /\ handlers' = [handlers EXCEPT ![u] = c]
  /\ bouncers' = [bouncers EXCEPT ![u] = c]
  /\ queue' = queue \o <<[op |-> "ADD", by |-> c], [op |-> "ENABLE_OUT", by |-> c]>>
  /\ lock' = None
  /\ admPc' = [admPc EXCEPT ![c] = "return"]
  /\ UNCHANGED <<closed, exited, admOld, waited, departVars, tracked, sent, busVars, nodes,
                 mixer, pendingFree>>

\* The transport has the handler; from here its owner can Stop it.
HandlerReturned(c) ==
  /\ admPc[c] = "return"
  /\ admPc' = [admPc EXCEPT ![c] = "done"]
  /\ UNCHANGED <<registryVars, closed, exited, admOld, waited, lock, departVars, mapVars,
                 clientVars, busVars, mixVars>>

-------------------------------------------------------------------------------
(* Transports, clients, reconciler.                                        *)

\* The client goes away, or a kick or a failed peer connection kills it.
TransportCloses(c) ==
  /\ c \notin closed
  /\ admPc[c] \notin {"idle", "rejected"}
  /\ closed' = closed \cup {c}
  /\ UNCHANGED <<registryVars, exited, admitVars, departVars, mapVars, clientVars, busVars,
                 mixVars>>

\* The owner goroutine sees the transport closed and calls handler.Stop.
OwnerStops(c) ==
  /\ c \in closed \ exited
  /\ admPc[c] = "done"
  /\ exited' = exited \cup {c}
  /\ IF entry[c] = "live"
     THEN BeginDeparture(c)
     ELSE UNCHANGED <<entry, depPc, closed>>
  /\ UNCHANGED <<registry, admitVars, claimH, claimB, sweep, mapVars, clientVars, busVars, mixVars>>

\* A MoqSession whose transport closes before the factory has returned: its
\* Close finds no connectionHandler, and nothing will stop the handler later.
OwnerFindsNoHandler(c) ==
  /\ c \in closed \ (exited \cup LegacyConns)
  /\ admPc[c] # "done"
  /\ exited' = exited \cup {c}
  /\ UNCHANGED <<registryVars, closed, admitVars, departVars, mapVars, clientVars, busVars,
                 mixVars>>

\* Reconciler, first pass: a registered session whose transport is dead.
ReconcileDead(c) ==
  /\ registry[UuidOf[c]] = c
  /\ ~Alive(c)
  /\ BeginDeparture(c)
  /\ UNCHANGED <<registry, exited, admitVars, claimH, claimB, sweep, mapVars, clientVars, busVars,
                 mixVars>>

\* BouncerClient.sendInfo publishes the session's own keys; the send is
\* dropped once the bouncer is stopped and blocks while the channel is full.
\* SentKeys = {} leaves the traffic out of an instance.
Publish(c) ==
  /\ SentKeys # {}
  /\ c \in open
  /\ Len(strIn) < StrCap
  /\ sent' = sent \cup {c}
  /\ strIn' = Append(strIn, [kind |-> "set", keys |-> SentKeys, by |-> c])
  /\ UNCHANGED <<registryVars, closed, exited, admitVars, departVars, mapVars, open, cache,
                 mixVars>>

\* HandleCommand writes a personal key of the issuer; BouncerClient does not
\* record it, only the dispatcher will.
Command(c, k) ==
  /\ c \in open
  /\ Len(strIn) < StrCap
  /\ strIn' = Append(strIn, [kind |-> "set", keys |-> {k}, by |-> c])
  /\ UNCHANGED <<registryVars, closed, exited, admitVars, departVars, mapVars, clientVars,
                 cache, mixVars>>

-------------------------------------------------------------------------------
(* Dispatcher: cache the op, then track or untrack its keys by subject.    *)

Track(t, msg) ==
  IF msg.kind = "set"
  THEN [present |-> TRUE, keys |-> t.keys \cup msg.keys]
  ELSE [present |-> t.present, keys |-> t.keys \ msg.keys]

Dispatch ==
  LET msg == Head(strIn)
      u == UuidOf[msg.by]
  IN
  /\ strIn # <<>>
  /\ lock = None
  /\ strIn' = Tail(strIn)
  /\ cache' = [cache EXCEPT ![u] = [k \in Keys |->
                 IF k \in msg.keys THEN [kind |-> msg.kind, by |-> msg.by] ELSE @[k]]]
  /\ tracked' = [tracked EXCEPT ![u] = Track(@, msg)]
  /\ UNCHANGED <<registryVars, closed, exited, admitVars, departVars, handlers, bouncers,
                 clientVars, mixVars>>

-------------------------------------------------------------------------------
(* Mixer goroutine: drain the change queue.                                *)

\* doAddNode: a duplicate is refused, otherwise NewNode looks the input up.
MixerAdd ==
  LET c == Head(queue).by
      u == UuidOf[c]
  IN
  /\ mixer.pc = "idle"
  /\ queue # <<>>
  /\ Head(queue).op = "ADD"
  /\ queue' = Tail(queue)
  /\ nodes' = IF nodes[u] = None
              THEN [nodes EXCEPT ![u] = [by |-> c, input |-> handlers[u], output |-> None]]
              ELSE nodes
  /\ UNCHANGED <<registryVars, closed, exited, admitVars, departVars, mapVars, clientVars,
                 busVars, mixer, pendingFree, decoder>>

\* doEnableOutputNode: the node, whoever added it, takes the mapped output.
MixerEnableOut ==
  LET u == UuidOf[Head(queue).by] IN
  /\ mixer.pc = "idle"
  /\ queue # <<>>
  /\ Head(queue).op = "ENABLE_OUT"
  /\ queue' = Tail(queue)
  /\ nodes' = IF nodes[u] = None
              THEN nodes
              ELSE [nodes EXCEPT ![u].output = handlers[u]]
  /\ UNCHANGED <<registryVars, closed, exited, admitVars, departVars, mapVars, clientVars,
                 busVars, mixer, pendingFree, decoder>>

\* The entry FreeSource looks up for a removed node: the uuid's current one.
Backstop(u) == registry[u]

\* doRemoveNode of a known node reaches FreeSource, whose backstop departs
\* whatever entry the uuid has now, on the mixer goroutine; an unknown node is
\* ignored.
MixerDelete ==
  LET u == UuidOf[Head(queue).by]
      e == Backstop(u)
      known == nodes[u] # None
      departs == known /\ e # None /\ entry[e] = "live"
  IN
  /\ mixer.pc = "idle"
  /\ queue # <<>>
  /\ Head(queue).op = "DELETE"
  /\ queue' = Tail(queue)
  /\ IF departs THEN BeginDeparture(e) ELSE UNCHANGED <<entry, depPc, closed>>
  /\ mixer' = IF ~known
              THEN mixer
              ELSE IF departs
              THEN [pc |-> "departing", uuid |-> u, waits |-> e]
              ELSE [pc |-> "taking", uuid |-> u, waits |-> None]
  /\ UNCHANGED <<registry, exited, admitVars, claimH, claimB, sweep, mapVars, clientVars, busVars,
                 nodes, pendingFree, decoder>>

MixerDeparted ==
  /\ mixer.pc = "departing"
  /\ depPc[mixer.waits] = "done"
  /\ mixer' = [mixer EXCEPT !.pc = "taking", !.waits = None]
  /\ UNCHANGED <<registryVars, closed, exited, admitVars, departVars, mapVars, clientVars,
                 busVars, queue, nodes, pendingFree, decoder>>

\* FreeSource takes the pending handlers under the mutex, frees their encoders
\* (releasing the decoders) and doRemoveNode drops the node.
MixerFree ==
  LET u == mixer.uuid IN
  /\ mixer.pc = "taking"
  /\ lock = None
  /\ decoder' = [c \in Conns |-> IF c \in pendingFree[u] THEN "freed" ELSE decoder[c]]
  /\ pendingFree' = [pendingFree EXCEPT ![u] = {}]
  /\ nodes' = [nodes EXCEPT ![u] = None]
  /\ mixer' = MixerIdle
  /\ UNCHANGED <<registryVars, closed, exited, admitVars, departVars, mapVars, clientVars,
                 busVars, queue>>

MixerStep ==
  \/ MixerAdd
  \/ MixerEnableOut
  \/ MixerDelete
  \/ MixerDeparted
  \/ MixerFree

-------------------------------------------------------------------------------
AdmitStep(c) ==
  \/ AdmitFree(c)
  \/ AdmitOccupied(c)
  \/ AdmitDeparted(c)
  \/ AdmitForce(c)
  \/ AdmitRewait(c)
  \/ AdmitWedged(c)
  \/ FactoryRefuse(c)
  \/ FactoryRecheck(c)
  \/ FactoryInstall(c)
  \/ HandlerReturned(c)

ClientStep(c) ==
  \/ TransportCloses(c)
  \/ OwnerStops(c)
  \/ OwnerFindsNoHandler(c)
  \/ ReconcileDead(c)
  \/ Publish(c)
  \/ \E k \in CommandKeys : Command(c, k)

Next ==
  \/ \E c \in Conns : AdmitStep(c) \/ ClientStep(c)
  \/ \E e \in Entries : DepartStep(e)
  \/ MixerStep
  \/ Dispatch

Spec == Init /\ [][Next]_vars

\* Every goroutine that has been started keeps running; a send that waits for
\* room on StringChIn is queued behind the senders before it, so it is strongly
\* fair; clients owe nothing, and a factory call that was never made neither.
Fairness ==
  /\ \A e \in Entries : WF_vars(DepartStep(e)) /\ SF_vars(Announce(e))
  /\ \A c \in Conns :
       /\ WF_vars(admPc[c] # "idle" /\ AdmitStep(c))
       /\ WF_vars(OwnerStops(c))
       /\ WF_vars(ReconcileDead(c))
  /\ WF_vars(MixerStep)
  /\ WF_vars(Dispatch)

FairSpec == Spec /\ Fairness

-------------------------------------------------------------------------------
(* Properties.                                                             *)

\* A session occupies its identity from Register until Release.
Occupies(c) ==
  /\ entry[c] \in {"live", "departing"}
  /\ depPc[c] \in {"none", "sever", "collect", "announce", "delete", "release"}

\* Two sessions of one identity never overlap: a newcomer is registered only
\* after its predecessor announced, queued its DELETE and released its maps
\* (the admission wait of NewConnectionHandlerWithError).
OneSessionPerIdentity ==
  \A c, d \in Conns :
    Occupies(c) /\ Occupies(d) /\ UuidOf[c] = UuidOf[d] => c = d

\* The handler and bouncer maps hold only the registered, undeparted session
\* of the uuid, never a predecessor's leftovers.
MapsFollowRegistry ==
  \A u \in Uuids :
    /\ handlers[u] # None => registry[u] = handlers[u] /\ Occupies(handlers[u])
    /\ bouncers[u] # None => registry[u] = bouncers[u] /\ Occupies(bouncers[u])

SameSubject(e, f) == UuidOf[e] = UuidOf[f]

\* On StringChIn an entry's tombstones are its last message, the resurrection
\* defense of Bouncer.Stop and DepartNode phase 3: no write of a departed
\* session is queued behind, or dispatched after, its tombstones.
TombstonesLast ==
  /\ \A i, j \in DOMAIN strIn :
       i < j /\ strIn[i].kind = "tomb" => strIn[j].by # strIn[i].by
  /\ \A u \in Uuids, k \in Keys, j \in DOMAIN strIn :
       cache[u][k].kind = "tomb" => strIn[j].by # cache[u][k].by

\* Fresh writes cannot be shadowed by an old session's tombstones: on the
\* channel the messages about one subject form one block per session, and a
\* published key is tombstoned before the next session's block begins.
EpochsInOrder ==
  /\ \A i, j, k \in DOMAIN strIn :
       i < j /\ j < k /\ SameSubject(strIn[i].by, strIn[j].by) /\ strIn[i].by = strIn[k].by
         => strIn[j].by = strIn[i].by
  /\ \A i, j \in DOMAIN strIn :
       /\ i < j
       /\ strIn[i].kind = "set" /\ strIn[i].keys = SentKeys
       /\ SameSubject(strIn[i].by, strIn[j].by) /\ strIn[j].by # strIn[i].by
       => \E k \in i..j : strIn[k].kind = "tomb" /\ strIn[k].by = strIn[i].by

\* A successor's ADD reaches the mixer only when the predecessor's DELETE has
\* been processed, so doAddNode never drops it as a duplicate.
AddFindsFreeUuid ==
  queue # <<>> /\ Head(queue).op = "ADD" /\ mixer.pc = "idle"
    => nodes[UuidOf[Head(queue).by]] = None

\* The mixer never renders through a handler whose encoder was freed.
NoFreeWhileMixed ==
  \A u \in Uuids : nodes[u] # None =>
    \A h \in {nodes[u].input, nodes[u].output} \ {None} : decoder[h] # "freed"

\* Every leased decoder is reachable: its handler is in the map or waits in
\* pendingFree for the mixer goroutine.
DecoderLedger ==
  \A c \in Conns : decoder[c] = "leased" =>
    handlers[UuidOf[c]] = c \/ c \in pendingFree[UuidOf[c]]

\* backend.go, pendingFree: departed handlers wait there "between DepartNode and
\* FreeSource (mixer goroutine, after the NODE_CHANGE_DELETE is processed)".
\* So the decoder of a departed session returns to the pool.
EncoderFreed ==
  \A c \in Conns : (entry[c] = "departed") ~> decoder[c] # "leased"

\* binaural_pool.go: running out of decoders "cannot happen while the space
\* caps outputs at the pool size".
PoolNeverStarved == \A c \in Conns : decoder[c] # "starved"

\* depart.go: "a stale call for an old session provably cannot touch a
\* successor".  A live session starts to depart only when its own transport
\* is down or a newcomer of its identity is waiting for it.
SuccessorSpared ==
  [][\A c \in Conns :
       entry[c] = "live" /\ entry'[c] = "departing" =>
         c \in closed \/ \E d \in Conns : admOld[d] = c /\ admPc[d] = "waiting"]_vars

\* A session whose transport is down departs, even if its owner goroutine was
\* gone before the handler existed.
DeadSessionsDepart ==
  \A c \in Conns : (c \in closed /\ entry[c] = "live") ~> entry[c] = "departed"

\* Nobody waits on everybody: an admission that waits for a departure ends in
\* a handler or in a refusal.
AdmissionDecides ==
  \A c \in Conns : (admPc[c] = "waiting") ~> (admPc[c] \in {"done", "rejected"})

\* The mixer node and the published keys of a departed session go away.
DepartedIsForgotten ==
  \A c \in Conns : (entry[c] = "departed") ~>
    /\ nodes[UuidOf[c]] # None => nodes[UuidOf[c]].by # c
    /\ \A k \in SentKeys : cache[UuidOf[c]][k] # [kind |-> "set", by |-> c]

\* The abstract lifecycle this module implements, and the state it sees.
Occupant == [u \in Uuids |->
  IF registry[u] # None /\ Occupies(registry[u]) THEN registry[u] ELSE None]

Phase == [c \in Conns |->
  IF entry[c] = "none" THEN "before" ELSE IF Occupies(c) THEN "present" ELSE "gone"]

Lifecycle == INSTANCE SessionLifecycle WITH occupant <- Occupant, phase <- Phase

\* Every step is a Join, a Leave or invisible to SessionLifecycle.
ImplementsLifecycle == Lifecycle!LifecycleSpec
===============================================================================
