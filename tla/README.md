# Panaudia: verification project

TLA+ models of the session core of the Panaudia spatial-audio server, checked
with TLC, and theorems about them proved with TLAPS.  Paths below are paths of
the repository; `PROJECT.json` maps every definition to the lines it models.

## 1. The system

A client connects over MOQ, WebRTC or a ROC link, is admitted under the uuid of
its ticket, becomes a node of the space, sends audio and state, receives a
binaural mix and everybody's state, and departs.  The server is one process with
many goroutines and five kinds of shared state: the session registry, the maps
of `DirectBackend` under one mutex, bounded channels, the lock-free state cache,
and the mixer's private node table fed through a change queue and a tee of
policy ops.  Audio itself crosses goroutines in one lock-free buffer per node.

| Component | State | Operations | Hard behaviour | What makes it correct |
|---|---|---|---|---|
| Session registry, `core/sessions` | one current entry per uuid; entry Live, Departing, Departed | Register, RegisterOrphan, Admit, TryBeginDeparture, MarkDeparted, Unregister | timed waits, racing admissions, displaced entries | one session per identity; every wait ends |
| Handler factory, `direct/backend.go` | `HandlersByUuid`, `BouncersByUuid`, `ConnKeysBySubject`, `pendingFree` | NewConnectionHandlerWithError, FreeSource | lock held over queue sends; checks against state the mixer owns | maps hold only the registered session; caps hold |
| Departure funnel, `direct/depart.go` | what DepartNode captured and collected | sever, announce, delete, release, unregister | five callers, one CAS; every phase interleaves with the mixer and the dispatcher | tombstones last; node, maps, encoder and keys go away |
| Reconciler, `direct/reconciler.go` | uuids seen without an entry | two departing passes | reads three places at three moments | residue disappears; live sessions are left alone |
| Bouncer, `direct/bouncer.go` | two pairs of channels, `quit`, `stopped`, `sendMu` | SendString, DeliverString, Stop | Stop against parked senders and deliveries; Stop on its own goroutine | Stop is a barrier in both directions and returns |
| Dispatcher, `direct/backend.go` | cache, tracked keys | handleStringMessage | runs under the backend mutex, blocks on subscribers; three consumers after the cache | cache order is channel order |
| Space, `core/space/base_space.go` | change queue, nodes | ADD, MOVE, ENABLE, DELETE, tick | the mixer lags behind the registry | no ADD is dropped; nothing freed is rendered |
| Decoder pool, `core/binaural` | active flags | GetDecoder, Release | sized to a cap that is checked late | no leak, never empty |
| State cache, `core/statecache` | ring of segments, snapshot, op ids | writeOp, readOps, Compact, Since | lock-free writers beside compaction | no op lost, last writer wins |
| Commands, `core/commands` | none | Dispatch | who may write which key | nobody moderates without a role |
| Policy in the mix, `core/space/base_space_ops.go`, `core/ambisonic/encoder.go` | the tee, role rules, per-encoder policy | enqueueOp, processOpChanges, mutators, EncodePeers | ops before their node, derived values, map order | mixer state is cache state; the muted are unheard |
| Kick gate, `core/space/kick_gate.go` | deadlines per uuid and role | Apply, IsKicked, sweepOnce, StopSweeper | expiry racing a new kick; authorised before, registered after a kick | a kick in force stays in force; shutdown returns |
| Data writers and backfill | pending buffers, visibility map | BackfillBouncer, SendString, attach | snapshot against live traffic, buffers drained outside locks | a client's view is the cache |
| MOQ session and server, `core/moq` | sessions by address; manager, readers, output adapters | HandleSubscribe, SetNodeConfig, WriteSample, Close, Stop | set-up inside the message loop, close during set-up, writes racing SUBSCRIBE | input is forwarded, output is not stranded, closed sessions depart |
| Jitter buffer, `core/buffers` | ring, two positions, two allowances | Write, Read, fillFrames | a writer that never looks at its reader | intact audio; snaps do not repeat |
| ROC link, worker, signal processing, codecs, tickets | | | C libraries, floating point, I/O | not modelled |

Who calls whom: the transport calls the factory; the factory calls Admit, then
registers, fills the maps and enqueues the node; the owner goroutine, the mixer,
the reconciler, a timed-out admission or a kick calls DepartNode; DepartNode
stops the bouncer, enqueues tombstones for the dispatcher and a DELETE for the
mixer; the mixer calls back FreeSource, which calls DepartNode again as a
backstop and frees encoders.  A client's publications and commands become cache
ops; the dispatcher stores each, tees it to the mixer and to the kick gate and
broadcasts it to every bouncer, behind which a data writer filters it for one
client.  `PROJECT.json` lists the hazards of these paths, each at its line.

## 2. Modules

| Module | Models | Role |
|---|---|---|
| `SessionLifecycle` | Register and the release phase, seen from outside | abstract specification: an identity has at most one occupant, a session joins once and leaves once |
| `DepartureFunnel` | registry, admission, factory, DepartNode, dispatcher tracking, change queue, FreeSource, decoder pool, first reconciler pass | the core |
| `OrphanSweep` | second reconciler pass | extends `DepartureFunnel` |
| `Bouncer` | one bouncer, its senders, both dispatch goroutines, concurrent departures | justifies the one-step `Sever` of the core |
| `StateStore` | the ring of segments of the state cache with its writer, its compaction and a reader | stands alone; the other modules see the cache as one step per op |
| `Commands` | the command catalogue, permissions, argument checks, scope of keys | pure operators |
| `SpacePolicy` | dispatcher, tee, mixer tick, encoders | extends `Commands`: from a command to what is heard |
| `Moderation` | kick gate, sweeper, authoriser, kick inspection, backfill with resume, shutdown of the sweeper | the two halves of a kick |
| `ClientView` | publication, bouncer, pre-attach buffer, backfill, data writer, unopened channels | what one client is told of the others |
| `MoqSession` | owner goroutine, message loop, subscription manager, readers, server map and Stop | the MOQ side of a session |
| `JitterBuffer` | the jitter buffer with writer, reader and an observer | stands alone |
| `MC...` | | instances for TLC |
| `DepartureFunnel_proofs` | | theorems: types, ownership of an identity, that the funnel implements `SessionLifecycle`, the two queues, encoders |
| `StateStore_proofs`, `Bouncer_proofs`, `MoqSession_proofs`, `Moderation_proofs`, `SpacePolicy_proofs`, `ClientView_proofs`, `JitterBuffer_proofs` | | theorems about these modules |

Definitions named `X_Y` with the comment "Seeded bug" are variants of `X` that
no specification uses; each shows that a property notices the change.

### How `DepartureFunnel` corresponds to the code

A connection `c` is one attempt to join; if admitted, its registry entry is
called `c` too, so an entry *is* a generation.  A step is what a goroutine does
between two acquisitions of the backend mutex or two channel operations.

- `AdmitFree` ... `AdmitWedged` are `Registry.Admit` with its two waits; a
  timeout may fire at any moment.
- `FactoryRefuse`, `FactoryRecheck` and `FactoryInstall` are the locked part of
  `NewConnectionHandlerWithError`.  `lock` names the call that is between the
  checks and the writes; every other step that takes the mutex waits for it.
  The two are separate steps because the registry has a mutex of its own.
- `Sever`, `CollectKeys`, `Announce`, `EnqueueDelete`, `Release`, `Unregister`,
  `MarkDeparted` are the phases of `DepartNode`.  `claimH` and `claimB` are what
  phase 2 captured, `sweep` what phase 3 read under the mutex and has still to
  send.
- `MixerAdd`, `MixerEnableOut`, `MixerDelete`, `MixerDeparted`, `MixerFree`
  are `processChanges` and `FreeSource`.  When the backstop wins a CAS the mixer
  goroutine runs that departure: `mixer.waits` names it, and the mixer does
  nothing else until it is done.
- `Dispatch` is `handleStringMessage`: cache, then track or untrack.
- `OwnerStops`, `OwnerFindsNoHandler` are the ends of a MOQ session, with and
  without a handler; a connection in `LegacyConns` is one without a
  `LiveSession`, as `unified/webrtc.go` creates: it reports itself alive and
  Kill has no effect.

Abstractions.  Keys are `SentKeys` (those BouncerClient records) and
`CommandKeys` (written by commands, seen only by the dispatcher).  One tombstone
batch stands for the per-topic batches: they are consecutive sends, and another
writer between two of them writes keys of its own.  Recording and sending of a
key are one step: the record comes first, so a dropped send only adds a
tombstone.  The cache is the latest op per key in channel order.  Every node has
an input.  Left out: MOVE, the `state` topic (same channels, not cached),
policy-scoped keys, codecs, audio.

### `OrphanSweep`, `Bouncer` and `StateStore`

`OrphanSweep` adds the reconciler goroutine: `ScanMaps` under the mutex,
`ScanCache` after it, then one judgement per uuid, so that sessions come and go
between the three.  The minimum age is "seen in an earlier pass", which covers
every longer age.  A synthetic entry is used again once nothing refers to it.

`Bouncer` splits what the core takes as one step: the read lock of `sendMu`
around the stopped check and the select, the once, `close(quit)`, the write lock,
the join.  A kick of a session without transport handle runs on the relay
goroutine (`RelayStops`).  A client may stall and recover at any time.

In `StateStore` a step is one claim, one slot access or one publication.
`Claim`, `Fill` and `Advance` are `writeOp`; `ScanSegment` and `ScanSlot` the
loops `Compact` and `readOps` share; `unmerged` and `lapped` record the two ways
in which the code loses an op, so that `ReadsAreComplete` says there is no third.
The run reaches the first reuse of a segment, with a slot of it claimed.

### `Commands` and `SpacePolicy`

A key is a record of topic, uuid, field and argument; a command is the triple of
the parts of its name.  `Dispatchable` and `OpOf` are `Dispatch` and the
builders of the catalogue.  In `SpacePolicy` a message is dispatched in the step
that sends it (the channel in between is the subject of `DepartureFunnel` and
`Bouncer`), and a departure is two steps, the tombstones (`AnnounceDeparture`)
and then the DELETE with the release of the maps (`Depart`), between which the
mixer runs.  What is interleaved besides is the tee, `processOpChanges`, which applies a
swapped-out map in any order (`ApplyEntityOp`, `ApplySpaceOp`), and the queue of
node changes, which is drained after it.  An encoder is a record with its own
policy and the values `RefreshEncoderRoleEffects` derives; a signal is the set
of peers it was mixed from, dry and in the reverb send.  `missed` records the
keys last drained while their node was not in the mix.

### `Moderation`

The dispatcher's handling of one op is three steps: cache (`Dispatch`), gate
(`ApplyToGate`), bouncers (`Broadcast`).  The sweep is two: `SweepCollect` under
the gate's lock, `SweepEmit` per tombstone, which waits while the input channel
is full.  A sweeper that has been told to stop may sweep once more, since a
select with two ready cases takes either.  A session is authorised, registered, attached and backfilled in
separate steps; the gate is asked once, at the first.  `admission` records what
the gate knew then.  A client resumes from an op id it has been sent, or from
none.

### `ClientView`

One observer, whose bouncer channel, pre-attach buffer (`pendingStrings`), flush
(`draining`), backfill (`toDeliver`) and per-topic buffers are separate; a source
publishes its entity record, then its attributes, in a loop, and departs with
`sweepTopicOrder`.  `HandledEntity` is the visibility map of the writer,
`UuidVisible` and `EntityKeyVisible` its filters.  The client is not in the
repository and is taken to keep the op with the highest id of a key.  `excused`
records the sources of which an op came out of order, or was cut from a full
buffer: the properties about sources make no claim about those, and what they
do claim includes every interleaving that keeps each source's ops in order.
`OwnPolicyKnown`, about the client's own keys, leaves nobody out: it holds
through every overtaking and every cut, but for the ops in `cut`, which a full
buffer dropped as its oldest message while it kept an earlier op of their key.

### `MoqSession`

moqtransport is external and taken as `core/moq/subscription.go:145` describes
it: one message loop, which answers nothing while it handles a SUBSCRIBE.
`loop` is where set-up is within `HandleSubscribe`; each attempt has a manager of
its own, because `SetNodeConfig` rolls back a refused one.  `reader` is one input
handler: running, wired to the connection handler, stored in the manager,
stopped.  `closing` is `MoqSession.Close`,
which the owner and `MoqServer.Stop` may both run.  `InputForwarded` leans on the
single loop: the store of a reader and the setting of the connection handler
cannot both miss each other because no track is answered during set-up.
`writing`, `buffered` and `published` are an output track's adapter:
`WriteSample` looks for a publisher under the read lock and keeps the sample under
the write lock (`BufferSample`), and between the two a SUBSCRIBE may install a
publisher (`AddPublisher`) or Close stop the adapter (`StopOutputs`).  A publisher
that is installed after the Stop stays until the MOQ session is closed.

### `JitterBuffer`

A frame is its position in the stream, so the ring holds a right or a wrong
number.  Copies are one frame per step (`WriteToRing`, `ReadFromRing`),
`Publish` and `Snap` the stores of the positions.  A read decides in one step
with its load of `writePos`: between that load and the first copy it touches
nothing a writer sees.  `damage` is how far the writer had come since that load
when a wrong frame was first copied.

## 3. Runs

| Run | Instance | Properties | Distinct states |
|---|---|---|---|
| `Funnel_bus` | 2 connections of one identity (one legacy), one sent and one command key, channel of 2 | `TypeOK`, `MapsFollowRegistry`, `TombstonesLast`, `EpochsInOrder` | 2.4 M |
| `Funnel_contention` | 3 interchangeable connections, no traffic | `OneSessionPerIdentity`, `AddFindsFreeUuid`, `NoFreeWhileMixed`, `DecoderLedger` | 1.2 M |
| `Funnel_live` | 2 connections (one legacy), fair | `DeadSessionsDepart`, `AdmissionDecides`, `DepartedIsForgotten`, `ImplementsLifecycle` | 94 k |
| `Sweep_live` | 1 connection, 1 synthetic entry, fair | `ResidueSwept` | 211 k |
| `Bouncer_stop` | 1 sender, 3 departers, channels of 1, fair | both barriers, `DepartureCompletes`, `NoSendBlocksPastStop` | 86 k |
| `Store_reads` | 2 keys (one deleted), 2 segments of 2 slots, 4 ops and a fifth claim | `ReadsAreComplete` | 10.2 M |
| `Policy_mix` | an administrator, a role holder and a listener with a sub-space; 10 commands, 2 messages, 3 admissions, 1 departure | `RoleEffectsFresh`, `PolicyFollowsCache`, `MutedUnheard`, `OnlyModeratorsPart` | 1.46 M |
| `Kick_live` | 1 session with an own and a role key, 2 commands, permanent and timed, channel of 1, fair | `GateReflectsCache`, `KickedByNews`, `KickedGoesOut`, `ExpiredKickReleased`, `StopReturns` | 187 k |
| `View_fill` | 1 source with two sessions, in and out of a sub-space, 5 ops, buffers of 2 | `WriterAgrees`, `AttributesComplete`, `NoGhosts`, `SubSpaceClosed`, `OwnPolicyKnown` | 2.97 M |
| `Moq_setup` | 1 client that is set up on an input and an output track, 1 that only connects, fair | `InputForwarded`, `ClosedSessionsDepart`, `StopClosesSessions`, `BacklogAwaited`, `SetupReturns` | 552 k |
| `Jitter_ring` | packets of 3 frames and bursts of 10, reads of 2, allowances 0 to 1, 36 frames | `IntactAudio`, `SnapsAreApart`, `FillNeverNegative` | 4.54 M |
| `Funnel_successor` | ends in a counterexample, see section 4 | `SuccessorSpared` | |

Bounds.  A takeover needs two sessions, and a third connection is the smallest
that finds a departure already being waited for by another; a fourth only waits
in the same place.  A connection is used once, so counters need no bound.
`StrCap` of 1 or 2 makes a full channel ordinary; 2 is the smallest at which a
message of one session is queued in front of another's.  `QueueCap` 9 is above
the three changes each session can cause, so the change queue (1500 in the code)
does not block in the funnel runs; in the sweep runs a small capacity keeps
repeated orphan departures finite and does block.

Two messages in `Policy_mix` are two batches whose ops meet on one node (a rule
of a role and the roles of a holder, a mute and its lifting, a level and a rule
about it), before, between and after a removal and a second admission.  `MaxOps`
2 and `MaxTime` 2 in `Kick_live` allow a kick that expires while a second one is
issued around its tombstone, and a channel of 1 makes the sweeper wait.
Five ops in `View_fill` are a session's two records, its tombstones and the
first record of the next session, or several decisions of a moderator among them;
a buffer of 2 is cut, also in front of an op that was overtaken.  In `Moq_setup` addresses differ, because two sessions under one
address are excused anyway (section 4); the input tracks are served one after
the other and alike, and so are the output tracks, so one of each is there.
In `Jitter_ring` the ring has 28 frames and a snap aims six or seven behind the
writer; 36 frames overrun the reader, lap it and wrap the ring, and two reads
per window with a threshold of one let it widen and narrow repeatedly.

Symmetry is used in `Funnel_contention` only, which checks no liveness.
Deadlock is not checked: when all clients have gone the system is quiet, and
that is a proper end.  (`Store_reads` does check it: its loops never stop.)
`TypeOK` is a property of the core; the types of the other modules are conjuncts of
the inductive invariants of section 5, where there is one.

Fairness.  Goroutines that have been started and can run do run: weak fairness
on departures, on factory calls once made, on owner goroutines whose transport
closed, on the reconciler, on the mixer tick and on the dispatcher.  Go queues
senders on a full channel and waiters on a mutex, so a tombstone send is
strongly fair (`Announce`, `SweepEmit`), and so are the steps of a departure
inside `Bouncer`; a select does not pass over a ready case for ever, so the
sweeper's stop is strongly fair as well (`StopSweeper`).  In `Moderation` the attach, the backfill and the bouncer of a
session are fair, the clock, moderators and clients are not.  In `MoqSession`
the set-up, the owners and Stop are fair, and the calls it makes into the backend
return (which is `AdmissionDecides` of the funnel); requests the client must
answer are not.  Clients owe nothing: a connection need not be made, need not
close, need not send.  A timeout may always fire but is never forced.

## 4. Disagreements the models show

| Configuration, property | What happens |
|---|---|
| `Funnel_successor`, `SuccessorSpared` | `c2` waits for `c1` to depart and installs; then the mixer drains `c1`'s DELETE, and FreeSource departs the uuid's *current* entry, `c2`, which is alive (`direct/backend.go:750` against `direct/depart.go:34`). |
| `Funnel_leak`, `EncoderFreed` | A tick falls between phase 4 and phase 5: FreeSource finds nothing pending, the handler is handed over afterwards, and its decoder stays leased until another session of the uuid is removed (`direct/depart.go:113`). |
| `Funnel_pool`, `PoolNeverStarved` | Two admissions between two ticks both see room under the node cap (`direct/backend.go:566`); GetDecoder has none for the second, which `core/binaural/binaural_pool.go:37` says cannot happen. |
| `Sweep_keys`, `DepartedLeaveNoKeys` | A personal command dispatched between the reading of the keys and the release is untracked and never tombstoned (`direct/depart.go:121` against `core/commands/scope.go:11`). |
| `Bouncer_kick`, `KickedDeparts` | A kick of a session without transport handle makes the dispatch goroutine wait for itself (`direct/backend.go:639`).  `KickNeverLeavesStop` proves it of every instance. |
| `Store_lost`, `SnapshotReturnsAll` | A compaction covers the open head segment; ops written to it afterwards are in no read and no snapshot once the head has moved on (`core/statecache/store.go:307`). |
| `Policy_rejoin`, `MuteSurvivesRejoin` | "Ops can arrive ahead of an entity's add [...] and the cache replays them after" (`core/space/base_space_mutators.go:11`): doAddNode replays nothing, so an entity muted for the space is heard again after it rejoins, while its key is still in the cache. |

The first is a run of the project; the others are reproduced from `tla/` with
`tlc -config Funnel_leak.cfg MCDepartureFunnel` and so on (`Sweep_keys` with
`MCOrphanSweep`, `Bouncer_kick` with `MCBouncer`, `Store_lost` with
`MCStateStore`, `Policy_rejoin` with `MCSpacePolicy`).

More are built into properties as named exceptions rather than stated as
properties of their own; such a property does not tell whether the case occurs:

- A tombstone of an expired kick lifts a kick issued while it was queued, one
  for ever included: `GateReflectsCache` allows it because cache and gate agree
  about it (`core/space/kick_gate.go:205`).
- An expired kick that is not swept yet does not stop an admission, but ends the
  session through its backfill, which looks at no deadline: the second case of
  `KickedByNews` (`core/space/bouncer_client.go:495`).
- A session whose address another one took over in the server's map is not
  closed by Stop: `missed` in `StopClosesSessions` (`core/moq/server.go:563`).
- A session whose transport dies while its set-up is inside the factory is left
  to the reconciler: `overtaken` in `ClosedSessionsDepart`
  (`core/moq/session.go:214`); `DeadSessionsDepart` covers it.
- A listener with nobody left to hear keeps the reverb send of the last frame
  that was mixed, with a peer muted since: the last clause of `MutedUnheard`
  (`core/ambisonic/encoder.go:402`).
- Of a source one of whose ops was overtaken, in the flush of the pre-attach
  buffer or by a backfill already read, or was cut, the writer may go on with a
  record or attributes that are stale: `excused` in the first four properties of
  `ClientView` (`core/space/bouncer_client.go:221`, `direct/backend.go:403`,
  `core/panaudia_server/data_writer.go:404`).
- A decision about the client that overtook an earlier one and is then the oldest
  message in a full buffer is cut although the earlier one is kept, and delivered:
  `cut` in `OwnPolicyKnown` (`core/panaudia_server/data_writer.go:404`).
- A write larger than the declared frame "is only ever a recoverable snap, never
  corruption" (`core/buffers/jitter_buffer.go:45`).  The code keeps less: once
  the writer comes further than `Headroom` while one Read copies, frames are
  overwritten under the reader, and `IntactAudio` allows it.

## 5. Proofs

Every theorem is about the specification the runs check, without its fairness,
and rests on the named assumptions on constants only.  Each comes from an
inductive invariant: it holds initially, every step keeps it, and the property
follows.  What is said of it below is why the property alone is not inductive.

### Departure funnel

For arbitrary sets of uuids, connections and keys and arbitrary capacities; the
only assumptions are `EntriesAssumption` and `BoundsAssumption`.

1. `TypeCorrect`: `Spec => []TypeOK`, one lemma per action or group of actions.
2. `OwnershipInvariant`: `OneSessionPerIdentity` alone is not inductive, because
   an installation displaces whatever is registered.  `Ownership` adds that the
   call between re-check and installation holds the mutex and finds its identity
   free (`LockReserves`), that a registered entry has not departed
   (`RegisteredIsCurrent`), that a session which occupies its identity is the
   registered one and the one in both maps (`OccupantOwnsAll`,
   `MapsHoldOccupants`), and that a departure has captured its own handler and
   bouncer (`ClaimsAreOwn`), so that Release empties exactly what it filled.
3. `OneSession` and `MapsAgree` follow from `Ownership`.
4. `Refinement`: `FactoryInstall` is a Join, `Release` a Leave of
   `SessionLifecycle`, every other step changes neither `Occupant` nor `Phase`.
5. `BusOrderInvariant`, and from it `TombstonesComeLast` and `EpochsStayInOrder`.
   A tombstone is the last word about its session because, when it is sent, no
   bouncer of that session forwards any more (`OpenBeforeSever`) and because the
   departure has collected every key with a message on the channel
   (`PublishedIsSwept`).  Sessions do not mix because nobody else of the identity
   has written behind one that still occupies it (`OccupantWritesLast`), which is
   where `Ownership` comes in.
6. `NothingFreedIsMixed`, `LeasesAreReachable`: handlers in `pendingFree` were
   released (`ReleasedAwaitFree`), so were those with a freed decoder
   (`FreedWereReleased`), and a node renders through handlers of its own uuid
   (`NodesRenderOwn`); so what FreeSource frees after dropping a node is rendered
   by no other.  `DecoderLedger` allows the lease that `Funnel_leak` shows.
7. `SuccessorsAreAdded`: between two ADDs of a uuid, and between a node that
   stays and an ADD, there is a DELETE (`AddBehindDelete`).  That a successor's
   ADD joins such a queue in order needs to know that its predecessor's DELETE is
   in it: `DeleteFollows`, once no session of the uuid has one to queue.

The theorems are about `Next` of `DepartureFunnel`, in which no synthetic entry
is installed.  With them the claim would fail: RegisterOrphan does not take the
backend mutex (`core/sessions/registry.go:148`), so an entry it installs between
the re-check and the Register of an admission is displaced at once and departs
beside the session that displaced it.

### Bouncer

For any senders, departers and capacities (`BouncerAssumption`; among others, no
departer is called by one of the two marks of `sync.Once`).  `OutboundBarrier`
and `InboundBarrier` follow from `StopInvariant`: who is inside the Once is the
one departer it names (`OnceHeld`); whoever is past Stop comes after its body
(`PastOnce`), which has set `stopped`, waited for the relay and detached the
client (`BarrierPassed`); and since `stopped` was set under the write lock, no
sender is between its check and its channel operation (`NobodyEnqueues`).

`KickNeverLeavesStop` is the other side of the finding of section 4, and needs
no fairness: a departure which the dispatch goroutine itself runs waits, at every
step from its CAS on, for a goroutine that is itself, so it is never past Stop.

### MOQ session

For any sessions, addresses, numbers of attempts and sequence of input tracks,
from `MoqAssumption`.  `SessionInvariant` has a part for each theorem, besides the
types, which bound attempts by those begun:

1. `BacklogStaysAwaited`: an adapter's kept samples are given up when a publisher
   comes or the session closes, and neither can fall between a look and a store.
2. `StopLeavesNoneOpen`: `Membership` says who is in the server's map, in the list
   Stop closes, or neither because another session took the address.
3. `ClosedSessionsAreDeparted`: a close that finds no handler while set-up is
   inside the factory is the only way to leave a session behind
   (`ClosedOrOvertaken`), as the handler is known whenever the backend has the
   session otherwise (`HandlerFollowsLoop`).
4. `NothingIsDropped`: every running reader of an attempt is wired once that
   attempt is connected (`ReadersWired`), because the loop has answered none of
   its subscriptions before (`ReadersAnswered`).

### Kick gate

For all keys, sessions, durations and capacities, from `ModerationAssumption`.

`GateReflects`: `GateReflectsCache` is not inductive alone: when the
dispatcher applies its op the gate must come to show what the cache shows, so
the op in hand has to be the one the cache holds (`InHandIsCached`); and a
tombstone that leaves the channel must be the one in hand.  `GateInvariant` adds
the types of what both depend on.

`KickIsNews`: whatever kicks a session that was let in is later than its
admission or had expired by then.  `NewsInvariant` follows the op from the cache
through the backfill and the channel to the session (`OnlyNews`); at the
admission itself it needs that the gate forgets a kick only when it has expired,
is lifted, or is in the dispatcher's hands (`SweptIsExpired`), and that the op in
hand has the highest id (`InHandIsLatest`).

### Policy in the mix

For any identities, roles, tickets, configuration and commands, from
`CommandsAssumption` and `PolicyAssumption`.  `PolicyInvariant` has three parts.

1. `Mirror`, for `MixerFollowsCache` and `EffectsStayFresh`.  What the mixer shows
   of a key depends on the tee, so the tee holds what the cache holds
   (`TeeFollowsCache`); an encoder shows every key the tee has drained and has
   not missed (`NodesFollow`, `RulesFollow`); and a key about a node that is not
   in the mix is missed (`AbsentMiss`), so that a node just added, which shows
   nothing, owes nothing.  It is here that mutators have to commute: a tick
   applies what it has swapped out in any order, and `MutatedEncoder` says that an
   op changes only what its own key shows.
2. `Order`: two ADDs of an identity have a DELETE between them, an output is
   enabled right behind its ADD, and so while the encoder is silent.
3. `FramesFollow`, for `MutedAreUnheard`: between two ticks the output is exactly
   the peers that may be heard, and nothing goes out of an encoder without an
   output.  It needs `Order`, for an output enabled late would be an output that
   no tick has mixed.

`ModeratorsAlonePart` goes from the mix back to the command: every key of a peer
that is not heard by others was written by a moderator, by the peer itself, or
by the listener (`Authored`, carried along in `TeeFollowsCache`), which in turn
is a fact about the catalogue (`SpaceCommandsModerate`).

### Client view

For any sources, tickets, sub-spaces, buffer sizes and number of ops, from
`ViewAssumption`.  None of the five properties is inductive: four speak of the
moment when all has arrived and say nothing before.  `Arrival` is a simulation.
For an identity that is not excused, take what the client's side has (`Side`: the
record at the writer, and the latest op sent on) and apply in turn what is still
on its way: the `Line` of flush, pre-attach buffer and bouncer channel, then what
the backfill owes, the record first, then the broadcast.  Every op on this way
fits the state it meets (`Fits`: it is no older, a session has one set of
sub-spaces, a record goes after the attributes), every state is one the writer
may be in (`Sound`: what is held was visible and still is), and at the end is
what the cache holds (`UpToDate`).

A step takes the first op off the way, adds one at its end, or moves one between
its parts without changing the order.  The two places where the order does change
are where the code drains a buffer outside its lock: a live op written before the
rest of the flush (`BehindTheFlush`), harmless if nothing about the same source is
left in the flush, and a broadcast that comes before a backfill already read.
Otherwise the source is excused, as it is when a full buffer is cut, or when
attributes pass the filter before any record of their source is known.
`SessionsInOrder` says of the sources that they publish in the order `Fits` asks
for, and there `sweepTopicOrder` matters.

`WriterHasTheRecords`, `NothingIsMissed` and `GoneIsGone` read off the end of a
way with nothing on it; `SubSpacesAreClosed` holds at every
moment, because an op is sent on only under a record with the op's sub-spaces
(`IsLatest`).  The way is a function on positions (`IsRun`), so that taking an op
out of the middle needs no induction (`RunWithout`).

`PolicyArrives` cannot rest on an order, as it is about ops that may have been
overtaken.  `OwnPolicy` follows the latest decision instead (`Reaches`): it is on
its way, in the channel's buffer or at the client; or the backfill still owes it;
or it is a tombstone with nothing left that it would kill; or it is in `cut`.
Before a writer is attached all is in order (`InLine`), so what cuts the decision
has cut everything before it.  Afterwards a full entity buffer, which holds the
client's own keys only, drops it in front of another of its key: the same again,
which stays, or an earlier one, and then it is in `cut`.  When the channel opens,
the op with the highest id wins (`LatestExists`).

### Jitter buffer

For every geometry the constructor accepts, every set of write sizes and reads
up to the declared reader frame.  `GeometryAssumption` also asks that a window
narrows by no more frames than it has reads and than a writer frame has
(24 against 400 and 960 with the code's constants).

1. `JitterInvariant`.  `RingHolds` says that the last `Capacity` frames copied
   are each at their place, whoever reads; `Positions` that a read begins at most
   `BandTop` behind what was published.  With `Capacity` twice that and more, a
   copied frame is wrong only if the writer has come further than
   `Headroom` since the read's load: `AudioIsIntact`.
2. `SnapsApart` needs `Calm`: until something is written, the fill exceeds the
   snap target by no more than the window has narrowed since, and each read of
   the window has taken at least one frame, so that the overrun line, a writer
   frame above, is not reached.  This is where the assumption on `NarrowStep` is
   used.
3. `MeasuredFill`: the position loaded first is behind any later `writePos`.
4. `NothingPlayedTwice`: every store of `readPos` increases it.

### State cache

For any keys, ring, segment size and number of writes, from `StoreAssumption`.
`ReadsAreComplete` speaks of the end of a read; `StoreInvariant` of what leads
there, write by write.

1. Until the head is a whole ring ahead of its segment, a completed write is in
   its slot, below the segment's cursor, and the epoch is the segment's own
   (`RingHolds`).  It is for this that the slot in the writer's hands is nobody's
   (`WriterApart`) and that two segments less than a ring apart have different
   places (`PlacesApart`).  After that the segment is in `lapped`, unless the
   snapshot in use already stands for it (`LapsNoted`, of the published snapshot
   and of the one the reader began with).
2. A scan that has passed a slot (`Passed`) has merged its op, or the segment was
   reused; and the cursor it loaded is above every write it has to find
   (`InSight`).  `SegmentReads` and `SlotReads` prove it once for `Compact` and
   `readOps`.  Merging never loses a key to a lower id, because ops are merged
   already (`Merged`).
3. The published snapshot owes (`Kept`) every write up to its last segment: what
   the scan passed, less expired tombstones, which `purged` remembers
   (`PurgeStep`); and of that last segment, still open, every slot that holds no
   merged write is in `unmerged`, so that a write which fills it later is
   accounted for already (`SnapshotHolds`).
4. A read inherits what its snapshot owes and has to find the rest (`Fresh`):
   later segments and, if the snapshot covers the head, what follows its cursor.
   The head is loaded after the snapshot, hence no expected write is behind it.

`ReadsMissNothingElse` is `ReadsAreComplete`, `SnapshotMissesNothingElse` the
same of the snapshot.  `ReadsReturnOnlyWrites` is the converse: with a reused
segment's stale slots in view, a read still returns completed writes only
(`Origin`), and an outdated one only after one of the two losses or when the
tombstone that followed it has been purged.  Its last exception is real: a stale
slot can bring back a deleted key.

### Only model-checked

`ResidueSwept` of `OrphanSweep` and the other
liveness properties (`DeadSessionsDepart`, `AdmissionDecides`,
`DepartedIsForgotten`, `DepartureCompletes`, `NoSendBlocksPastStop`,
`KickedGoesOut`, `ExpiredKickReleased`, `StopReturns`, `SetupReturns`): they rest
on fairness, hence on ENABLED, which the prover does not handle.

## 6. Not modelled, and what is next

1. `StateStore`, continued: several writers, and as abstract specification a
   last-writer-wins map of completed writes.
2. Shutdown's drain and NotifyStaleNode as an extension of `DepartureFunnel`;
   MOVE changes in the queue.
3. The state topic of the writers, and attributes in the format without an
   envelope, which have no op id for a client to order them by.
4. `MoqSession` with several tracks, with a refused admission while inputs of an earlier attempt
   are still being subscribed, on two sessions that share an address.

Not planned: signal processing (floating point), codecs and the ROC toolkit (C
libraries), the worker pool's fork and join, the older circular buffers (the
server's connections use the jitter buffer), tickets and configuration (parsing).
