------------------------------ MODULE ClientView ------------------------------
(***************************************************************************)
(* What one client is told of the others.  Sources publish their entity    *)
(* record and then their attributes (core/space/bouncer_client.go), the    *)
(* dispatcher caches and broadcasts, the observer's bouncer hands over to  *)
(* its BouncerClient, which buffers until a writer is attached; the writer *)
(* (core/panaudia_server/data_writer.go for WebRTC, core/moq/              *)
(* moq_data_writer.go for MOQ) learns sub-spaces from entity ops, filters  *)
(* attributes with them, and writes to a data channel or track, which      *)
(* buffers until the client has opened it.  Meanwhile a goroutine delivers *)
(* the backfill, what was in the cache when it looked.                     *)
(*                                                                         *)
(* Four queues in a row and two of them drained outside their lock: ops    *)
(* reach the writer out of order.  "excused" records of which source they  *)
(* did, or one was cut; the first four properties are about the others.    *)
(*                                                                         *)
(* One observer is enough, observers share nothing but the cache.  An op   *)
(* is dispatched when it is sent, the channel in between is a delay of the *)
(* sender (Bouncer, DepartureFunnel).  The client itself is not in the     *)
(* repository: it keeps the op with the highest id of a key.  Position and *)
(* volume, on the state topic, are left out, the legacy attributes without *)
(* an envelope too.                                                        *)
(***************************************************************************)
EXTENDS Naturals, Sequences, FiniteSets, SequencesExt

CONSTANTS
  Sources,     \* identities of the others
  Me,          \* the observer's own
  SubSpaces,   \* sub-space identifiers
  SubSpacesOf, \* sub-spaces on a source's ticket, by session number
  MyOptions,   \* sub-space sets the observer may have
  PendingMax,  \* pendingMaxBytes, in messages
  MaxOps,      \* bound: ops in all
  None

Topics == {"entity", "attributes"}

Keys == (Topics \X Sources) \cup {<<"entity", Me>>}

Ops == [key : Keys, tomb : BOOLEAN, subs : SUBSET SubSpaces, id : Nat]

Absent(k) == [key |-> k, tomb |-> TRUE, subs |-> {}, id |-> 0]

ASSUME ViewAssumption ==
  /\ Me \notin Sources
  /\ MyOptions \subseteq SUBSET SubSpaces
  /\ \A x \in Sources : SubSpacesOf[x] \in Seq(SUBSET SubSpaces)
  /\ PendingMax \in Nat \ {0} /\ MaxOps \in Nat
  /\ None \notin Ops

VARIABLES
  mine,       \* the observer's sub-spaces
  opId, cache,
  sending,    \* the op between Cache.Set and the broadcast
  session,    \* per source: the number of its session
  at,         \* per source: what it does next
  stage,      \* the observer: "none", "registered", "attached", "waiting", "read"
  stringChOut,\* its bouncer's channel
  pendingStrings, draining,   \* BouncerClient's buffer, and what it flushes
  toDeliver,  \* backfill ops that were read and are not delivered
  members, nodeSubspaces,     \* the writer's visibility map
  opened,     \* topics whose channel is open, or whose track has a publisher
  pending,    \* per topic: what waits for it
  view,       \* what the client holds of each key
  cut,        \* history: ops a full buffer dropped before an older one of their key
  excused     \* history: sources of which something came out of order, or was cut

busVars == <<opId, cache, sending>>
sourceVars == <<session, at>>
clientVars == <<stage, stringChOut, pendingStrings, draining, toDeliver>>
writerVars == <<members, nodeSubspaces>>
sinkVars == <<opened, pending, view, cut>>
vars == <<mine, busVars, sourceVars, clientVars, writerVars, sinkVars, excused>>

About(op) == op.key[2]
Mentions(ops, x) == \E op \in ops : About(op) = x

Overlap(mySet, peers) ==
  IF mySet = {} \/ peers = {} THEN mySet = peers ELSE mySet \cap peers # {}

-------------------------------------------------------------------------------
(* Sources and dispatcher.                                                 *)

\* An op is cached, and then on its way to the bouncers.
Put(key, tomb, subs) ==
  LET op == [key |-> key, tomb |-> tomb, subs |-> subs, id |-> opId + 1]
  IN /\ sending = None
     /\ opId < MaxOps
     /\ opId' = opId + 1
     /\ cache' = [cache EXCEPT ![key] = op]
     /\ sending' = op
     /\ UNCHANGED <<mine, clientVars, writerVars, sinkVars, excused>>

Tickets(x) == SubSpacesOf[x][session[x]]
Then(x, step) == at' = [at EXCEPT ![x] = step]

\* sendInfo, on its first turn and every fortieth: entity first.
Join(x) ==
  /\ at[x] = "away"
  /\ session[x] < Len(SubSpacesOf[x])
  /\ session' = [session EXCEPT ![x] = @ + 1]
  /\ Then(x, "attributes")
  /\ Put(<<"entity", x>>, FALSE, SubSpacesOf[x][session[x] + 1])

SendEntity(x) ==
  /\ at[x] = "entity"
  /\ Put(<<"entity", x>>, FALSE, Tickets(x))
  /\ Then(x, "attributes")
  /\ UNCHANGED session

SendAttributes(x) ==
  /\ at[x] = "attributes"
  /\ Put(<<"attributes", x>>, FALSE, Tickets(x))
  /\ Then(x, "entity")
  /\ UNCHANGED session

\* A departure at any point of the loop.
Depart(x) ==
  /\ at[x] \in {"entity", "attributes"}
  /\ Then(x, "sweep 1")
  /\ UNCHANGED <<mine, busVars, session, clientVars, writerVars, sinkVars,
                 excused>>

\* Seeded bug: topics are swept in the order they are published.
SweepTopicOrder_EntityFirst == <<"entity", "attributes">>

SweepTopicOrder == <<"attributes", "entity">>

\* announceDeparture: a tombstone for each topic that has keys of the source.
SweepStep(x, step, i, after) ==
  LET key == <<SweepTopicOrder[i], x>>
  IN /\ at[x] = step
     /\ Then(x, after)
     /\ UNCHANGED session
     /\ IF cache[key].tomb
        THEN UNCHANGED <<mine, busVars, clientVars, writerVars, sinkVars, excused>>
        ELSE Put(key, TRUE, {})

Sweep(x) == SweepStep(x, "sweep 1", 1, "sweep 2") \/ SweepStep(x, "sweep 2", 2, "away")

\* A moderator mutes or un-mutes the observer: an entity op about it.
Moderate(tomb) ==
  /\ cache[<<"entity", Me>>].tomb # tomb
  /\ Put(<<"entity", Me>>, tomb, {})
  /\ UNCHANGED sourceVars

\* The broadcast, under the backend mutex, to a mapped bouncer.  What the
\* backfill has read about the same source is older, and comes later.
Broadcast ==
  /\ sending # None
  /\ sending' = None
  /\ IF stage = "none" THEN UNCHANGED <<stringChOut, excused>>
     ELSE /\ stringChOut' = Append(stringChOut, sending)
          /\ excused' = IF Mentions(toDeliver, About(sending)) THEN excused \cup {About(sending)}
                        ELSE excused
  /\ UNCHANGED <<mine, opId, cache, sourceVars, stage, pendingStrings, draining,
                 toDeliver, writerVars, sinkVars>>

-------------------------------------------------------------------------------
(* The writer and its channels.                                            *)

\* Seeded bug: the newest goes.
Trimmed_Newest(s) == IF Len(s) > PendingMax THEN Front(s) ELSE s

\* trimPending: the oldest go when the buffer is full.
Trimmed(s) == IF Len(s) > PendingMax THEN Tail(s) ELSE s
Cut(s) == IF Len(s) > PendingMax THEN {About(Head(s))} ELSE {}

\* What goes although an op it had overtaken stays behind it.
CutEarly(s) ==
  IF Len(s) > PendingMax /\ \E op \in ToSet(s) : op.key = Head(s).key /\ op.id < Head(s).id
  THEN {Head(s)} ELSE {}

\* Seeded bug: a record is never forgotten.
HandledEntity_KeepsRecord(op) ==
  <<IF op.tomb THEN members \ {About(op)} ELSE members \cup {About(op)},
    [nodeSubspaces EXCEPT ![About(op)] = @ \cup op.subs]>>

\* handleEntity: the visibility map after an entity op.  Marker and sub-spaces
\* are keys of one batch.  Keys about the observer are none of those.
HandledEntity(op) ==
  IF About(op) = Me THEN <<members, nodeSubspaces>>
  ELSE IF op.tomb THEN <<members \ {About(op)}, [nodeSubspaces EXCEPT ![About(op)] = {}]>>
  ELSE <<members \cup {About(op)}, [nodeSubspaces EXCEPT ![About(op)] = @ \cup op.subs]>>

\* A source without a record counts as one without sub-spaces.
UuidVisible(x) == Overlap(mine, nodeSubspaces[x])

\* Without the entity.all scope a client sees its own keys only.
EntityKeyVisible(key) == key[2] = Me

\* The client keeps the latest op of a key.
Received(op) == view' = [view EXCEPT ![op.key] = IF op.id > @.id THEN op ELSE @]

\* sendOrBuffer..., WriteSample: to the channel, or into its buffer.
Forward(op, late) ==
  LET t == op.key[1]
      more == Append(pending[t], op)
  IN IF t \in opened
     THEN Received(op) /\ excused' = excused \cup late /\ UNCHANGED <<opened, pending, cut>>
     ELSE /\ pending' = [pending EXCEPT ![t] = Trimmed(more)]
          /\ excused' = excused \cup late \cup Cut(more)
          /\ cut' = cut \cup CutEarly(more)
          /\ UNCHANGED <<opened, view>>

Drop(late) == excused' = excused \cup late /\ UNCHANGED sinkVars

\* SendString of the writer.  Attributes that pass the filter before any record
\* of their source is known pass it by mistake, if the source has sub-spaces.
Write(op, late) ==
  IF op.key[1] = "entity"
  THEN /\ members' = HandledEntity(op)[1]
       /\ nodeSubspaces' = HandledEntity(op)[2]
       /\ IF EntityKeyVisible(op.key) THEN Forward(op, late) ELSE Drop(late)
  ELSE IF UuidVisible(About(op))
       THEN /\ members' = members \cup {About(op)}
            /\ UNCHANGED nodeSubspaces
            /\ Forward(op, late \cup ({About(op)} \ members))
       ELSE Drop(late) /\ UNCHANGED writerVars

Latest(k, ops) == LET own == {op \in ops : op.key = k}
                  IN IF own = {} THEN Absent(k)
                     ELSE CHOOSE op \in own : \A o \in own : o.id <= op.id

\* OnOpen or a SUBSCRIBE.  The buffer is flushed outside the lock, so that live
\* ops may overtake it; the ids undo that at the client, and it is one step here.
Open(t) ==
  /\ stage # "none"
  /\ t \notin opened
  /\ opened' = opened \cup {t}
  /\ view' = [k \in Keys |-> Latest(k, {view[k]} \cup ToSet(pending[t]))]
  /\ pending' = [pending EXCEPT ![t] = <<>>]
  /\ UNCHANGED <<mine, busVars, sourceVars, clientVars, writerVars, cut, excused>>

-------------------------------------------------------------------------------
(* The observer's connection.                                              *)

Register ==
  /\ stage = "none"
  /\ stage' = "registered"
  /\ UNCHANGED <<mine, busVars, sourceVars, stringChOut, pendingStrings, draining,
                 toDeliver, writerVars, sinkVars, excused>>

\* BouncerClient.SendString on the bouncer's goroutine.
SendString ==
  LET op == Head(stringChOut)
      more == Append(pendingStrings, op)
  IN /\ stringChOut # <<>>
     /\ stringChOut' = Tail(stringChOut)
     /\ IF stage = "registered"
        THEN /\ pendingStrings' = Trimmed(more)
             /\ excused' = excused \cup Cut(more)
             /\ UNCHANGED <<writerVars, sinkVars>>
        ELSE /\ Write(op, IF Mentions(ToSet(draining), About(op)) THEN {About(op)} ELSE {})
             /\ UNCHANGED pendingStrings
     /\ UNCHANGED <<mine, busVars, sourceVars, stage, draining, toDeliver>>

\* SetReceiveSender: attached under the lock, flushed after it.
SetReceiveSender ==
  /\ stage = "registered"
  /\ stage' = "attached"
  /\ draining' = pendingStrings
  /\ pendingStrings' = <<>>
  /\ UNCHANGED <<mine, busVars, sourceVars, stringChOut, toDeliver, writerVars, sinkVars,
                 excused>>

Drain ==
  /\ draining # <<>>
  /\ Write(Head(draining), {})
  /\ draining' = Tail(draining)
  /\ UNCHANGED <<mine, busVars, sourceVars, stage, stringChOut, pendingStrings, toDeliver>>

\* BackfillBouncer begins when the flush is done, and pauses.
BackfillBouncer ==
  /\ stage = "attached"
  /\ draining = <<>>
  /\ stage' = "waiting"
  /\ UNCHANGED <<mine, busVars, sourceVars, stringChOut, pendingStrings, draining,
                 toDeliver, writerVars, sinkVars, excused>>

BackfillRead ==
  /\ stage = "waiting"
  /\ stage' = "read"
  /\ toDeliver' = {cache[k] : k \in {j \in Keys : ~cache[j].tomb}}
  /\ UNCHANGED <<mine, busVars, sourceVars, stringChOut, pendingStrings, draining,
                 writerVars, sinkVars, excused>>

\* Seeded bug: the buckets are not kept apart.
Bucket_Mixed == toDeliver

\* Entity ops before attributes.
Bucket == LET entity == {op \in toDeliver : op.key[1] = "entity"}
          IN IF entity # {} THEN entity ELSE toDeliver

BackfillDeliver ==
  \E op \in Bucket :
    /\ stringChOut' = Append(stringChOut, op)
    /\ toDeliver' = toDeliver \ {op}
    /\ UNCHANGED <<mine, busVars, sourceVars, stage, pendingStrings, draining, writerVars,
                   sinkVars, excused>>

-------------------------------------------------------------------------------
Init ==
  /\ mine \in MyOptions
  /\ opId = 0 /\ cache = [k \in Keys |-> Absent(k)] /\ sending = None
  /\ session = [x \in Sources |-> 0] /\ at = [x \in Sources |-> "away"]
  /\ stage = "none" /\ stringChOut = <<>> /\ pendingStrings = <<>> /\ draining = <<>>
  /\ toDeliver = {}
  /\ members = {} /\ nodeSubspaces = [x \in Sources |-> {}]
  /\ opened = {} /\ pending = [t \in Topics |-> <<>>]
  /\ view = [k \in Keys |-> Absent(k)]
  /\ cut = {} /\ excused = {}

Next ==
  \/ \E x \in Sources : Join(x) \/ SendEntity(x) \/ SendAttributes(x) \/ Depart(x) \/ Sweep(x)
  \/ \E tomb \in BOOLEAN : Moderate(tomb)
  \/ Broadcast \/ Register \/ SendString \/ SetReceiveSender \/ Drain
  \/ BackfillBouncer \/ BackfillRead \/ BackfillDeliver
  \/ \E t \in Topics : Open(t)

Spec == Init /\ [][Next]_vars

-------------------------------------------------------------------------------
\* Everything the observer was sent has arrived.
Quiet ==
  /\ stage = "read" /\ sending = None /\ toDeliver = {} /\ stringChOut = <<>>
  /\ opened = Topics

\* The writer's visibility map is a copy of the cache, but for the excused:
\* members are the sources with an existence marker, with the sub-spaces of
\* their present session.
WriterAgrees ==
  Quiet => \A x \in Sources \ excused :
             LET marker == cache[<<"entity", x>>]
             IN /\ x \in members <=> ~marker.tomb
                /\ nodeSubspaces[x] = IF marker.tomb THEN {} ELSE marker.subs

\* Nothing is lost between buffer, backfill and live ops: of a source it may see,
\* and that is not excused, the client holds the very attributes the cache holds,
\* whatever part of them came by backfill.
AttributesComplete ==
  Quiet => \A x \in Sources \ excused :
             LET cached == cache[<<"attributes", x>>]
             IN ~cached.tomb /\ Overlap(mine, cached.subs) => view[<<"attributes", x>>] = cached

\* A source that has gone is gone at the client, unless it is excused: its
\* tombstone passes the filter, because the entity record outlives the
\* attributes.
NoGhosts ==
  Quiet => \A x \in Sources \ excused : at[x] = "away" => view[<<"attributes", x>>].tomb

\* A client in a sub-space is not sent the attributes of a session that shares
\* none with it, as long as nothing of that source came out of order or was
\* cut: what the writer knew of an earlier session does not open the filter.
SubSpaceClosed ==
  mine # {} => \A x \in Sources \ excused :
                 LET held == view[<<"attributes", x>>]
                 IN ~held.tomb => Overlap(mine, held.subs)

\* What a moderator has decided about the client reaches it, whatever overtook
\* what and whatever was cut from the buffers.  It takes both to lose it: that
\* the decision itself is the oldest in a full buffer, and that an earlier one
\* has come behind it.
OwnPolicyKnown ==
  LET decided == cache[<<"entity", Me>>]
  IN Quiet => view[<<"entity", Me>>].tomb = decided.tomb \/ decided \in cut
================================================================================
