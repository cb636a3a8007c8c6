------------------------------ MODULE SpacePolicy ------------------------------
(***************************************************************************)
(* Policy in the mix: how a control command reaches the sound a listener   *)
(* hears.  A connected client's command becomes a cache op (Commands), the *)
(* backend dispatcher stores it and tees it to the space (core/space/      *)
(* base_space_ops.go), the mixer goroutine drains the tee at the start of  *)
(* a tick, applies each op to the node it is about                         *)
(* (base_space_mutators.go), processes the queued node changes, and        *)
(* renders: every node with an output hears the peers shouldIncludePeer    *)
(* lets through (core/ambisonic/encoder.go).                               *)
(*                                                                         *)
(* Data: gains and attenuations are small integers, a signal is the set of *)
(* the peers it was mixed from; positions, and NODE_CHANGE_MOVE with them, *)
(* are in ClientView.  A frame's parallel workers share nothing but the    *)
(* encoders they read, so Render is one step; and a message is dispatched  *)
(* in the step that sends it, because what goes wrong on the channel in    *)
(* between is the subject of DepartureFunnel and Bouncer.  A departure is  *)
(* two steps: the mixer may run between the tombstones and the DELETE.     *)
(***************************************************************************)
EXTENDS Commands, Sequences, FiniteSetsExt

CONSTANTS
  SubSpaces,   \* sub-space identifiers
  Config,      \* SpaceNodeConfig of each identity
  Requests,    \* commands clients try: <<name, entity or role, value>>
  ReverbOn,    \* ReverbPreset # REVERB_NONE
  MaxSources,  \* the node cap
  MaxMessages, \* bound: publications and commands
  MaxAdmits,   \* bound: admissions
  MaxDeparts,  \* bound: departures
  None

Levels == 0..MaxLevel

ASSUME PolicyAssumption ==
  /\ Config \in [Uuids -> [gain : Levels, att : Levels,
                           subspaces : SUBSET SubSpaces, input : BOOLEAN]]
  /\ ReverbOn \in BOOLEAN
  /\ MaxSources \in Nat /\ MaxMessages \in Nat /\ MaxAdmits \in Nat /\ MaxDeparts \in Nat
  /\ None \notin Levels

VARIABLES
  live,        \* uuids with a mapped connection handler
  leaving,     \* those of them whose tombstones are out, the DELETE not yet
  admits,      \* admissions so far
  opId,        \* the last op id assigned by the dispatcher
  cache,       \* the latest op of every key ever written
  opChanges,   \* the tee: the latest undrained op of a key
  draining,    \* the map processOpChanges swapped out and is applying
  changes,     \* changesQueue
  ticking,     \* the mixer goroutine is inside Process
  nodes,       \* Nodes, with the encoder of each
  slots,       \* NodeUuidBySlot
  mutedRoles, roleGains, roleAtts,   \* space-wide role rules
  missed       \* history: keys about a node that was absent when they counted

connVars == <<live, leaving, admits>>
busVars == <<opId, cache>>
teeVars == <<opChanges, draining>>
roleVars == <<mutedRoles, roleGains, roleAtts>>
nodeVars == <<nodes, slots>>
vars == <<connVars, busVars, teeVars, changes, ticking, nodeVars, roleVars, missed>>

-------------------------------------------------------------------------------
(* Partial functions stand for Go maps.                                    *)

Put(f, k, v) == [x \in DOMAIN f \cup {k} |-> IF x = k THEN v ELSE f[x]]
Del(f, k) == [x \in DOMAIN f \ {k} |-> f[x]]
Empty == [x \in {} |-> 0]

\* Add or remove a member, as a set op or a tombstone asks.
Toggle(S, x, tomb) == IF tomb THEN S \ {x} ELSE S \cup {x}

-------------------------------------------------------------------------------
(* The encoder of a node.                                                  *)

NewEncoder(u, slot) ==
  [ slot |-> slot, input |-> Config[u].input /\ u \in live, out |-> FALSE,
    gain |-> Config[u].gain, att |-> Config[u].att,
    subspaces |-> Config[u].subspaces, roles |-> {}, mutes |-> {}, solos |-> {},
    muteRoles |-> {}, spaceMuted |-> FALSE, roleMuted |-> FALSE, mul |-> 1, over |-> None,
    factor |-> Config[u].gain, exponent |-> Config[u].att, dry |-> {}, wet |-> {} ]

SetGain(n, g) == [n EXCEPT !.gain = g, !.factor = g * n.mul]

SetAttenuation(n, a) ==
  [n EXCEPT !.att = a, !.exponent = IF n.over = None THEN a ELSE n.over]

\* The minimum of the rules that apply; an unset rule leaves 1, and so does a
\* gain rule of 0, which SetRoleGainMultiplier takes for "no override".
RoleMultiplier(roles, gains) ==
  LET g == {gains[r] : r \in roles \cap DOMAIN gains}
  IN IF g = {} \/ 0 \in g THEN 1 ELSE Min(g)

RoleOverride(roles, atts) ==
  LET a == {atts[r] : r \in roles \cap DOMAIN atts}
  IN IF a = {} THEN None ELSE Min(a)

\* Seeded bug: the refresh forgets that the gain factor is derived.
RefreshEncoderRoleEffects_FactorKept(n, muted, gains, atts) ==
  [n EXCEPT !.roleMuted = n.roles \cap muted # {},
            !.mul = RoleMultiplier(n.roles, gains),
            !.over = RoleOverride(n.roles, atts)]

RefreshEncoderRoleEffects(n, muted, gains, atts) ==
  LET mul == RoleMultiplier(n.roles, gains)
      over == RoleOverride(n.roles, atts)
  IN [n EXCEPT !.roleMuted = n.roles \cap muted # {},
               !.mul = mul, !.factor = n.gain * mul,
               !.over = over, !.exponent = IF over = None THEN n.att ELSE over]

\* Seeded bug: the entity mute is looked up on the listener.
ShouldIncludePeer_OwnMute(l, p) ==
  /\ l # p
  /\ nodes[l].solos = {} => ~nodes[l].spaceMuted
  /\ nodes[l].solos # {} => p \in nodes[l].solos

\* Whether listener l hears peer p.  Sub-spaces come first, a solo beats every
\* mute, and a personal mute works both ways.
ShouldIncludePeer(l, p) ==
  LET e == nodes[l]
      peer == nodes[p]
  IN /\ l # p
     /\ e.subspaces \cup peer.subspaces # {} => e.subspaces \cap peer.subspaces # {}
     /\ IF e.solos # {} THEN p \in e.solos
        ELSE /\ ~peer.spaceMuted
             /\ ~peer.roleMuted
             /\ e.muteRoles \cap peer.roles = {}
             /\ p \notin e.mutes
             /\ l \notin peer.mutes

-------------------------------------------------------------------------------
(* The connection side: admission, publication, commands, departure.       *)

\* A client may not write what lives and dies with another's connection.
Foreign(op, by) == by # Nobody /\ ~IsPolicy(op.key) /\ op.key.about # by

\* handleStringMessage, on a batch by one author: the ops share one op id, if
\* any is left; each goes to the cache and, unless the tee holds a newer one, to
\* the tee.
HandleStringMessage(batch, by) ==
  LET ops == {op \in batch : ~Foreign(op, by)}
      Entry(k) == LET op == CHOOSE op \in ops : op.key = k
                  IN [tomb |-> op.tomb, val |-> op.val, id |-> opId + 1, by |-> by]
      keys == {op.key : op \in ops}
      newer == {k \in keys : k \in DOMAIN opChanges => opId + 1 >= opChanges[k].id}
  IN /\ opId' = IF ops = {} THEN opId ELSE opId + 1
     /\ cache' = [k \in DOMAIN cache \cup keys |-> IF k \in keys THEN Entry(k) ELSE cache[k]]
     /\ opChanges' = [k \in DOMAIN opChanges \cup newer |->
                        IF k \in newer THEN Entry(k) ELSE opChanges[k]]

\* newConnectionHandler: the node cap counts the nodes the mixer has added.
Admit(u) ==
  /\ u \notin live
  /\ admits < MaxAdmits
  /\ Cardinality(DOMAIN nodes) < MaxSources
  /\ live' = live \cup {u}
  /\ admits' = admits + 1
  /\ changes' = changes \o << [do |-> "add", uuid |-> u], [do |-> "enable_out", uuid |-> u] >>
  /\ UNCHANGED <<leaving, busVars, teeVars, ticking, nodeVars, roleVars, missed>>

RoleKey(u, r) == Key("entity", u, "roles", r)

\* sendEntity: the roles of the ticket, as one batch, every few seconds.
PublishEntity(u) ==
  /\ u \in live \ leaving
  /\ HolderRoles[u] # {}
  /\ opId < MaxMessages
  /\ HandleStringMessage(
       {[key |-> RoleKey(u, r), tomb |-> FALSE, val |-> 1] : r \in HolderRoles[u]}, u)
  /\ UNCHANGED <<connVars, draining, changes, ticking, nodeVars, roleVars, missed>>

\* HandleCommand: anything that does not dispatch is dropped in silence.
HandleCommand(u, request) ==
  /\ u \in live \ leaving
  /\ Dispatchable(u, request[1], request[2], request[3])
  /\ opId < MaxMessages
  /\ HandleStringMessage({OpOf(u, request[1], request[2], request[3])}, u)
  /\ UNCHANGED <<connVars, draining, changes, ticking, nodeVars, roleVars, missed>>

\* DepartNode: the connection's own writes are over (Quiesce, Bouncer.Stop) when
\* the keys tied to it are tombstoned.  Policy keys stay.
AnnounceDeparture(u) ==
  LET tied == {k \in DOMAIN cache : k.about = u /\ ~IsPolicy(k) /\ ~cache[k].tomb}
  IN /\ u \in live \ leaving
     /\ admits - Cardinality(live \ leaving) < MaxDeparts
     /\ leaving' = leaving \cup {u}
     /\ IF tied = {} THEN UNCHANGED <<busVars, opChanges>>
        ELSE HandleStringMessage({[key |-> k, tomb |-> TRUE, val |-> 0] : k \in tied}, Nobody)
     /\ UNCHANGED <<live, admits, draining, changes, ticking, nodeVars, roleVars, missed>>

\* The mixer is told, and the handler leaves the maps.
Depart(u) ==
  /\ u \in leaving
  /\ live' = live \ {u}
  /\ leaving' = leaving \ {u}
  /\ changes' = Append(changes, [do |-> "delete", uuid |-> u])
  /\ UNCHANGED <<admits, busVars, teeVars, ticking, nodeVars, roleVars, missed>>

-------------------------------------------------------------------------------
(* The mixer goroutine: Process, once per tick.                            *)

\* processOpChanges swaps the tee for an empty one.  A tick with nothing to
\* apply renders the frame of the tick before and is left out.
StartTick ==
  /\ ~ticking
  /\ opChanges # Empty \/ changes # <<>>
  /\ ticking' = TRUE
  /\ draining' = opChanges
  /\ opChanges' = Empty
  /\ UNCHANGED <<connVars, busVars, changes, nodeVars, roleVars, missed>>

\* Seeded bug: an un-mute of an entity is not told from a mute.
Mutated_UnmuteMutes(u, n, k, op) ==
  IF k.field = "muted" THEN [n EXCEPT !.spaceMuted = TRUE]
  ELSE IF k.field = "roles"
       THEN [n EXCEPT !.roles = Toggle(n.roles, k.arg, op.tomb)]
  ELSE n

\* What an op does to the encoder of the node it is about.  Markers, kicks and
\* sub-space keys do not concern the mixer.
Mutated(u, n, k, op) ==
  CASE k.field = "gain" -> SetGain(n, IF op.tomb THEN Config[u].gain ELSE op.val)
    [] k.field = "attenuation" -> SetAttenuation(n, IF op.tomb THEN Config[u].att ELSE op.val)
    [] k.field = "muted" -> [n EXCEPT !.spaceMuted = ~op.tomb]
    [] k.field = "roles" ->
         RefreshEncoderRoleEffects([n EXCEPT !.roles = Toggle(n.roles, k.arg, op.tomb)],
                                   mutedRoles, roleGains, roleAtts)
    [] k.field = "mutes" -> [n EXCEPT !.mutes = Toggle(n.mutes, k.arg, op.tomb)]
    [] k.field = "solos" -> [n EXCEPT !.solos = Toggle(n.solos, k.arg, op.tomb)]
    [] k.field = "mute-roles" -> [n EXCEPT !.muteRoles = Toggle(n.muteRoles, k.arg, op.tomb)]
    [] OTHER -> n

\* applyEntityOp: an op about a node the mixer does not have is skipped.
ApplyEntityOp(k) ==
  /\ ticking
  /\ k \in DOMAIN draining
  /\ k.topic = "entity"
  /\ draining' = Del(draining, k)
  /\ IF k.about \in DOMAIN nodes
     THEN /\ nodes' = [nodes EXCEPT ![k.about] = Mutated(k.about, @, k, draining[k])]
          /\ missed' = missed \ {k}
     ELSE /\ missed' = missed \cup {k}
          /\ UNCHANGED nodes
  /\ UNCHANGED <<connVars, busVars, opChanges, changes, ticking, slots, roleVars>>

\* The role rule an op sets or unsets.
RuleAfter(rules, op, role) ==
  IF op.tomb THEN Del(rules, role) ELSE Put(rules, role, op.val)

\* applySpaceOp: the rule changes and the encoders that hold the role follow.
ApplySpaceOp(k) ==
  /\ ticking
  /\ k \in DOMAIN draining
  /\ k.topic = "space"
  /\ draining' = Del(draining, k)
  /\ mutedRoles' = IF k.field = "roles-muted" THEN Toggle(mutedRoles, k.arg, draining[k].tomb)
                   ELSE mutedRoles
  /\ roleGains' = IF k.field = "roles-gain" THEN RuleAfter(roleGains, draining[k], k.arg)
                  ELSE roleGains
  /\ roleAtts' = IF k.field = "roles-attenuation" THEN RuleAfter(roleAtts, draining[k], k.arg)
                 ELSE roleAtts
  /\ nodes' = [u \in DOMAIN nodes |->
                 IF k.arg \in nodes[u].roles
                 THEN RefreshEncoderRoleEffects(nodes[u], mutedRoles', roleGains', roleAtts')
                 ELSE nodes[u]]
  /\ UNCHANGED <<connVars, busVars, opChanges, changes, ticking, slots, missed>>

\* The first free slot, or a new one at the end.
FreeSlot == LET free == {i \in DOMAIN slots : slots[i] = Nobody}
            IN IF free = {} THEN Len(slots) + 1 ELSE Min(free)

\* processChanges comes after the ops and takes the queue as it is.
TakeChange(do) ==
  /\ ticking
  /\ draining = Empty
  /\ changes # <<>>
  /\ Head(changes).do = do
  /\ changes' = Tail(changes)
  /\ UNCHANGED <<connVars, busVars, teeVars, ticking, roleVars>>

\* doAddNode: a duplicate is refused.  No rule or key already in force is
\* looked up for the new node.
DoAddNode ==
  LET u == Head(changes).uuid
  IN /\ TakeChange("add")
     /\ IF u \in DOMAIN nodes THEN UNCHANGED nodeVars
        ELSE /\ nodes' = Put(nodes, u, NewEncoder(u, FreeSlot))
             /\ slots' = IF FreeSlot > Len(slots) THEN Append(slots, u)
                         ELSE [slots EXCEPT ![FreeSlot] = u]
     /\ UNCHANGED missed

\* doEnableOutputNode: the output is the mapped handler, if there still is one.
DoEnableOutputNode ==
  LET u == Head(changes).uuid
  IN /\ TakeChange("enable_out")
     /\ nodes' = IF u \in DOMAIN nodes THEN [nodes EXCEPT ![u].out = u \in live] ELSE nodes
     /\ UNCHANGED <<slots, missed>>

\* doRemoveNode: the encoder and all that was applied to it are gone.
DoRemoveNode ==
  LET u == Head(changes).uuid
  IN /\ TakeChange("delete")
     /\ IF u \in DOMAIN nodes
        THEN /\ nodes' = Del(nodes, u)
             /\ slots' = [slots EXCEPT ![nodes[u].slot] = Nobody]
             /\ missed' = missed \cup {k \in DOMAIN cache : k.about = u}
        ELSE UNCHANGED <<nodeVars, missed>>

\* render: EncodePeers of every node with an output, then PostMix.  Without a
\* peer to mix, ClearOutput clears the dry output and leaves the reverb send.
EncodePeers(l) ==
  LET heard == {p \in DOMAIN nodes : nodes[p].input /\ ShouldIncludePeer(l, p)}
  IN IF ~nodes[l].out THEN nodes[l]
     ELSE [nodes[l] EXCEPT !.dry = heard,
                           !.wet = IF heard = {} \/ ~ReverbOn THEN @ ELSE heard]

Render ==
  /\ ticking
  /\ draining = Empty
  /\ changes = <<>>
  /\ nodes' = [l \in DOMAIN nodes |-> EncodePeers(l)]
  /\ ticking' = FALSE
  /\ UNCHANGED <<connVars, busVars, teeVars, changes, slots, roleVars, missed>>

-------------------------------------------------------------------------------
Init ==
  /\ live = {} /\ leaving = {} /\ admits = 0
  /\ opId = 0 /\ cache = Empty
  /\ opChanges = Empty /\ draining = Empty
  /\ changes = <<>> /\ ticking = FALSE
  /\ nodes = Empty /\ slots = <<>>
  /\ mutedRoles = {} /\ roleGains = Empty /\ roleAtts = Empty
  /\ missed = {}

Next ==
  \/ \E u \in Uuids : Admit(u) \/ PublishEntity(u) \/ AnnounceDeparture(u) \/ Depart(u)
  \/ \E u \in Uuids, request \in Requests : HandleCommand(u, request)
  \/ StartTick
  \/ \E k \in DOMAIN draining : ApplyEntityOp(k) \/ ApplySpaceOp(k)
  \/ DoAddNode \/ DoEnableOutputNode \/ DoRemoveNode
  \/ Render

Spec == Init /\ [][Next]_vars

-------------------------------------------------------------------------------
(* Properties.                                                             *)

\* What an encoder caches of the role rules is what a fresh computation gives:
\* every change of a node's roles, of its own gain or attenuation and of the
\* rules of any role refreshes all that depend on it, in whatever order a tick
\* applies them (RefreshEncoderRoleEffects and its callers).
RoleEffectsFresh ==
  \A u \in DOMAIN nodes :
    LET n == nodes[u]
        over == RoleOverride(n.roles, roleAtts)
    IN /\ n.roleMuted = (n.roles \cap mutedRoles # {})
       /\ n.mul = RoleMultiplier(n.roles, roleGains)
       /\ n.factor = n.gain * n.mul
       /\ n.over = over
       /\ n.exponent = IF over = None THEN n.att ELSE over

InForce(k) == k \in DOMAIN cache /\ ~cache[k].tomb
Drained(k) == k \notin DOMAIN opChanges \cup DOMAIN draining
Settled(k) == Drained(k) /\ k \notin missed

NodeFollowsCache(u) ==
  LET n == nodes[u]
      K(field, arg) == Key("entity", u, field, arg)
      LevelOf(k, default) == IF InForce(k) THEN cache[k].val ELSE default
  IN /\ Settled(K("muted", Nobody)) => n.spaceMuted = InForce(K("muted", Nobody))
     /\ Settled(K("gain", Nobody)) => n.gain = LevelOf(K("gain", Nobody), Config[u].gain)
     /\ Settled(K("attenuation", Nobody)) =>
          n.att = LevelOf(K("attenuation", Nobody), Config[u].att)
     /\ \A v \in Uuids :
          /\ Settled(K("mutes", v)) => (v \in n.mutes) = InForce(K("mutes", v))
          /\ Settled(K("solos", v)) => (v \in n.solos) = InForce(K("solos", v))
     /\ \A r \in Roles :
          /\ Settled(K("roles", r)) => (r \in n.roles) = InForce(K("roles", r))
          /\ Settled(K("mute-roles", r)) => (r \in n.muteRoles) = InForce(K("mute-roles", r))

RulesFollowCache ==
  \A r \in Roles :
    LET K(field) == Key("space", Nobody, field, r)
        Follows(k, rules) ==
          Drained(k) => /\ (r \in DOMAIN rules) = InForce(k)
                        /\ InForce(k) => rules[r] = cache[k].val
    IN /\ Drained(K("roles-muted")) => (r \in mutedRoles) = InForce(K("roles-muted"))
       /\ Follows(K("roles-gain"), roleGains)
       /\ Follows(K("roles-attenuation"), roleAtts)

\* Of every key the tee has drained, the mixer's state is the cache's: no op is
\* lost, applied twice with another effect, or overtaken by an older one on the
\* way from the dispatcher (enqueueOp, processOpChanges).  The exception is
\* exact: the keys last drained while their node was not in the mix.
PolicyFollowsCache ==
  RulesFollowCache /\ \A u \in DOMAIN nodes : NodeFollowsCache(u)

\* A frame does not carry a peer muted for the whole space, except to those
\* who solo it, and in the reverb send of a listener who has nobody else to
\* hear, where the last frame that was mixed stays (EncodePeers, ClearOutput).
MutedUnheard ==
  \A u \in DOMAIN nodes, l \in DOMAIN nodes :
    LET k == Key("entity", u, "muted", Nobody)
    IN (~ticking /\ InForce(k) /\ Settled(k) /\ u \notin nodes[l].solos) =>
         /\ u \notin nodes[l].dry
         /\ u \in nodes[l].wet => nodes[l].dry = {}

Moderates(u) == HolderRoles[u] \cap {"admin", "moderator"} # {}
Hears(l, p) == {l, p} \subseteq DOMAIN nodes /\ ShouldIncludePeer(l, p)

\* An op written by someone without a moderating role changes who is heard
\* only between its author and others, never between two third parties,
\* whatever mutes, solos and roles are already there.
OnlyModeratorsPart ==
  [][\A k \in DOMAIN draining \ DOMAIN draining' :
       \A l \in Uuids, p \in Uuids :
         Hears(l, p)' # Hears(l, p) =>
           \/ draining[k].by = Nobody
           \/ draining[k].by \in {l, p}
           \/ Moderates(draining[k].by)]_vars

\* "Ops can arrive ahead of an entity's add [...] and the cache replays them
\* after" (base_space_mutators.go): an entity muted for the space is muted once
\* it is in the mix and the tee is empty.  Nothing replays.
MuteSurvivesRejoin ==
  \A u \in DOMAIN nodes :
    LET k == Key("entity", u, "muted", Nobody)
    IN (~ticking /\ InForce(k) /\ Drained(k)) => nodes[u].spaceMuted
================================================================================
