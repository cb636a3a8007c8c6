--------------------------- MODULE SpacePolicy_proofs ---------------------------
(***************************************************************************)
(* Policy in the mix, for any identities, roles, tickets, configurations   *)
(* and commands: the mixer's state is the cache's, what it derives from it *)
(* is up to date, and a frame keeps to it.                                 *)
(*                                                                         *)
(* None of the properties is inductive.  What the mixer shows of a key     *)
(* depends on what the tee still holds of it, on what it has missed and on *)
(* which keys there may be (Mirror); what a frame carries depends on the   *)
(* order of the queued changes, by which an encoder is given its output    *)
(* once, while it is silent (Order, FramesFollow).                         *)
(***************************************************************************)
EXTENDS SpacePolicy, TLAPS

USE CommandsAssumption, PolicyAssumption

-------------------------------------------------------------------------------
(* Keys, and the ops on their way from the dispatcher to the mixer.        *)

\* A command of the catalogue writes a field of an entity alone, with no
\* argument, or a rule of the space, which is about nobody.
KeyShape(k) ==
  /\ k = Key(k.topic, k.about, k.field, k.arg)
  /\ k.topic = "entity" /\ k.field \in {"muted", "gain", "attenuation"} => k.arg = Nobody
  /\ k.topic = "space" => k.about = Nobody

\* Who does not moderate writes about himself.
Authored(k, by) ==
  \/ by = Nobody
  \/ Moderates(by)
  \/ k.topic = "entity" /\ k.about = by

WellFormed(k, op) == KeyShape(k) /\ op.tomb \in BOOLEAN /\ Authored(k, op.by)

\* The tee holds what the cache holds; what was swapped out is what the cache
\* holds unless the tee has something newer.
TeeFollowsCache ==
  /\ opId \in Nat
  /\ \A k \in DOMAIN cache : WellFormed(k, cache[k]) /\ cache[k].id \in Nat /\ cache[k].id <= opId
  /\ \A k \in DOMAIN opChanges : k \in DOMAIN cache /\ opChanges[k] = cache[k]
  /\ \A k \in DOMAIN draining : k \in DOMAIN cache /\ WellFormed(k, draining[k])
  /\ \A k \in DOMAIN draining \ DOMAIN opChanges : draining[k] = cache[k]
  /\ ~ticking => DOMAIN draining = {}

-------------------------------------------------------------------------------
(* Encoders.                                                               *)

EncoderFields == {"slot", "input", "out", "gain", "att", "subspaces", "roles", "mutes", "solos",
                  "muteRoles", "spaceMuted", "roleMuted", "mul", "over", "factor", "exponent",
                  "dry", "wet"}

Change == [do : {"add", "enable_out", "delete"}, uuid : Uuids]

MixTypes ==
  /\ live \subseteq Uuids
  /\ changes \in Seq(Change)
  /\ ticking \in BOOLEAN
  /\ DOMAIN nodes \subseteq Uuids
  /\ \A u \in DOMAIN nodes : DOMAIN nodes[u] = EncoderFields /\ nodes[u].spaceMuted \in BOOLEAN

-------------------------------------------------------------------------------
(* The mixer follows the cache, key by key.                                *)

EntityKeys(u) ==
  {Key("entity", u, f, Nobody) : f \in {"muted", "gain", "attenuation"}}
  \cup {Key("entity", u, f, v) : f \in {"mutes", "solos"}, v \in Uuids}
  \cup {Key("entity", u, f, r) : f \in {"roles", "mute-roles"}, r \in Roles}

\* An encoder of u shows of key k what op says: its value, or the key unset.
Shows(n, u, k, op) ==
  /\ k.field = "muted" => (n.spaceMuted <=> ~op.tomb)
  /\ k.field = "gain" => n.gain = IF op.tomb THEN Config[u].gain ELSE op.val
  /\ k.field = "attenuation" => n.att = IF op.tomb THEN Config[u].att ELSE op.val
  /\ k.field = "mutes" => (k.arg \in n.mutes <=> ~op.tomb)
  /\ k.field = "solos" => (k.arg \in n.solos <=> ~op.tomb)
  /\ k.field = "roles" => (k.arg \in n.roles <=> ~op.tomb)
  /\ k.field = "mute-roles" => (k.arg \in n.muteRoles <=> ~op.tomb)

NoOp == [tomb |-> TRUE, val |-> 0]
Latest(k) == IF k \in DOMAIN cache THEN cache[k] ELSE NoOp

NodesFollow ==
  \A u \in DOMAIN nodes : \A k \in EntityKeys(u) : Settled(k) => Shows(nodes[u], u, k, Latest(k))

\* Keys about a node that is not in the mix will not have reached it.
AbsentMiss ==
  \A u \in Uuids \ DOMAIN nodes : \A k \in EntityKeys(u) : k \in DOMAIN cache => ~Settled(k)

\* The rules of the space follow in the same way.
RuleKeys == {Key("space", Nobody, f, r) : f \in {"roles-muted", "roles-gain", "roles-attenuation"}, r \in Roles}

RuleShows(rules, r, op) ==
  /\ r \in DOMAIN rules <=> ~op.tomb
  /\ ~op.tomb => rules[r] = op.val

RulesFollow ==
  \A k \in RuleKeys : Drained(k) =>
    /\ k.field = "roles-muted" => (k.arg \in mutedRoles <=> ~Latest(k).tomb)
    /\ k.field = "roles-gain" => RuleShows(roleGains, k.arg, Latest(k))
    /\ k.field = "roles-attenuation" => RuleShows(roleAtts, k.arg, Latest(k))

-------------------------------------------------------------------------------
(* The order of the changes, and what it means for a frame.                *)

Added(u) == [do |-> "add", uuid |-> u]
Deleted(u) == [do |-> "delete", uuid |-> u]
DeletedBetween(c, u, i, j) == \E m \in DOMAIN c : i < m /\ m < j /\ c[m] = Deleted(u)

\* Between two adds of an identity there is a delete, nobody is added who is in
\* the mix, and who has no connection is on the way out.
AddsApart(c, mixed, connected) ==
  \A u \in Uuids :
    /\ \A i \in DOMAIN c, j \in DOMAIN c :
         i < j /\ c[i] = Added(u) /\ c[j] = Added(u) => DeletedBetween(c, u, i, j)
    /\ \A j \in DOMAIN c : u \in mixed /\ c[j] = Added(u) => DeletedBetween(c, u, 0, j)
    /\ u \notin connected =>
         /\ \A i \in DOMAIN c : c[i] = Added(u) => DeletedBetween(c, u, i, Len(c) + 1)
         /\ u \in mixed => DeletedBetween(c, u, 0, Len(c) + 1)

\* An output is enabled right after its node is added, so it is the first.
EnablesFollowAdds(c) ==
  \A i \in DOMAIN c : i > 1 /\ c[i].do = "enable_out" => c[i - 1] = Added(c[i].uuid)

FirstOutput ==
  changes # <<>> /\ Head(changes).do = "enable_out" /\ Head(changes).uuid \in DOMAIN nodes =>
    ~nodes[Head(changes).uuid].out

Order == AddsApart(changes, DOMAIN nodes, live) /\ EnablesFollowAdds(changes) /\ FirstOutput

Heard(l) == {p \in DOMAIN nodes : nodes[p].input /\ ShouldIncludePeer(l, p)}

\* Nothing goes out of an encoder without an output, nor into the reverb send
\* when there is no reverb; between two ticks the output is what is heard.
FramesFollow ==
  \A l \in DOMAIN nodes :
    /\ ~nodes[l].out => nodes[l].dry = {} /\ nodes[l].wet = {}
    /\ ~ReverbOn => nodes[l].wet = {}
    /\ ~ticking /\ nodes[l].out => /\ nodes[l].dry = Heard(l)
                                   /\ nodes[l].dry = {} \/ nodes[l].wet \in {{}, nodes[l].dry}

-------------------------------------------------------------------------------
(* What a command writes.                                                  *)

\* The fields of the catalogue.
LEMMA CatalogueFields ==
  /\ \A n \in DOMAIN EntityCommands : EntityCommands[n].unsets \in BOOLEAN
  /\ \A n \in DOMAIN RoleCommands : RoleCommands[n].unsets \in BOOLEAN
  /\ \A n \in DOMAIN PersonalEntityCommands :
       /\ PersonalEntityCommands[n].field \in {"mutes", "solos"}
       /\ PersonalEntityCommands[n].unsets \in BOOLEAN
  /\ \A n \in DOMAIN PersonalRoleCommands :
       /\ PersonalRoleCommands[n].field = "mute-roles"
       /\ PersonalRoleCommands[n].unsets \in BOOLEAN
<1>1. \A n \in DOMAIN EntityCommands : EntityCommands[n].unsets \in BOOLEAN
  <2>1. DOMAIN EntityCommands =
          {"mute", "unmute", "kick", "unkick", "set_gain", "set_attenuation"}
    BY DEF EntityCommands
  <2>2. EntityCommands.mute.unsets \in BOOLEAN
    BY DEF EntityCommands, Writes
  <2>3. EntityCommands.unmute.unsets \in BOOLEAN
    BY DEF EntityCommands, Writes
  <2>4. EntityCommands.kick.unsets \in BOOLEAN
    BY DEF EntityCommands, Writes
  <2>5. EntityCommands.unkick.unsets \in BOOLEAN
    BY DEF EntityCommands, Writes
  <2>6. EntityCommands.set_gain.unsets \in BOOLEAN
    BY DEF EntityCommands, Writes
  <2>7. EntityCommands.set_attenuation.unsets \in BOOLEAN
    BY DEF EntityCommands, Writes
  <2>8. QED
    BY <2>1, <2>2, <2>3, <2>4, <2>5, <2>6, <2>7
<1>2. \A n \in DOMAIN RoleCommands : RoleCommands[n].unsets \in BOOLEAN
  <2>1. DOMAIN RoleCommands =
          {"mute", "unmute", "kick", "unkick", "set_gain", "unset_gain", "set_attenuation", "unset_attenuation"}
    BY DEF RoleCommands
  <2>2. RoleCommands.mute.unsets \in BOOLEAN
    BY DEF RoleCommands, Writes
  <2>3. RoleCommands.unmute.unsets \in BOOLEAN
    BY DEF RoleCommands, Writes
  <2>4. RoleCommands.kick.unsets \in BOOLEAN
    BY DEF RoleCommands, Writes
  <2>5. RoleCommands.unkick.unsets \in BOOLEAN
    BY DEF RoleCommands, Writes
  <2>6. RoleCommands.set_gain.unsets \in BOOLEAN
    BY DEF RoleCommands, Writes
  <2>7. RoleCommands.unset_gain.unsets \in BOOLEAN
    BY DEF RoleCommands, Writes
  <2>8. RoleCommands.set_attenuation.unsets \in BOOLEAN
    BY DEF RoleCommands, Writes
  <2>9. RoleCommands.unset_attenuation.unsets \in BOOLEAN
    BY DEF RoleCommands, Writes
  <2>10. QED
    BY <2>1, <2>2, <2>3, <2>4, <2>5, <2>6, <2>7, <2>8, <2>9
<1>3. \A n \in DOMAIN PersonalEntityCommands :
        /\ PersonalEntityCommands[n].field \in {"mutes", "solos"}
        /\ PersonalEntityCommands[n].unsets \in BOOLEAN
  <2>1. DOMAIN PersonalEntityCommands =
          {"mute", "unmute", "solo", "unsolo"}
    BY DEF PersonalEntityCommands
  <2>2. PersonalEntityCommands.mute.field \in {"mutes", "solos"} /\ PersonalEntityCommands.mute.unsets \in BOOLEAN
    BY DEF PersonalEntityCommands, Writes
  <2>3. PersonalEntityCommands.unmute.field \in {"mutes", "solos"} /\ PersonalEntityCommands.unmute.unsets \in BOOLEAN
    BY DEF PersonalEntityCommands, Writes
  <2>4. PersonalEntityCommands.solo.field \in {"mutes", "solos"} /\ PersonalEntityCommands.solo.unsets \in BOOLEAN
    BY DEF PersonalEntityCommands, Writes
  <2>5. PersonalEntityCommands.unsolo.field \in {"mutes", "solos"} /\ PersonalEntityCommands.unsolo.unsets \in BOOLEAN
    BY DEF PersonalEntityCommands, Writes
  <2>6. QED
    BY <2>1, <2>2, <2>3, <2>4, <2>5
<1>4. \A n \in DOMAIN PersonalRoleCommands :
        /\ PersonalRoleCommands[n].field = "mute-roles"
        /\ PersonalRoleCommands[n].unsets \in BOOLEAN
  <2>1. DOMAIN PersonalRoleCommands =
          {"mute", "unmute"}
    BY DEF PersonalRoleCommands
  <2>2. PersonalRoleCommands.mute.field = "mute-roles" /\ PersonalRoleCommands.mute.unsets \in BOOLEAN
    BY DEF PersonalRoleCommands, Writes
  <2>3. PersonalRoleCommands.unmute.field = "mute-roles" /\ PersonalRoleCommands.unmute.unsets \in BOOLEAN
    BY DEF PersonalRoleCommands, Writes
  <2>4. QED
    BY <2>1, <2>2, <2>3
<1>5. QED
  BY <1>1, <1>2, <1>3, <1>4

LEMMA NamesOfCatalogue ==
  ASSUME NEW name \in Names
  PROVE  \/ name[1] = "space" /\ name[2] = "entity" /\ name[3] \in DOMAIN EntityCommands
         \/ name[1] = "space" /\ name[2] = "role" /\ name[3] \in DOMAIN RoleCommands
         \/ name[1] = "personal" /\ name[2] = "entity" /\ name[3] \in DOMAIN PersonalEntityCommands
         \/ name[1] = "personal" /\ name[2] = "role" /\ name[3] \in DOMAIN PersonalRoleCommands
<1>1. name[1] \in {"space", "personal"} /\ name[2] \in {"entity", "role"}
  BY DEF Names
<1>2. name[3] \in DOMAIN Catalogue[name[1]][name[2]]
  BY DEF Names
<1>3. /\ Catalogue["space"]["entity"] = EntityCommands
      /\ Catalogue["space"]["role"] = RoleCommands
      /\ Catalogue["personal"]["entity"] = PersonalEntityCommands
      /\ Catalogue["personal"]["role"] = PersonalRoleCommands
  BY DEF Catalogue
<1>4. QED
  BY <1>1, <1>2, <1>3

\* Only moderators are granted a command of the space.
LEMMA SpaceCommandsModerate ==
  ASSUME NEW u \in Uuids, NEW name \in Names, name[1] = "space", IsCommandAllowed(u, name)
  PROVE  Moderates(u)
<1>1. PICK role \in HolderRoles[u] \cup {"everyone"} : RoleGrants(role, name)
  BY DEF IsCommandAllowed
<1>2. role \in {"everyone", "admin", "moderator", "performer", "audience"}
  BY <1>1 DEF RoleGrants, DefaultRolePermissions
<1>3. role \notin {"everyone", "performer", "audience"}
  <2>1. name # <<"personal", "entity", "solo">> /\ name # <<"personal", "entity", "unsolo">>
    OBVIOUS
  <2>2. /\ \A x \in DefaultRolePermissions["everyone"] : x[1] = "personal"
        /\ \A x \in DefaultRolePermissions["performer"] : x[1] = "personal"
        /\ DefaultRolePermissions["audience"] = {}
    BY DEF DefaultRolePermissions
  <2>3. QED
    BY <1>1, <2>2 DEF RoleGrants
<1>4. QED
  BY <1>1, <1>2, <1>3 DEF Moderates

LEMMA CommandWellFormed ==
  ASSUME NEW u \in Uuids, NEW name, NEW arg, NEW value, Dispatchable(u, name, arg, value)
  PROVE  /\ KeyShape(OpOf(u, name, arg, value).key)
         /\ OpOf(u, name, arg, value).tomb \in BOOLEAN
         /\ Authored(OpOf(u, name, arg, value).key, u)
<1> DEFINE spec == Catalogue[name[1]][name[2]][name[3]]
           op == OpOf(u, name, arg, value)
<1>1. name \in Names /\ IsCommandAllowed(u, name)
  BY DEF Dispatchable
<1>2. op.key = KeyOf(u, name, arg) /\ op.tomb = spec.unsets
  BY DEF OpOf
<1>3. /\ Catalogue["space"]["entity"] = EntityCommands
      /\ Catalogue["space"]["role"] = RoleCommands
      /\ Catalogue["personal"]["entity"] = PersonalEntityCommands
      /\ Catalogue["personal"]["role"] = PersonalRoleCommands
  BY DEF Catalogue
<1>4. CASE name[1] = "space"
  <2>1. Moderates(u)
    BY <1>1, <1>4, SpaceCommandsModerate
  <2>2. spec.unsets \in BOOLEAN
    BY <1>1, <1>3, <1>4, NamesOfCatalogue, CatalogueFields
  <2>3. \/ op.key = Key("entity", arg, spec.field, Nobody)
        \/ op.key = Key("space", Nobody, spec.field, arg)
    BY <1>2, <1>4 DEF KeyOf
  <2>4. KeyShape(op.key)
    BY <2>3 DEF KeyShape, Key
  <2>5. QED
    BY <1>2, <2>1, <2>2, <2>4 DEF Authored
<1>5. CASE name[1] = "personal"
  <2>1. spec.field \in {"mutes", "solos", "mute-roles"} /\ spec.unsets \in BOOLEAN
    BY <1>1, <1>3, <1>5, NamesOfCatalogue, CatalogueFields
  <2>2. op.key = Key("entity", u, spec.field, arg)
    BY <1>2, <1>5 DEF KeyOf
  <2>3. KeyShape(op.key) /\ op.key.topic = "entity" /\ op.key.about = u
    BY <2>1, <2>2 DEF KeyShape, Key
  <2>4. QED
    BY <1>2, <2>1, <2>3 DEF Authored
<1>6. QED
  BY <1>1, <1>4, <1>5, NamesOfCatalogue

-------------------------------------------------------------------------------
(* The tee.                                                                *)

LEMMA InitTee == Init => TeeFollowsCache
  BY DEF Init, TeeFollowsCache, Empty

\* A key that is drained after the step was drained before, and the cache holds
\* of it what it held.
Untouched(k) ==
  Drained(k)' =>
    /\ Drained(k)
    /\ k \in DOMAIN cache' <=> k \in DOMAIN cache
    /\ k \in DOMAIN cache => cache'[k] = cache[k]

LEMMA HandledMessage ==
  ASSUME TeeFollowsCache, NEW batch, NEW by, HandleStringMessage(batch, by), UNCHANGED <<draining, ticking>>,
         \A op \in batch : KeyShape(op.key) /\ op.tomb \in BOOLEAN /\ Authored(op.key, by)
  PROVE  TeeFollowsCache' /\ \A k : Untouched(k)
<1> DEFINE ops == {op \in batch : ~Foreign(op, by)}
           E(k) == LET op == CHOOSE op \in ops : op.key = k
                   IN [tomb |-> op.tomb, val |-> op.val, id |-> opId + 1, by |-> by]
           keys == {op.key : op \in ops}
           newer == {k \in keys : k \in DOMAIN opChanges => opId + 1 >= opChanges[k].id}
<1>1. /\ opId' = IF ops = {} THEN opId ELSE opId + 1
      /\ cache' = [k \in DOMAIN cache \cup keys |-> IF k \in keys THEN E(k) ELSE cache[k]]
      /\ opChanges' = [k \in DOMAIN opChanges \cup newer |-> IF k \in newer THEN E(k) ELSE opChanges[k]]
  BY DEF HandleStringMessage
<1>2. newer = keys
  BY DEF TeeFollowsCache
<1>3. ASSUME NEW k \in keys PROVE WellFormed(k, E(k)) /\ E(k).id = opId + 1
  <2> DEFINE op == CHOOSE op \in ops : op.key = k
  <2>1. op \in ops /\ op.key = k
    OBVIOUS
  <2>2. KeyShape(k) /\ op.tomb \in BOOLEAN /\ Authored(k, by)
    BY <2>1
  <2> HIDE DEF op
  <2>3. E(k) = [tomb |-> op.tomb, val |-> op.val, id |-> opId + 1, by |-> by]
    BY DEF op
  <2>4. QED
    BY <2>2, <2>3 DEF WellFormed
<1>4. keys # {} => ops # {}
  OBVIOUS
<1> HIDE DEF ops, E, keys, newer
<1>5. /\ DOMAIN cache' = DOMAIN cache \cup keys
      /\ DOMAIN opChanges' = DOMAIN opChanges \cup keys
      /\ \A k \in keys : cache'[k] = E(k) /\ opChanges'[k] = E(k)
      /\ \A k \in DOMAIN cache \ keys : cache'[k] = cache[k]
      /\ \A k \in DOMAIN opChanges \ keys : opChanges'[k] = opChanges[k]
  BY <1>1, <1>2
<1>6. opId \in Nat /\ opId' \in Nat /\ opId <= opId' /\ (keys # {} => opId' = opId + 1)
  BY <1>1, <1>4 DEF TeeFollowsCache
<1>7. ASSUME NEW k \in DOMAIN cache'
      PROVE  WellFormed(k, cache'[k]) /\ cache'[k].id \in Nat /\ cache'[k].id <= opId'
  <2>1. CASE k \in keys
    BY <1>3, <1>5, <1>6, <2>1
  <2>2. CASE k \notin keys
    BY <1>5, <1>6, <2>2 DEF TeeFollowsCache
  <2>3. QED
    BY <2>1, <2>2
<1>8. \A k \in DOMAIN opChanges' : k \in DOMAIN cache' /\ opChanges'[k] = cache'[k]
  BY <1>5 DEF TeeFollowsCache
<1>9. \A k \in DOMAIN draining : k \in DOMAIN cache' /\ WellFormed(k, draining[k])
  BY <1>5 DEF TeeFollowsCache
<1>10. \A k \in DOMAIN draining \ DOMAIN opChanges' : draining[k] = cache'[k]
  BY <1>5 DEF TeeFollowsCache
<1>11. TeeFollowsCache'
  BY <1>6, <1>7, <1>8, <1>9, <1>10 DEF TeeFollowsCache, WellFormed, KeyShape, Authored, Moderates
<1>12. \A k : Untouched(k)
  BY <1>5 DEF Untouched, Drained
<1>13. QED
  BY <1>11, <1>12

Publication(u) ==
  \/ PublishEntity(u)
  \/ \E request \in Requests : HandleCommand(u, request)
  \/ AnnounceDeparture(u)

LEMMA PublicationTee ==
  ASSUME TeeFollowsCache, MixTypes, NEW u \in Uuids, Publication(u)
  PROVE  TeeFollowsCache' /\ (\A k : Untouched(k)) /\ UNCHANGED <<draining, ticking, nodeVars, roleVars, missed>>
<1>1. CASE PublishEntity(u)
  <2> DEFINE batch == {[key |-> RoleKey(u, r), tomb |-> FALSE, val |-> 1] : r \in HolderRoles[u]}
  <2>1. HandleStringMessage(batch, u) /\ UNCHANGED <<draining, ticking, nodeVars, roleVars, missed>>
    BY <1>1 DEF PublishEntity
  <2>2. ASSUME NEW r \in HolderRoles[u]
        PROVE  KeyShape(RoleKey(u, r)) /\ Authored(RoleKey(u, r), u)
    BY DEF KeyShape, RoleKey, Key, Authored
  <2>3. ASSUME NEW op \in batch
        PROVE  KeyShape(op.key) /\ op.tomb \in BOOLEAN /\ Authored(op.key, u)
    <3>1. PICK r \in HolderRoles[u] : op = [key |-> RoleKey(u, r), tomb |-> FALSE, val |-> 1]
      OBVIOUS
    <3>2. op.key = RoleKey(u, r) /\ op.tomb \in BOOLEAN
      BY <3>1
    <3>3. QED
      BY <2>2, <3>2
  <2>4. QED
    BY <2>1, <2>3, HandledMessage
<1>2. ASSUME NEW request \in Requests, HandleCommand(u, request)
      PROVE  TeeFollowsCache' /\ (\A k : Untouched(k)) /\ UNCHANGED <<draining, ticking, nodeVars, roleVars, missed>>
  <2> DEFINE op == OpOf(u, request[1], request[2], request[3])
  <2>1. /\ HandleStringMessage({op}, u) /\ Dispatchable(u, request[1], request[2], request[3])
        /\ UNCHANGED <<draining, ticking, nodeVars, roleVars, missed>>
    BY <1>2 DEF HandleCommand
  <2>2. KeyShape(op.key) /\ op.tomb \in BOOLEAN /\ Authored(op.key, u)
    BY <2>1, CommandWellFormed
  <2> HIDE DEF op
  <2>3. \A x \in {op} : KeyShape(x.key) /\ x.tomb \in BOOLEAN /\ Authored(x.key, u)
    BY <2>2
  <2>4. QED
    BY <2>1, <2>3, HandledMessage
<1>3. CASE AnnounceDeparture(u)
  <2> DEFINE tied == {k \in DOMAIN cache : k.about = u /\ ~IsPolicy(k) /\ ~cache[k].tomb}
             batch == {[key |-> k, tomb |-> TRUE, val |-> 0] : k \in tied}
  <2>1. /\ UNCHANGED <<draining, ticking, nodeVars, roleVars, missed>>
        /\ UNCHANGED <<busVars, opChanges>> \/ HandleStringMessage(batch, Nobody)
    BY <1>3 DEF AnnounceDeparture
  <2>2. \A op \in batch : KeyShape(op.key) /\ op.tomb \in BOOLEAN /\ Authored(op.key, Nobody)
    <3>1. \A k \in tied : KeyShape(k)
      BY DEF TeeFollowsCache, WellFormed
    <3>2. ASSUME NEW op \in batch
          PROVE  KeyShape(op.key) /\ op.tomb \in BOOLEAN
      <4>1. PICK k \in tied : op = [key |-> k, tomb |-> TRUE, val |-> 0]
        OBVIOUS
      <4>2. op.key = k /\ op.tomb \in BOOLEAN
        BY <4>1
      <4>3. QED
        BY <3>1, <4>2
    <3>3. QED
      BY <3>2 DEF Authored
  <2>3. CASE UNCHANGED <<busVars, opChanges>>
    BY <2>1, <2>3 DEF TeeFollowsCache, WellFormed, KeyShape, Authored, Moderates, busVars, Untouched, Drained
  <2>4. CASE HandleStringMessage(batch, Nobody)
    BY <2>1, <2>2, <2>4, HandledMessage
  <2>5. QED
    BY <2>1, <2>3, <2>4
<1>4. QED
  BY <1>1, <1>2, <1>3 DEF Publication

\* The mixer takes the tee over when a tick starts.
LEMMA StartTickTee ==
  ASSUME TeeFollowsCache, StartTick
  PROVE  TeeFollowsCache' /\ DOMAIN draining = {} /\ \A k : Untouched(k)
<1>1. /\ ~ticking /\ ticking' = TRUE /\ draining' = opChanges /\ opChanges' = Empty
      /\ opId' = opId /\ cache' = cache
  BY DEF StartTick, busVars
<1>2. DOMAIN draining = {} /\ DOMAIN opChanges' = {}
  BY <1>1 DEF TeeFollowsCache, Empty
<1>3. TeeFollowsCache'
  BY <1>1, <1>2 DEF TeeFollowsCache, WellFormed, KeyShape, Authored, Moderates
<1>4. \A k : Untouched(k)
  BY <1>1, <1>2 DEF Untouched, Drained
<1>5. QED
  BY <1>2, <1>3, <1>4

\* It applies one op of it, which is then what the cache holds unless the tee
\* has the key again.
LEMMA ApplyTee ==
  ASSUME TeeFollowsCache, NEW k0 \in DOMAIN draining, draining' = Del(draining, k0),
         UNCHANGED <<busVars, opChanges, ticking>>
  PROVE  /\ TeeFollowsCache'
         /\ cache' = cache
         /\ \A k : Drained(k)' => Drained(k) \/ k = k0
         /\ Drained(k0)' => k0 \in DOMAIN cache /\ cache[k0] = draining[k0]
         /\ k0 \in DOMAIN cache /\ WellFormed(k0, draining[k0])
<1>1. /\ DOMAIN draining' = DOMAIN draining \ {k0}
      /\ \A k \in DOMAIN draining' : draining'[k] = draining[k]
  BY DEF Del
<1>2. opId' = opId /\ cache' = cache /\ opChanges' = opChanges /\ ticking' = ticking
  BY DEF busVars
<1>3. TeeFollowsCache'
  <2>1. /\ opId \in Nat
        /\ \A k \in DOMAIN cache : WellFormed(k, cache[k]) /\ cache[k].id \in Nat /\ cache[k].id <= opId
        /\ \A k \in DOMAIN opChanges : k \in DOMAIN cache /\ opChanges[k] = cache[k]
    BY DEF TeeFollowsCache
  <2>2. \A k \in DOMAIN draining' : k \in DOMAIN cache /\ WellFormed(k, draining'[k])
    BY <1>1 DEF TeeFollowsCache
  <2>3. \A k \in DOMAIN draining' \ DOMAIN opChanges : draining'[k] = cache[k]
    BY <1>1 DEF TeeFollowsCache
  <2>4. ~ticking' => DOMAIN draining' = {}
    BY <1>1, <1>2 DEF TeeFollowsCache
  <2>5. QED
    BY <1>2, <2>1, <2>2, <2>3, <2>4 DEF TeeFollowsCache, WellFormed, KeyShape, Authored, Moderates
<1>4. \A k : Drained(k)' => Drained(k) \/ k = k0
  BY <1>1, <1>2 DEF Drained
<1>5. Drained(k0)' => k0 \in DOMAIN cache /\ cache[k0] = draining[k0]
  BY <1>1, <1>2 DEF Drained, TeeFollowsCache
<1>6. QED
  BY <1>2, <1>3, <1>4, <1>5 DEF TeeFollowsCache

\* Nothing else the mixer does concerns the tee.
LEMMA SameTee ==
  ASSUME TeeFollowsCache, UNCHANGED <<busVars, teeVars>>, ticking' = ticking \/ (ticking /\ draining = Empty)
  PROVE  TeeFollowsCache' /\ (\A k : Drained(k)' <=> Drained(k)) /\ cache' = cache
<1>1. opId' = opId /\ cache' = cache /\ opChanges' = opChanges /\ draining' = draining
  BY DEF busVars, teeVars
<1>2. DOMAIN Empty = {}
  BY DEF Empty
<1>3. TeeFollowsCache'
  BY <1>1, <1>2 DEF TeeFollowsCache, WellFormed, KeyShape, Authored, Moderates
<1>4. QED
  BY <1>1, <1>3 DEF Drained

-------------------------------------------------------------------------------
(* What an encoder becomes.                                                *)

Fresh(n, muted, gains, atts) ==
  /\ n.roleMuted = (n.roles \cap muted # {})
  /\ n.mul = RoleMultiplier(n.roles, gains)
  /\ n.factor = n.gain * n.mul
  /\ n.over = RoleOverride(n.roles, atts)
  /\ n.exponent = IF RoleOverride(n.roles, atts) = None THEN n.att ELSE RoleOverride(n.roles, atts)

LEMMA FreshNodes ==
  RoleEffectsFresh <=> \A u \in DOMAIN nodes : Fresh(nodes[u], mutedRoles, roleGains, roleAtts)
  BY DEF RoleEffectsFresh, Fresh

LEMMA NewEncoderIsUnset ==
  ASSUME NEW u \in Uuids, NEW slot, NEW muted, NEW gains, NEW atts
  PROVE  /\ DOMAIN NewEncoder(u, slot) = EncoderFields
         /\ NewEncoder(u, slot).spaceMuted \in BOOLEAN
         /\ ~NewEncoder(u, slot).out
         /\ NewEncoder(u, slot).dry = {} /\ NewEncoder(u, slot).wet = {}
         /\ Fresh(NewEncoder(u, slot), muted, gains, atts)
         /\ \A k : Shows(NewEncoder(u, slot), u, k, NoOp)
<1> DEFINE n == NewEncoder(u, slot)
<1>1. DOMAIN n = EncoderFields
  BY DEF NewEncoder, EncoderFields
<1>2. /\ n.gain = Config[u].gain /\ n.att = Config[u].att
      /\ n.mul = 1 /\ n.over = None
      /\ n.factor = Config[u].gain /\ n.exponent = Config[u].att
  BY DEF NewEncoder
<1>3. n.roles = {} /\ n.mutes = {} /\ n.solos = {} /\ n.muteRoles = {} /\ n.dry = {} /\ n.wet = {}
  BY DEF NewEncoder
<1>4. n.spaceMuted = FALSE /\ n.roleMuted = FALSE /\ n.out = FALSE
  BY DEF NewEncoder
<1> HIDE DEF n
<1>5. RoleMultiplier({}, gains) = 1
  <2>1. {gains[r] : r \in {} \cap DOMAIN gains} = {}
    OBVIOUS
  <2>2. QED
    BY <2>1 DEF RoleMultiplier
<1>6. RoleOverride({}, atts) = None
  <2>1. {atts[r] : r \in {} \cap DOMAIN atts} = {}
    OBVIOUS
  <2>2. QED
    BY <2>1 DEF RoleOverride
<1>7. Config[u].gain \in Nat
  BY DEF Levels
<1>8. Fresh(n, muted, gains, atts)
  <2>1. n.roleMuted = (n.roles \cap muted # {})
    BY <1>3, <1>4
  <2>2. n.factor = n.gain * n.mul
    BY <1>2, <1>7
  <2>3. QED
    BY <1>2, <1>3, <1>5, <1>6, <2>1, <2>2 DEF Fresh
<1>9. NoOp.tomb = TRUE
  BY DEF NoOp
<1>10. ASSUME NEW k PROVE Shows(n, u, k, NoOp)
  BY <1>2, <1>3, <1>4, <1>9 DEF Shows
<1>11. QED
  <2>1. n.spaceMuted \in BOOLEAN /\ ~n.out
    BY <1>4
  <2>2. QED
    BY <1>1, <1>3, <1>8, <1>10, <2>1 DEF n

\* An encoder keeps its settings when only what is derived from them, its
\* output or its frame changes.
Settings == {"gain", "att", "roles", "mutes", "solos", "muteRoles", "spaceMuted"}
SameSettings(m, n) ==
  /\ DOMAIN m = EncoderFields
  /\ \A f \in Settings : m[f] = n[f]

LEMMA SameSettingsShow ==
  ASSUME NEW m, NEW n, SameSettings(m, n), NEW u, NEW k, NEW op, Shows(n, u, k, op)
  PROVE  Shows(m, u, k, op)
<1>1. /\ m.gain = n.gain /\ m.att = n.att /\ m.roles = n.roles /\ m.mutes = n.mutes
      /\ m.solos = n.solos /\ m.muteRoles = n.muteRoles /\ m.spaceMuted = n.spaceMuted
  BY DEF SameSettings, Settings
<1>2. QED
  BY <1>1 DEF Shows

LEMMA RefreshedEncoder ==
  ASSUME NEW n, DOMAIN n = EncoderFields, NEW muted, NEW gains, NEW atts
  PROVE  /\ Fresh(RefreshEncoderRoleEffects(n, muted, gains, atts), muted, gains, atts)
         /\ SameSettings(RefreshEncoderRoleEffects(n, muted, gains, atts), n)
         /\ \A f \in {"slot", "input", "out", "subspaces", "dry", "wet"} :
              RefreshEncoderRoleEffects(n, muted, gains, atts)[f] = n[f]
<1> DEFINE m == RefreshEncoderRoleEffects(n, muted, gains, atts)
           mul == RoleMultiplier(n.roles, gains)
           over == RoleOverride(n.roles, atts)
<1>1. /\ DOMAIN m = DOMAIN n
      /\ \A f \in DOMAIN n \ {"roleMuted", "mul", "factor", "over", "exponent"} : m[f] = n[f]
  BY DEF RefreshEncoderRoleEffects
<1>2. /\ m.mul = mul /\ m.factor = n.gain * mul
      /\ m.over = over /\ m.exponent = IF over = None THEN n.att ELSE over
  BY DEF RefreshEncoderRoleEffects, EncoderFields
<1>3. m.roleMuted = (n.roles \cap muted # {})
  BY DEF RefreshEncoderRoleEffects, EncoderFields
<1> HIDE DEF m
<1>4. SameSettings(m, n) /\ \A f \in {"slot", "input", "out", "subspaces", "dry", "wet"} : m[f] = n[f]
  BY <1>1 DEF SameSettings, Settings, EncoderFields
<1>5. m.roles = n.roles /\ m.gain = n.gain /\ m.att = n.att
  BY <1>4 DEF SameSettings, Settings
<1>6. Fresh(m, muted, gains, atts)
  BY <1>2, <1>3, <1>5 DEF Fresh
<1>7. QED
  BY <1>4, <1>6 DEF m

Toggled(S, x, tomb) ==
  /\ x \in Toggle(S, x, tomb) <=> ~tomb
  /\ \A y : y # x => (y \in Toggle(S, x, tomb) <=> y \in S)

LEMMA ToggleToggles == ASSUME NEW S, NEW x, NEW tomb PROVE Toggled(S, x, tomb)
  BY DEF Toggled, Toggle

\* An op about a node sets what it says, and nothing that another key sets.
LEMMA MutatedEncoder ==
  ASSUME NEW u, NEW n, DOMAIN n = EncoderFields, n.spaceMuted \in BOOLEAN,
         NEW k, k.topic = "entity", k.about = u, NEW op, WellFormed(k, op),
         Fresh(n, mutedRoles, roleGains, roleAtts)
  PROVE  /\ DOMAIN Mutated(u, n, k, op) = EncoderFields
         /\ Mutated(u, n, k, op).spaceMuted \in BOOLEAN
         /\ \A f \in {"slot", "input", "out", "subspaces", "dry", "wet"} : Mutated(u, n, k, op)[f] = n[f]
         /\ Fresh(Mutated(u, n, k, op), mutedRoles, roleGains, roleAtts)
         /\ Shows(Mutated(u, n, k, op), u, k, op)
         /\ \A j \in EntityKeys(u) : j # k => \A p : Shows(n, u, j, p) => Shows(Mutated(u, n, k, op), u, j, p)
<1> DEFINE m == Mutated(u, n, k, op)
           Kept == {"slot", "input", "out", "subspaces", "dry", "wet"}
           Goal == /\ DOMAIN m = EncoderFields
                   /\ m.spaceMuted \in BOOLEAN
                   /\ \A f \in Kept : m[f] = n[f]
                   /\ Fresh(m, mutedRoles, roleGains, roleAtts)
                   /\ Shows(m, u, k, op)
                   /\ \A j \in EntityKeys(u) : j # k => \A p : Shows(n, u, j, p) => Shows(m, u, j, p)
<1> SUFFICES Goal
  OBVIOUS
<1>1. op.tomb \in BOOLEAN /\ KeyShape(k)
  BY DEF WellFormed
<1>2. ASSUME NEW j \in EntityKeys(u), j # k, j.field = k.field
      PROVE  j.arg # k.arg /\ k.field \notin {"muted", "gain", "attenuation"}
  <2>1. /\ j = Key("entity", u, j.field, j.arg)
        /\ j.field \in {"muted", "gain", "attenuation"} => j.arg = Nobody
    BY DEF EntityKeys, Key
  <2>2. k = Key("entity", u, k.field, k.arg)
    BY <1>1 DEF KeyShape
  <2>3. QED
    BY <1>1, <1>2, <2>1, <2>2 DEF KeyShape
<1>3. CASE k.field = "gain"
  <2> DEFINE g == IF op.tomb THEN Config[u].gain ELSE op.val
  <2>1. m = [n EXCEPT !.gain = g, !.factor = g * n.mul]
    BY <1>3 DEF Mutated, SetGain
  <2> HIDE DEF m
  <2>2. DOMAIN m = EncoderFields /\ m.gain = g /\ m.factor = g * n.mul
    BY <2>1 DEF EncoderFields
  <2>3. \A f \in EncoderFields \ {"gain", "factor"} : m[f] = n[f]
    BY <2>1
  <2>4. /\ m.att = n.att /\ m.roles = n.roles /\ m.mutes = n.mutes /\ m.solos = n.solos
        /\ m.muteRoles = n.muteRoles /\ m.spaceMuted = n.spaceMuted
        /\ m.roleMuted = n.roleMuted /\ m.mul = n.mul /\ m.over = n.over /\ m.exponent = n.exponent
        /\ \A f \in Kept : m[f] = n[f]
    BY <2>3 DEF EncoderFields
  <2>5. Fresh(m, mutedRoles, roleGains, roleAtts)
    BY <2>2, <2>4 DEF Fresh
  <2>6. Shows(m, u, k, op)
    BY <1>3, <2>2 DEF Shows
  <2>7. \A j \in EntityKeys(u) : j # k => \A p : Shows(n, u, j, p) => Shows(m, u, j, p)
    BY <1>2, <1>3, <2>4 DEF Shows
  <2>8. QED
    BY <2>2, <2>4, <2>5, <2>6, <2>7
<1>4. CASE k.field = "attenuation"
  <2> DEFINE a == IF op.tomb THEN Config[u].att ELSE op.val
  <2>1. m = [n EXCEPT !.att = a, !.exponent = IF n.over = None THEN a ELSE n.over]
    BY <1>4 DEF Mutated, SetAttenuation
  <2> HIDE DEF m
  <2>2. DOMAIN m = EncoderFields /\ m.att = a /\ m.exponent = IF n.over = None THEN a ELSE n.over
    BY <2>1 DEF EncoderFields
  <2>3. \A f \in EncoderFields \ {"att", "exponent"} : m[f] = n[f]
    BY <2>1
  <2>4. /\ m.gain = n.gain /\ m.roles = n.roles /\ m.mutes = n.mutes /\ m.solos = n.solos
        /\ m.muteRoles = n.muteRoles /\ m.spaceMuted = n.spaceMuted
        /\ m.roleMuted = n.roleMuted /\ m.mul = n.mul /\ m.over = n.over /\ m.factor = n.factor
        /\ \A f \in Kept : m[f] = n[f]
    BY <2>3 DEF EncoderFields
  <2>5. Fresh(m, mutedRoles, roleGains, roleAtts)
    BY <2>2, <2>4 DEF Fresh
  <2>6. Shows(m, u, k, op)
    BY <1>4, <2>2 DEF Shows
  <2>7. \A j \in EntityKeys(u) : j # k => \A p : Shows(n, u, j, p) => Shows(m, u, j, p)
    BY <1>2, <1>4, <2>4 DEF Shows
  <2>8. QED
    BY <2>2, <2>4, <2>5, <2>6, <2>7
<1>5. CASE k.field = "muted"
  <2>1. m = [n EXCEPT !.spaceMuted = ~op.tomb]
    BY <1>5 DEF Mutated
  <2> HIDE DEF m
  <2>2. DOMAIN m = EncoderFields /\ m.spaceMuted = ~op.tomb
    BY <2>1 DEF EncoderFields
  <2>3. \A f \in EncoderFields \ {"spaceMuted"} : m[f] = n[f]
    BY <2>1
  <2>4. /\ m.gain = n.gain /\ m.att = n.att /\ m.roles = n.roles /\ m.mutes = n.mutes
        /\ m.solos = n.solos /\ m.muteRoles = n.muteRoles
        /\ m.roleMuted = n.roleMuted /\ m.mul = n.mul /\ m.over = n.over
        /\ m.factor = n.factor /\ m.exponent = n.exponent
        /\ \A f \in Kept : m[f] = n[f]
    BY <2>3 DEF EncoderFields
  <2>5. Fresh(m, mutedRoles, roleGains, roleAtts)
    BY <2>4 DEF Fresh
  <2>6. Shows(m, u, k, op)
    BY <1>5, <2>2 DEF Shows
  <2>7. \A j \in EntityKeys(u) : j # k => \A p : Shows(n, u, j, p) => Shows(m, u, j, p)
    BY <1>2, <1>5, <2>4 DEF Shows
  <2>8. QED
    BY <2>2, <2>4, <2>5, <2>6, <2>7
<1>6. CASE k.field = "roles"
  <2> DEFINE t == [n EXCEPT !.roles = Toggle(n.roles, k.arg, op.tomb)]
  <2>1. m = RefreshEncoderRoleEffects(t, mutedRoles, roleGains, roleAtts)
    BY <1>6 DEF Mutated
  <2>2. DOMAIN t = EncoderFields /\ t.roles = Toggle(n.roles, k.arg, op.tomb)
    BY DEF EncoderFields
  <2>3. \A f \in EncoderFields \ {"roles"} : t[f] = n[f]
    OBVIOUS
  <2> HIDE DEF m, t
  <2>4. /\ Fresh(m, mutedRoles, roleGains, roleAtts)
        /\ SameSettings(m, t)
        /\ \A f \in Kept : m[f] = t[f]
    BY <2>1, <2>2, RefreshedEncoder
  <2>5. /\ DOMAIN m = EncoderFields /\ m.roles = Toggle(n.roles, k.arg, op.tomb)
        /\ m.gain = n.gain /\ m.att = n.att /\ m.mutes = n.mutes /\ m.solos = n.solos
        /\ m.muteRoles = n.muteRoles /\ m.spaceMuted = n.spaceMuted
        /\ \A f \in Kept : m[f] = n[f]
    BY <2>2, <2>3, <2>4 DEF SameSettings, Settings, EncoderFields
  <2>6. Shows(m, u, k, op)
    BY <1>6, <2>5, ToggleToggles DEF Shows, Toggled
  <2>7. \A j \in EntityKeys(u) : j # k => \A p : Shows(n, u, j, p) => Shows(m, u, j, p)
    BY <1>2, <1>6, <2>5, ToggleToggles DEF Shows, Toggled
  <2>8. QED
    BY <2>4, <2>5, <2>6, <2>7
<1>7. CASE k.field = "mutes"
  <2>1. m = [n EXCEPT !.mutes = Toggle(n.mutes, k.arg, op.tomb)]
    BY <1>7 DEF Mutated
  <2> HIDE DEF m
  <2>2. DOMAIN m = EncoderFields /\ m.mutes = Toggle(n.mutes, k.arg, op.tomb)
    BY <2>1 DEF EncoderFields
  <2>3. \A f \in EncoderFields \ {"mutes"} : m[f] = n[f]
    BY <2>1
  <2>4. /\ m.gain = n.gain /\ m.att = n.att /\ m.roles = n.roles /\ m.solos = n.solos /\ m.muteRoles = n.muteRoles
        /\ m.spaceMuted = n.spaceMuted /\ m.roleMuted = n.roleMuted /\ m.mul = n.mul
        /\ m.over = n.over /\ m.factor = n.factor /\ m.exponent = n.exponent
        /\ \A f \in Kept : m[f] = n[f]
    BY <2>3 DEF EncoderFields
  <2>5. Fresh(m, mutedRoles, roleGains, roleAtts)
    BY <2>4 DEF Fresh
  <2>6. Shows(m, u, k, op)
    BY <1>7, <2>2, ToggleToggles DEF Shows, Toggled
  <2>7. \A j \in EntityKeys(u) : j # k => \A p : Shows(n, u, j, p) => Shows(m, u, j, p)
    BY <1>2, <1>7, <2>2, <2>4, ToggleToggles DEF Shows, Toggled
  <2>8. QED
    BY <2>2, <2>4, <2>5, <2>6, <2>7
<1>8. CASE k.field = "solos"
  <2>1. m = [n EXCEPT !.solos = Toggle(n.solos, k.arg, op.tomb)]
    BY <1>8 DEF Mutated
  <2> HIDE DEF m
  <2>2. DOMAIN m = EncoderFields /\ m.solos = Toggle(n.solos, k.arg, op.tomb)
    BY <2>1 DEF EncoderFields
  <2>3. \A f \in EncoderFields \ {"solos"} : m[f] = n[f]
    BY <2>1
  <2>4. /\ m.gain = n.gain /\ m.att = n.att /\ m.roles = n.roles /\ m.mutes = n.mutes /\ m.muteRoles = n.muteRoles
        /\ m.spaceMuted = n.spaceMuted /\ m.roleMuted = n.roleMuted /\ m.mul = n.mul
        /\ m.over = n.over /\ m.factor = n.factor /\ m.exponent = n.exponent
        /\ \A f \in Kept : m[f] = n[f]
    BY <2>3 DEF EncoderFields
  <2>5. Fresh(m, mutedRoles, roleGains, roleAtts)
    BY <2>4 DEF Fresh
  <2>6. Shows(m, u, k, op)
    BY <1>8, <2>2, ToggleToggles DEF Shows, Toggled
  <2>7. \A j \in EntityKeys(u) : j # k => \A p : Shows(n, u, j, p) => Shows(m, u, j, p)
    BY <1>2, <1>8, <2>2, <2>4, ToggleToggles DEF Shows, Toggled
  <2>8. QED
    BY <2>2, <2>4, <2>5, <2>6, <2>7
<1>9. CASE k.field = "mute-roles"
  <2>1. m = [n EXCEPT !.muteRoles = Toggle(n.muteRoles, k.arg, op.tomb)]
    BY <1>9 DEF Mutated
  <2> HIDE DEF m
  <2>2. DOMAIN m = EncoderFields /\ m.muteRoles = Toggle(n.muteRoles, k.arg, op.tomb)
    BY <2>1 DEF EncoderFields
  <2>3. \A f \in EncoderFields \ {"muteRoles"} : m[f] = n[f]
    BY <2>1
  <2>4. /\ m.gain = n.gain /\ m.att = n.att /\ m.roles = n.roles /\ m.mutes = n.mutes /\ m.solos = n.solos
        /\ m.spaceMuted = n.spaceMuted /\ m.roleMuted = n.roleMuted /\ m.mul = n.mul
        /\ m.over = n.over /\ m.factor = n.factor /\ m.exponent = n.exponent
        /\ \A f \in Kept : m[f] = n[f]
    BY <2>3 DEF EncoderFields
  <2>5. Fresh(m, mutedRoles, roleGains, roleAtts)
    BY <2>4 DEF Fresh
  <2>6. Shows(m, u, k, op)
    BY <1>9, <2>2, ToggleToggles DEF Shows, Toggled
  <2>7. \A j \in EntityKeys(u) : j # k => \A p : Shows(n, u, j, p) => Shows(m, u, j, p)
    BY <1>2, <1>9, <2>2, <2>4, ToggleToggles DEF Shows, Toggled
  <2>8. QED
    BY <2>2, <2>4, <2>5, <2>6, <2>7
<1>10. CASE k.field \notin {"gain", "attenuation", "muted", "roles", "mutes", "solos", "mute-roles"}
  <2>1. m = n
    BY <1>10 DEF Mutated
  <2> HIDE DEF m
  <2>2. Shows(m, u, k, op)
    BY <1>10 DEF Shows
  <2>3. QED
    BY <2>1, <2>2
<1> HIDE DEF Goal
<1>11. QED
  BY <1>3, <1>4, <1>5, <1>6, <1>7, <1>8, <1>9, <1>10

-------------------------------------------------------------------------------
(* The mixer and the cache, one action at a time.                          *)

Mirror ==
  /\ TeeFollowsCache /\ MixTypes
  /\ RoleEffectsFresh /\ NodesFollow /\ AbsentMiss /\ RulesFollow

\* Only the output and the frame differ.
Quiet(m, n) == DOMAIN m = EncoderFields /\ \A f \in EncoderFields \ {"out", "dry", "wet"} : m[f] = n[f]

\* A step that applies no op, and neither adds a node nor removes one, leaves
\* what the mixer shows alone.
LEMMA QuietStep ==
  ASSUME Mirror, \A k : Untouched(k), UNCHANGED <<roleVars, missed>>,
         DOMAIN nodes' = DOMAIN nodes, \A u \in DOMAIN nodes : Quiet(nodes'[u], nodes[u])
  PROVE  RoleEffectsFresh' /\ NodesFollow' /\ AbsentMiss' /\ RulesFollow'
<1>1. mutedRoles' = mutedRoles /\ roleGains' = roleGains /\ roleAtts' = roleAtts /\ missed' = missed
  BY DEF roleVars
<1>2. \A k : Settled(k)' => Settled(k) /\ (k \in DOMAIN cache' <=> k \in DOMAIN cache) /\ Latest(k)' = Latest(k)
  BY <1>1 DEF Settled, Untouched, Latest
<1>3. RoleEffectsFresh'
  <2> SUFFICES ASSUME NEW u \in DOMAIN nodes
               PROVE  Fresh(nodes'[u], mutedRoles, roleGains, roleAtts)
    BY <1>1 DEF RoleEffectsFresh, Fresh
  <2>1. Fresh(nodes[u], mutedRoles, roleGains, roleAtts)
    BY FreshNodes DEF Mirror
  <2>2. /\ nodes'[u].roles = nodes[u].roles /\ nodes'[u].roleMuted = nodes[u].roleMuted
        /\ nodes'[u].mul = nodes[u].mul /\ nodes'[u].over = nodes[u].over
        /\ nodes'[u].factor = nodes[u].factor /\ nodes'[u].exponent = nodes[u].exponent
        /\ nodes'[u].gain = nodes[u].gain /\ nodes'[u].att = nodes[u].att
    BY DEF Quiet, EncoderFields
  <2>3. QED
    BY <2>1, <2>2 DEF Fresh
<1>4. NodesFollow'
  <2> SUFFICES ASSUME NEW u \in DOMAIN nodes, NEW k \in EntityKeys(u), Settled(k)'
               PROVE  Shows(nodes'[u], u, k, Latest(k)')
    BY DEF NodesFollow, EntityKeys, Shows, Key
  <2>1. Shows(nodes[u], u, k, Latest(k))
    BY <1>2 DEF Mirror, NodesFollow
  <2>2. SameSettings(nodes'[u], nodes[u])
    BY DEF Quiet, SameSettings, Settings, EncoderFields
  <2>3. Shows(nodes'[u], u, k, Latest(k))
    BY <2>1, <2>2, SameSettingsShow
  <2>4. QED
    BY <1>2, <2>3
<1>5. AbsentMiss'
  BY <1>2 DEF Mirror, AbsentMiss, EntityKeys, Key
<1>6. RulesFollow'
  <2>1. ASSUME NEW k, Drained(k)' PROVE Drained(k) /\ Latest(k)' = Latest(k)
    BY <2>1 DEF Untouched, Latest
  <2>2. QED
    BY <1>1, <2>1 DEF Mirror, RulesFollow, RuleKeys, RuleShows, Key
<1>7. QED
  BY <1>3, <1>4, <1>5, <1>6

LEMMA ApplyEntityOpMirror ==
  ASSUME Mirror, NEW k0 \in DOMAIN draining, ApplyEntityOp(k0)
  PROVE  Mirror'
<1> DEFINE u0 == k0.about
           op == draining[k0]
<1>1. /\ ticking /\ k0.topic = "entity" /\ draining' = Del(draining, k0)
      /\ UNCHANGED <<busVars, opChanges, ticking, roleVars, live, changes>>
  BY DEF ApplyEntityOp, connVars
<1>2. /\ TeeFollowsCache' /\ cache' = cache
      /\ \A k : Drained(k)' => Drained(k) \/ k = k0
      /\ Drained(k0)' => k0 \in DOMAIN cache /\ cache[k0] = op
      /\ k0 \in DOMAIN cache /\ WellFormed(k0, op)
  BY <1>1, ApplyTee DEF Mirror
<1>3. mutedRoles' = mutedRoles /\ roleGains' = roleGains /\ roleAtts' = roleAtts
  BY <1>1 DEF roleVars
<1>4. \A k : Latest(k)' = Latest(k)
  BY <1>2 DEF Latest
<1>5. RulesFollow'
  <2>1. \A k \in RuleKeys : k # k0
    BY <1>1 DEF RuleKeys, Key
  <2>2. \A k \in RuleKeys : Drained(k)' => Drained(k)
    BY <1>2, <2>1
  <2>3. QED
    BY <1>3, <1>4, <2>2 DEF Mirror, RulesFollow, RuleKeys, RuleShows, Key
<1>6. CASE u0 \in DOMAIN nodes
  <2> DEFINE m == Mutated(u0, nodes[u0], k0, op)
  <2>1. nodes' = [nodes EXCEPT ![u0] = m] /\ missed' = missed \ {k0}
    BY <1>6 DEF ApplyEntityOp
  <2>2. /\ DOMAIN m = EncoderFields /\ m.spaceMuted \in BOOLEAN
        /\ Fresh(m, mutedRoles, roleGains, roleAtts)
        /\ Shows(m, u0, k0, op)
        /\ \A j \in EntityKeys(u0) : j # k0 => \A p : Shows(nodes[u0], u0, j, p) => Shows(m, u0, j, p)
    BY <1>1, <1>2, <1>6, FreshNodes, MutatedEncoder DEF Mirror, MixTypes
  <2> HIDE DEF m
  <2>3. DOMAIN nodes' = DOMAIN nodes /\ nodes'[u0] = m /\ \A u \in DOMAIN nodes \ {u0} : nodes'[u] = nodes[u]
    BY <1>6, <2>1
  <2>4. MixTypes'
    BY <1>1, <2>2, <2>3 DEF Mirror, MixTypes
  <2>5. RoleEffectsFresh'
    <3> SUFFICES ASSUME NEW u \in DOMAIN nodes
                 PROVE  Fresh(nodes'[u], mutedRoles, roleGains, roleAtts)
      BY <1>3, <2>3 DEF RoleEffectsFresh, Fresh
    <3>1. QED
      BY <2>2, <2>3, FreshNodes DEF Mirror
  <2>6. \A k : k # k0 => (Settled(k)' => Settled(k))
    BY <1>2, <2>1 DEF Settled
  <2>7. NodesFollow'
    <3> SUFFICES ASSUME NEW u \in DOMAIN nodes, NEW k \in EntityKeys(u), Settled(k)'
                 PROVE  Shows(nodes'[u], u, k, Latest(k))
      BY <1>4, <2>3 DEF NodesFollow, EntityKeys, Shows, Key
    <3>1. CASE k = k0
      <4>1. Latest(k) = op
        BY <1>2, <3>1 DEF Settled, Latest
      <4>2. u = u0
        BY <3>1 DEF EntityKeys, Key
      <4>3. QED
        BY <2>2, <2>3, <3>1, <4>1, <4>2
    <3>2. CASE k # k0
      <4>1. Shows(nodes[u], u, k, Latest(k))
        BY <2>6, <3>2 DEF Mirror, NodesFollow
      <4>2. QED
        BY <2>2, <2>3, <3>2, <4>1
    <3>3. QED
      BY <3>1, <3>2
  <2>8. AbsentMiss'
    <3> SUFFICES ASSUME NEW u \in Uuids \ DOMAIN nodes, NEW k \in EntityKeys(u), k \in DOMAIN cache, Settled(k)'
                 PROVE  FALSE
      BY <1>2, <2>3 DEF AbsentMiss, EntityKeys, Key
    <3>1. k # k0
      BY <1>6 DEF EntityKeys, Key
    <3>2. QED
      BY <2>6, <3>1 DEF Mirror, AbsentMiss
  <2>9. QED
    BY <1>2, <1>5, <2>4, <2>5, <2>7, <2>8 DEF Mirror
<1>7. CASE u0 \notin DOMAIN nodes
  <2>1. nodes' = nodes /\ missed' = missed \cup {k0}
    BY <1>7 DEF ApplyEntityOp
  <2>2. MixTypes'
    BY <1>1, <2>1 DEF Mirror, MixTypes
  <2>3. RoleEffectsFresh'
    BY <1>3, <2>1 DEF Mirror, RoleEffectsFresh
  <2>4. \A k : Settled(k)' => Settled(k) /\ k # k0
    BY <1>2, <2>1 DEF Settled
  <2>5. NodesFollow'
    BY <1>4, <2>1, <2>4 DEF Mirror, NodesFollow, EntityKeys, Shows, Key
  <2>6. AbsentMiss'
    BY <1>2, <2>1, <2>4 DEF Mirror, AbsentMiss, EntityKeys, Key
  <2>7. QED
    BY <1>2, <1>5, <2>2, <2>3, <2>5, <2>6 DEF Mirror
<1>8. QED
  BY <1>6, <1>7

\* An encoder that does not hold a role does not depend on its rules.
AgreeExcept(f, g, role) ==
  \A r : r # role => (r \in DOMAIN f <=> r \in DOMAIN g) /\ (r \in DOMAIN f => f[r] = g[r])

LEMMA OtherRoles ==
  ASSUME NEW n, NEW role, role \notin n.roles,
         NEW muted, NEW gains, NEW atts, Fresh(n, muted, gains, atts),
         NEW muted2, \A r : r # role => (r \in muted2 <=> r \in muted),
         NEW gains2, AgreeExcept(gains2, gains, role),
         NEW atts2, AgreeExcept(atts2, atts, role)
  PROVE  Fresh(n, muted2, gains2, atts2)
<1>1. n.roles \cap muted2 = n.roles \cap muted
  OBVIOUS
<1>2. {gains2[r] : r \in n.roles \cap DOMAIN gains2} = {gains[r] : r \in n.roles \cap DOMAIN gains}
  BY DEF AgreeExcept
<1>3. {atts2[r] : r \in n.roles \cap DOMAIN atts2} = {atts[r] : r \in n.roles \cap DOMAIN atts}
  BY DEF AgreeExcept
<1>4. RoleMultiplier(n.roles, gains2) = RoleMultiplier(n.roles, gains)
  BY <1>2 DEF RoleMultiplier
<1>5. RoleOverride(n.roles, atts2) = RoleOverride(n.roles, atts)
  BY <1>3 DEF RoleOverride
<1>6. QED
  BY <1>1, <1>4, <1>5 DEF Fresh

LEMMA RuleAfterShows ==
  ASSUME NEW rules, NEW op, op.tomb \in BOOLEAN, NEW role
  PROVE  /\ RuleShows(RuleAfter(rules, op, role), role, op)
         /\ AgreeExcept(RuleAfter(rules, op, role), rules, role)
<1>1. CASE op.tomb
  <2>1. RuleAfter(rules, op, role) = [x \in DOMAIN rules \ {role} |-> rules[x]]
    BY <1>1 DEF RuleAfter, Del
  <2>2. QED
    BY <1>1, <2>1 DEF RuleShows, AgreeExcept
<1>2. CASE ~op.tomb
  <2>1. RuleAfter(rules, op, role) = [x \in DOMAIN rules \cup {role} |-> IF x = role THEN op.val ELSE rules[x]]
    BY <1>2 DEF RuleAfter, Put
  <2>2. QED
    BY <1>2, <2>1 DEF RuleShows, AgreeExcept
<1>3. QED
  BY <1>1, <1>2

LEMMA ApplySpaceOpMirror ==
  ASSUME Mirror, NEW k0 \in DOMAIN draining, ApplySpaceOp(k0)
  PROVE  Mirror'
<1> DEFINE op == draining[k0]
<1>1. /\ ticking /\ k0.topic = "space" /\ draining' = Del(draining, k0)
      /\ UNCHANGED <<busVars, opChanges, ticking, live, changes, missed>>
  BY DEF ApplySpaceOp, connVars
<1>2. /\ TeeFollowsCache' /\ cache' = cache
      /\ \A k : Drained(k)' => Drained(k) \/ k = k0
      /\ Drained(k0)' => k0 \in DOMAIN cache /\ cache[k0] = op
      /\ k0 \in DOMAIN cache /\ WellFormed(k0, op)
  BY <1>1, ApplyTee DEF Mirror
<1>3. k0 = Key("space", Nobody, k0.field, k0.arg) /\ op.tomb \in BOOLEAN
  BY <1>1, <1>2 DEF WellFormed, KeyShape
<1>4. \A k : Latest(k)' = Latest(k)
  BY <1>2 DEF Latest
<1>5. /\ k0.field = "roles-muted" => mutedRoles' = Toggle(mutedRoles, k0.arg, op.tomb)
      /\ k0.field # "roles-muted" => mutedRoles' = mutedRoles
      /\ k0.field = "roles-gain" => roleGains' = RuleAfter(roleGains, op, k0.arg)
      /\ k0.field # "roles-gain" => roleGains' = roleGains
      /\ k0.field = "roles-attenuation" => roleAtts' = RuleAfter(roleAtts, op, k0.arg)
      /\ k0.field # "roles-attenuation" => roleAtts' = roleAtts
  BY DEF ApplySpaceOp
<1>6. /\ \A r : r # k0.arg => (r \in mutedRoles' <=> r \in mutedRoles)
      /\ k0.field = "roles-muted" => (k0.arg \in mutedRoles' <=> ~op.tomb)
  BY <1>5, ToggleToggles DEF Toggled
<1>7. /\ AgreeExcept(roleGains', roleGains, k0.arg)
      /\ k0.field = "roles-gain" => RuleShows(roleGains', k0.arg, op)
  <2>1. CASE k0.field = "roles-gain"
    <3>1. roleGains' = RuleAfter(roleGains, op, k0.arg)
      BY <1>5, <2>1
    <3>2. /\ RuleShows(RuleAfter(roleGains, op, k0.arg), k0.arg, op)
          /\ AgreeExcept(RuleAfter(roleGains, op, k0.arg), roleGains, k0.arg)
      BY <1>3, RuleAfterShows
    <3>3. QED
      BY <3>1, <3>2
  <2>2. CASE k0.field # "roles-gain"
    BY <1>5, <2>2 DEF AgreeExcept
  <2>3. QED
    BY <2>1, <2>2
<1>8. /\ AgreeExcept(roleAtts', roleAtts, k0.arg)
      /\ k0.field = "roles-attenuation" => RuleShows(roleAtts', k0.arg, op)
  <2>1. CASE k0.field = "roles-attenuation"
    <3>1. roleAtts' = RuleAfter(roleAtts, op, k0.arg)
      BY <1>5, <2>1
    <3>2. /\ RuleShows(RuleAfter(roleAtts, op, k0.arg), k0.arg, op)
          /\ AgreeExcept(RuleAfter(roleAtts, op, k0.arg), roleAtts, k0.arg)
      BY <1>3, RuleAfterShows
    <3>3. QED
      BY <3>1, <3>2
  <2>2. CASE k0.field # "roles-attenuation"
    BY <1>5, <2>2 DEF AgreeExcept
  <2>3. QED
    BY <2>1, <2>2
<1>9. RulesFollow'
  <2> SUFFICES ASSUME NEW k \in RuleKeys, Drained(k)'
               PROVE  /\ k.field = "roles-muted" => (k.arg \in mutedRoles' <=> ~Latest(k).tomb)
                      /\ k.field = "roles-gain" => RuleShows(roleGains', k.arg, Latest(k))
                      /\ k.field = "roles-attenuation" => RuleShows(roleAtts', k.arg, Latest(k))
    BY <1>4 DEF RulesFollow, RuleKeys, RuleShows, Key
  <2>1. CASE k = k0
    <3>1. Latest(k) = op
      BY <1>2, <2>1 DEF Latest
    <3>2. QED
      BY <1>6, <1>7, <1>8, <2>1, <3>1
  <2>2. CASE k # k0
    <3>1. /\ k.field = "roles-muted" => (k.arg \in mutedRoles <=> ~Latest(k).tomb)
          /\ k.field = "roles-gain" => RuleShows(roleGains, k.arg, Latest(k))
          /\ k.field = "roles-attenuation" => RuleShows(roleAtts, k.arg, Latest(k))
      BY <1>2, <2>2 DEF Mirror, RulesFollow
    <3>2. k.field # k0.field \/ k.arg # k0.arg
      <4>1. k = Key("space", Nobody, k.field, k.arg)
        BY DEF RuleKeys, Key
      <4>2. QED
        BY <1>3, <2>2, <4>1
    <3>3. CASE k.field # k0.field
      BY <1>5, <3>1, <3>3
    <3>4. CASE k.arg # k0.arg
      BY <1>6, <1>7, <1>8, <3>1, <3>4 DEF AgreeExcept, RuleShows
    <3>5. QED
      BY <3>2, <3>3, <3>4
  <2>3. QED
    BY <2>1, <2>2
<1>10. DOMAIN nodes' = DOMAIN nodes
  BY DEF ApplySpaceOp
<1>11. ASSUME NEW u \in DOMAIN nodes
       PROVE  /\ SameSettings(nodes'[u], nodes[u])
              /\ Fresh(nodes'[u], mutedRoles', roleGains', roleAtts')
  <2>1. DOMAIN nodes[u] = EncoderFields /\ Fresh(nodes[u], mutedRoles, roleGains, roleAtts)
    BY FreshNodes DEF Mirror, MixTypes
  <2>2. CASE k0.arg \in nodes[u].roles
    <3>1. nodes'[u] = RefreshEncoderRoleEffects(nodes[u], mutedRoles', roleGains', roleAtts')
      BY <2>2 DEF ApplySpaceOp
    <3>2. QED
      BY <2>1, <3>1, RefreshedEncoder
  <2>3. CASE k0.arg \notin nodes[u].roles
    <3>1. nodes'[u] = nodes[u]
      BY <2>3 DEF ApplySpaceOp
    <3>2. Fresh(nodes[u], mutedRoles', roleGains', roleAtts')
      BY <1>6, <1>7, <1>8, <2>1, <2>3, OtherRoles
    <3>3. SameSettings(nodes[u], nodes[u])
      BY <2>1 DEF SameSettings
    <3>4. QED
      BY <3>1, <3>2, <3>3
  <2>4. QED
    BY <2>2, <2>3
<1>12. MixTypes'
  <2>1. \A u \in DOMAIN nodes : DOMAIN nodes'[u] = EncoderFields /\ nodes'[u].spaceMuted \in BOOLEAN
    BY <1>11 DEF Mirror, MixTypes, SameSettings, Settings
  <2>2. QED
    BY <1>1, <1>10, <2>1 DEF Mirror, MixTypes
<1>13. RoleEffectsFresh'
  BY <1>10, <1>11 DEF RoleEffectsFresh, Fresh
<1>14. \A u \in Uuids : \A k \in EntityKeys(u) : Settled(k)' => Settled(k)
  <2>1. \A u \in Uuids : \A k \in EntityKeys(u) : k # k0
    BY <1>1 DEF EntityKeys, Key
  <2>2. QED
    BY <1>1, <1>2, <2>1 DEF Settled
<1>15. NodesFollow'
  <2> SUFFICES ASSUME NEW u \in DOMAIN nodes, NEW k \in EntityKeys(u), Settled(k)'
               PROVE  Shows(nodes'[u], u, k, Latest(k))
    BY <1>4, <1>10 DEF NodesFollow, EntityKeys, Shows, Key
  <2>1. Shows(nodes[u], u, k, Latest(k))
    BY <1>14 DEF Mirror, MixTypes, NodesFollow
  <2>2. QED
    BY <1>11, <2>1, SameSettingsShow
<1>16. AbsentMiss'
  BY <1>2, <1>10, <1>14 DEF Mirror, AbsentMiss, EntityKeys, Key
<1>17. QED
  BY <1>2, <1>9, <1>12, <1>13, <1>15, <1>16 DEF Mirror

LEMMA HeadChange ==
  ASSUME changes \in Seq(Change), changes # <<>>
  PROVE  Head(changes).uuid \in Uuids /\ Tail(changes) \in Seq(Change)
<1>1. Head(changes) \in Change /\ Tail(changes) \in Seq(Change)
  OBVIOUS
<1>2. QED
  BY <1>1 DEF Change

LEMMA DoAddNodeMirror ==
  ASSUME Mirror, DoAddNode
  PROVE  Mirror'
<1> DEFINE u == Head(changes).uuid
           e == NewEncoder(u, FreeSlot)
<1>1. /\ UNCHANGED <<busVars, teeVars, ticking, live, roleVars, missed>>
      /\ changes # <<>> /\ changes' = Tail(changes)
  BY DEF DoAddNode, TakeChange, connVars
<1>2. u \in Uuids /\ changes' \in Seq(Change)
  BY <1>1, HeadChange DEF Mirror, MixTypes
<1>3. TeeFollowsCache' /\ (\A k : Drained(k)' <=> Drained(k)) /\ cache' = cache
  BY <1>1, SameTee DEF Mirror
<1>4. (\A k : Latest(k)' = Latest(k)) /\ (\A k : Settled(k)' <=> Settled(k))
  BY <1>1, <1>3 DEF Latest, Settled
<1>5. mutedRoles' = mutedRoles /\ roleGains' = roleGains /\ roleAtts' = roleAtts
  BY <1>1 DEF roleVars
<1>6. RulesFollow'
  BY <1>3, <1>4, <1>5 DEF Mirror, RulesFollow, RuleKeys, RuleShows, Key
<1>7. CASE u \in DOMAIN nodes
  <2>1. nodes' = nodes
    BY <1>7 DEF DoAddNode, nodeVars
  <2>2. MixTypes'
    BY <1>1, <1>2, <2>1 DEF Mirror, MixTypes
  <2>3. RoleEffectsFresh'
    BY <1>5, <2>1 DEF Mirror, RoleEffectsFresh
  <2>4. NodesFollow'
    BY <1>4, <2>1 DEF Mirror, NodesFollow, EntityKeys, Shows, Key
  <2>5. AbsentMiss'
    BY <1>3, <1>4, <2>1 DEF Mirror, AbsentMiss, EntityKeys, Key
  <2>6. QED
    BY <1>3, <1>6, <2>2, <2>3, <2>4, <2>5 DEF Mirror
<1>8. CASE u \notin DOMAIN nodes
  <2>1. nodes' = Put(nodes, u, e)
    BY <1>8 DEF DoAddNode
  <2>2. /\ DOMAIN e = EncoderFields /\ e.spaceMuted \in BOOLEAN
        /\ Fresh(e, mutedRoles, roleGains, roleAtts)
        /\ \A k : Shows(e, u, k, NoOp)
    BY <1>2, NewEncoderIsUnset
  <2> HIDE DEF e
  <2>3. DOMAIN nodes' = DOMAIN nodes \cup {u} /\ nodes'[u] = e /\ \A v \in DOMAIN nodes : nodes'[v] = nodes[v]
    BY <1>8, <2>1 DEF Put
  <2> HIDE DEF u
  <2>4. MixTypes'
    BY <1>1, <1>2, <2>2, <2>3 DEF Mirror, MixTypes
  <2>5. RoleEffectsFresh'
    <3> SUFFICES ASSUME NEW v \in DOMAIN nodes \cup {u}
                 PROVE  Fresh(nodes'[v], mutedRoles, roleGains, roleAtts)
      BY <1>5, <2>3 DEF RoleEffectsFresh, Fresh
    <3>1. QED
      BY <2>2, <2>3, FreshNodes DEF Mirror
  <2>6. NodesFollow'
    <3> SUFFICES ASSUME NEW v \in DOMAIN nodes \cup {u}, NEW k \in EntityKeys(v), Settled(k)
                 PROVE  Shows(nodes'[v], v, k, Latest(k))
      BY <1>4, <2>3 DEF NodesFollow, EntityKeys, Shows, Key
    <3>1. CASE v = u
      <4>1. k \notin DOMAIN cache
        BY <1>2, <1>8, <3>1 DEF Mirror, AbsentMiss
      <4>2. QED
        BY <2>2, <2>3, <3>1, <4>1 DEF Latest
    <3>2. CASE v # u
      BY <2>3, <3>2 DEF Mirror, NodesFollow
    <3>3. QED
      BY <3>1, <3>2
  <2>7. AbsentMiss'
    BY <1>3, <1>4, <2>3 DEF Mirror, AbsentMiss, EntityKeys, Key
  <2>8. QED
    BY <1>3, <1>6, <2>4, <2>5, <2>6, <2>7 DEF Mirror
<1>9. QED
  BY <1>7, <1>8

LEMMA DoRemoveNodeMirror ==
  ASSUME Mirror, DoRemoveNode
  PROVE  Mirror'
<1> DEFINE u == Head(changes).uuid
<1>1. /\ UNCHANGED <<busVars, teeVars, ticking, live, roleVars>>
      /\ changes # <<>> /\ changes' = Tail(changes)
  BY DEF DoRemoveNode, TakeChange, connVars
<1>2. u \in Uuids /\ changes' \in Seq(Change)
  BY <1>1, HeadChange DEF Mirror, MixTypes
<1>3. TeeFollowsCache' /\ (\A k : Drained(k)' <=> Drained(k)) /\ cache' = cache
  BY <1>1, SameTee DEF Mirror
<1>4. \A k : Latest(k)' = Latest(k)
  BY <1>3 DEF Latest
<1>5. mutedRoles' = mutedRoles /\ roleGains' = roleGains /\ roleAtts' = roleAtts
  BY <1>1 DEF roleVars
<1>6. RulesFollow'
  BY <1>3, <1>4, <1>5 DEF Mirror, RulesFollow, RuleKeys, RuleShows, Key
<1>7. /\ DOMAIN nodes' = DOMAIN nodes \ {u}
      /\ \A v \in DOMAIN nodes' : nodes'[v] = nodes[v]
      /\ missed \subseteq missed'
      /\ u \in DOMAIN nodes => \A k \in DOMAIN cache : k.about = u => k \in missed'
  <2>1. CASE u \in DOMAIN nodes
    <3>1. nodes' = Del(nodes, u) /\ missed' = missed \cup {k \in DOMAIN cache : k.about = u}
      BY <2>1 DEF DoRemoveNode
    <3>2. QED
      BY <3>1 DEF Del
  <2>2. CASE u \notin DOMAIN nodes
    <3>1. nodes' = nodes /\ missed' = missed
      BY <2>2 DEF DoRemoveNode, nodeVars
    <3>2. QED
      BY <2>2, <3>1
  <2>3. QED
    BY <2>1, <2>2
<1> HIDE DEF u
<1>8. \A k : Settled(k)' => Settled(k)
  BY <1>3, <1>7 DEF Settled
<1>9. MixTypes'
  BY <1>1, <1>2, <1>7 DEF Mirror, MixTypes
<1>10. RoleEffectsFresh'
  BY <1>5, <1>7 DEF Mirror, RoleEffectsFresh
<1>11. NodesFollow'
  BY <1>4, <1>7, <1>8 DEF Mirror, NodesFollow, EntityKeys, Shows, Key
<1>12. AbsentMiss'
  <2> SUFFICES ASSUME NEW v \in Uuids \ DOMAIN nodes', NEW k \in EntityKeys(v), k \in DOMAIN cache, Settled(k)'
               PROVE  FALSE
    BY <1>3 DEF AbsentMiss, EntityKeys, Key
  <2>1. CASE v \in DOMAIN nodes
    <3>1. v = u /\ k.about = u
      BY <1>7, <2>1 DEF EntityKeys, Key
    <3>2. QED
      BY <1>7, <2>1, <3>1 DEF Settled
  <2>2. CASE v \notin DOMAIN nodes
    BY <1>8, <2>2 DEF Mirror, AbsentMiss
  <2>3. QED
    BY <2>1, <2>2
<1>13. QED
  BY <1>3, <1>6, <1>9, <1>10, <1>11, <1>12 DEF Mirror

LEMMA NextMirror ==
  ASSUME Mirror, [Next]_vars
  PROVE  Mirror'
<1> DEFINE Rest == RoleEffectsFresh' /\ NodesFollow' /\ AbsentMiss' /\ RulesFollow'
<1>1. ASSUME \A k : Untouched(k), UNCHANGED <<roleVars, nodes, missed>>
      PROVE  Rest
  <2>1. nodes' = nodes
    BY <1>1
  <2>2. \A u \in DOMAIN nodes : Quiet(nodes'[u], nodes[u])
    BY <2>1 DEF Quiet, Mirror, MixTypes
  <2>3. QED
    BY <1>1, <2>1, <2>2, QuietStep
<1>2. ASSUME NEW u \in Uuids, Publication(u)
      PROVE  Mirror'
  <2>1. TeeFollowsCache' /\ (\A k : Untouched(k)) /\ UNCHANGED <<ticking, nodeVars, roleVars, missed>>
    BY <1>2, PublicationTee DEF Mirror
  <2>2. UNCHANGED <<live, changes>>
    BY <1>2 DEF Publication, PublishEntity, HandleCommand, AnnounceDeparture, connVars
  <2>3. MixTypes'
    BY <2>1, <2>2 DEF Mirror, MixTypes, nodeVars
  <2>4. Rest
    BY <1>1, <2>1 DEF nodeVars
  <2>5. QED
    BY <2>1, <2>3, <2>4 DEF Mirror
<1>3. ASSUME NEW u \in Uuids, Admit(u)
      PROVE  Mirror'
  <2>1. /\ UNCHANGED <<busVars, teeVars, ticking, nodeVars, roleVars, missed>>
        /\ live' = live \cup {u}
        /\ changes' = changes \o << [do |-> "add", uuid |-> u], [do |-> "enable_out", uuid |-> u] >>
    BY <1>3 DEF Admit
  <2>2. TeeFollowsCache' /\ (\A k : Untouched(k))
    BY <2>1, SameTee DEF Mirror, Untouched
  <2>3. MixTypes'
    <3>1. << [do |-> "add", uuid |-> u], [do |-> "enable_out", uuid |-> u] >> \in Seq(Change)
      BY DEF Change
    <3>2. changes' \in Seq(Change)
      BY <2>1, <3>1 DEF Mirror, MixTypes
    <3>3. QED
      BY <2>1, <3>2 DEF Mirror, MixTypes, nodeVars
  <2>4. Rest
    BY <1>1, <2>1, <2>2 DEF nodeVars
  <2>5. QED
    BY <2>2, <2>3, <2>4 DEF Mirror
<1>4. ASSUME StartTick
      PROVE  Mirror'
  <2>1. UNCHANGED <<live, changes, nodeVars, roleVars, missed>> /\ ticking' = TRUE
    BY <1>4 DEF StartTick, connVars
  <2>2. TeeFollowsCache' /\ (\A k : Untouched(k))
    BY <1>4, StartTickTee DEF Mirror
  <2>3. MixTypes'
    BY <2>1 DEF Mirror, MixTypes, nodeVars
  <2>4. Rest
    BY <1>1, <2>1, <2>2 DEF nodeVars
  <2>5. QED
    BY <2>2, <2>3, <2>4 DEF Mirror
<1>5. ASSUME DoEnableOutputNode
      PROVE  Mirror'
  <2> DEFINE u == Head(changes).uuid
  <2>1. /\ UNCHANGED <<busVars, teeVars, ticking, live, roleVars, missed>>
        /\ changes # <<>> /\ changes' = Tail(changes)
        /\ nodes' = IF u \in DOMAIN nodes THEN [nodes EXCEPT ![u].out = u \in live] ELSE nodes
    BY <1>5 DEF DoEnableOutputNode, TakeChange, connVars
  <2> HIDE DEF u
  <2>2. TeeFollowsCache' /\ (\A k : Untouched(k))
    BY <2>1, SameTee DEF Mirror, Untouched
  <2>3. DOMAIN nodes' = DOMAIN nodes /\ \A v \in DOMAIN nodes : v # u => nodes'[v] = nodes[v]
    BY <2>1
  <2>4. ASSUME NEW v \in DOMAIN nodes PROVE Quiet(nodes'[v], nodes[v])
    <3>1. DOMAIN nodes[v] = EncoderFields
      BY DEF Mirror, MixTypes
    <3>2. nodes'[v] = nodes[v] \/ nodes'[v] = [nodes[v] EXCEPT !.out = u \in live]
      BY <2>1
    <3>3. QED
      BY <3>1, <3>2 DEF Quiet
  <2>5. MixTypes'
    <3>1. changes' \in Seq(Change)
      BY <2>1 DEF Mirror, MixTypes
    <3>2. QED
      BY <2>1, <2>3, <2>4, <3>1 DEF Mirror, MixTypes, Quiet, EncoderFields
  <2>6. Rest
    BY <2>1, <2>2, <2>3, <2>4, QuietStep
  <2>7. QED
    BY <2>2, <2>5, <2>6 DEF Mirror
<1>6. ASSUME Render
      PROVE  Mirror'
  <2>1. /\ UNCHANGED <<busVars, teeVars, live, changes, roleVars, missed>>
        /\ ticking /\ draining = Empty /\ ticking' = FALSE
        /\ nodes' = [l \in DOMAIN nodes |-> EncodePeers(l)]
    BY <1>6 DEF Render, connVars
  <2>2. TeeFollowsCache' /\ (\A k : Untouched(k))
    BY <2>1, SameTee DEF Mirror, Untouched
  <2>3. ASSUME NEW v \in DOMAIN nodes PROVE Quiet(nodes'[v], nodes[v])
    <3>1. DOMAIN nodes[v] = EncoderFields
      BY DEF Mirror, MixTypes
    <3>2. nodes'[v] = nodes[v] \/ \E dry, wet : nodes'[v] = [nodes[v] EXCEPT !.dry = dry, !.wet = wet]
      BY <2>1 DEF EncodePeers
    <3>3. QED
      BY <3>1, <3>2 DEF Quiet
  <2>4. MixTypes'
    BY <2>1, <2>3 DEF Mirror, MixTypes, Quiet, EncoderFields
  <2>5. Rest
    BY <2>1, <2>2, <2>3, QuietStep
  <2>6. QED
    BY <2>2, <2>4, <2>5 DEF Mirror
<1>7. ASSUME UNCHANGED vars
      PROVE  Mirror'
  <2>1. UNCHANGED <<busVars, teeVars, live, changes, ticking, nodeVars, roleVars, missed>>
    BY <1>7 DEF vars, connVars
  <2>2. TeeFollowsCache' /\ (\A k : Untouched(k))
    BY <2>1, SameTee DEF Mirror, Untouched
  <2>3. MixTypes'
    BY <2>1 DEF Mirror, MixTypes, nodeVars
  <2>4. Rest
    BY <1>1, <2>1, <2>2 DEF nodeVars
  <2>5. QED
    BY <2>2, <2>3, <2>4 DEF Mirror
<1>8. ASSUME NEW u \in Uuids, Depart(u)
      PROVE  Mirror'
  <2>1. /\ UNCHANGED <<busVars, teeVars, ticking, nodeVars, roleVars, missed>>
        /\ live' = live \ {u}
        /\ changes' = Append(changes, [do |-> "delete", uuid |-> u])
    BY <1>8 DEF Depart
  <2>2. TeeFollowsCache' /\ (\A k : Untouched(k))
    BY <2>1, SameTee DEF Mirror, Untouched
  <2>3. MixTypes'
    <3>1. [do |-> "delete", uuid |-> u] \in Change
      BY DEF Change
    <3>2. changes' \in Seq(Change)
      BY <2>1, <3>1 DEF Mirror, MixTypes
    <3>3. QED
      BY <2>1, <3>2 DEF Mirror, MixTypes, nodeVars
  <2>4. Rest
    BY <1>1, <2>1, <2>2 DEF nodeVars
  <2>5. QED
    BY <2>2, <2>3, <2>4 DEF Mirror
<1>9. QED
  BY <1>2, <1>3, <1>4, <1>5, <1>6, <1>7, <1>8, ApplyEntityOpMirror, ApplySpaceOpMirror,
     DoAddNodeMirror, DoRemoveNodeMirror DEF Next, Publication

LEMMA InitMirror == Init => Mirror
<1> SUFFICES ASSUME Init PROVE Mirror
  OBVIOUS
<1>1. /\ live = {} /\ DOMAIN cache = {} /\ changes = <<>> /\ ticking = FALSE /\ DOMAIN nodes = {}
      /\ mutedRoles = {} /\ DOMAIN roleGains = {} /\ DOMAIN roleAtts = {}
  BY DEF Init, Empty
<1>2. TeeFollowsCache
  BY InitTee
<1>3. MixTypes
  <2>1. changes \in Seq(Change)
    BY <1>1
  <2>2. QED
    BY <1>1, <2>1 DEF MixTypes
<1>4. RoleEffectsFresh /\ NodesFollow /\ AbsentMiss
  BY <1>1 DEF RoleEffectsFresh, NodesFollow, AbsentMiss
<1>5. RulesFollow
  <2>1. \A k : Latest(k).tomb = TRUE
    BY <1>1 DEF Latest, NoOp
  <2>2. QED
    BY <1>1, <2>1 DEF RulesFollow, RuleShows
<1>6. QED
  BY <1>2, <1>3, <1>4, <1>5 DEF Mirror

\* What the role rules make of an encoder is up to date in every state.
THEOREM EffectsStayFresh == Spec => []RoleEffectsFresh
<1>1. Init => Mirror
  BY InitMirror
<1>2. Mirror /\ [Next]_vars => Mirror'
  BY NextMirror
<1>3. Mirror => RoleEffectsFresh
  BY DEF Mirror
<1>4. QED
  BY <1>1, <1>2, <1>3, PTL DEF Spec

\* Of every key the tee has drained the mixer shows what the cache says, except
\* of those that missed their node.
THEOREM MixerFollowsCache == Spec => []PolicyFollowsCache
<1>1. Init => Mirror
  BY InitMirror
<1>2. Mirror /\ [Next]_vars => Mirror'
  BY NextMirror
<1>3. ASSUME Mirror PROVE PolicyFollowsCache
  <2>1. ASSUME NEW k
        PROVE  /\ InForce(k) <=> ~Latest(k).tomb
               /\ InForce(k) => Latest(k) = cache[k]
    BY DEF InForce, Latest, NoOp
  <2>2. ASSUME NEW r \in Roles
        PROVE  /\ Key("space", Nobody, "roles-muted", r) \in RuleKeys
               /\ Key("space", Nobody, "roles-gain", r) \in RuleKeys
               /\ Key("space", Nobody, "roles-attenuation", r) \in RuleKeys
    BY DEF RuleKeys
  <2>3. \A f, r : Key("space", Nobody, f, r).field = f /\ Key("space", Nobody, f, r).arg = r
    BY DEF Key
  <2>4. RulesFollowCache
    <3>1. ASSUME NEW r \in Roles
          PROVE  LET k == Key("space", Nobody, "roles-muted", r)
                 IN Drained(k) => (r \in mutedRoles <=> InForce(k))
      BY <1>3, <2>1, <2>2, <2>3 DEF Mirror, RulesFollow
    <3>2. ASSUME NEW r \in Roles
          PROVE  LET k == Key("space", Nobody, "roles-gain", r)
                 IN Drained(k) => /\ r \in DOMAIN roleGains <=> InForce(k)
                                  /\ InForce(k) => roleGains[r] = cache[k].val
      BY <1>3, <2>1, <2>2, <2>3 DEF Mirror, RulesFollow, RuleShows
    <3>3. ASSUME NEW r \in Roles
          PROVE  LET k == Key("space", Nobody, "roles-attenuation", r)
                 IN Drained(k) => /\ r \in DOMAIN roleAtts <=> InForce(k)
                                  /\ InForce(k) => roleAtts[r] = cache[k].val
      BY <1>3, <2>1, <2>2, <2>3 DEF Mirror, RulesFollow, RuleShows
    <3>4. QED
      BY <3>1, <3>2, <3>3 DEF RulesFollowCache, InForce
  <2>5. ASSUME NEW u \in DOMAIN nodes PROVE NodeFollowsCache(u)
    <3> DEFINE n == nodes[u]
               K(f, v) == Key("entity", u, f, v)
    <3>1. \A f, v : K(f, v).field = f /\ K(f, v).arg = v
      BY DEF Key
    <3>2. ASSUME NEW f, NEW v, K(f, v) \in EntityKeys(u), Settled(K(f, v))
          PROVE  Shows(n, u, K(f, v), Latest(K(f, v)))
      BY <1>3, <3>2 DEF Mirror, NodesFollow
    <3>3. n.spaceMuted \in BOOLEAN
      BY <1>3 DEF Mirror, MixTypes
    <3>4. /\ K("muted", Nobody) \in EntityKeys(u)
          /\ K("gain", Nobody) \in EntityKeys(u)
          /\ K("attenuation", Nobody) \in EntityKeys(u)
          /\ \A v \in Uuids : K("mutes", v) \in EntityKeys(u) /\ K("solos", v) \in EntityKeys(u)
          /\ \A r \in Roles : K("roles", r) \in EntityKeys(u) /\ K("mute-roles", r) \in EntityKeys(u)
      BY DEF EntityKeys
    <3> HIDE DEF n, K
    <3>5. Settled(K("muted", Nobody)) => (n.spaceMuted <=> InForce(K("muted", Nobody)))
      BY <2>1, <3>1, <3>2, <3>4 DEF Shows
    <3>6. Settled(K("gain", Nobody)) =>
            n.gain = IF InForce(K("gain", Nobody)) THEN cache[K("gain", Nobody)].val ELSE Config[u].gain
      BY <2>1, <3>1, <3>2, <3>4 DEF Shows
    <3>7. Settled(K("attenuation", Nobody)) =>
            n.att = IF InForce(K("attenuation", Nobody)) THEN cache[K("attenuation", Nobody)].val
                    ELSE Config[u].att
      BY <2>1, <3>1, <3>2, <3>4 DEF Shows
    <3>8. ASSUME NEW v \in Uuids
          PROVE  /\ Settled(K("mutes", v)) => (v \in n.mutes <=> InForce(K("mutes", v)))
                 /\ Settled(K("solos", v)) => (v \in n.solos <=> InForce(K("solos", v)))
      BY <2>1, <3>1, <3>2, <3>4 DEF Shows
    <3>9. ASSUME NEW r \in Roles
          PROVE  /\ Settled(K("roles", r)) => (r \in n.roles <=> InForce(K("roles", r)))
                 /\ Settled(K("mute-roles", r)) => (r \in n.muteRoles <=> InForce(K("mute-roles", r)))
      BY <2>1, <3>1, <3>2, <3>4 DEF Shows
    <3>10. QED
      BY <3>3, <3>5, <3>6, <3>7, <3>8, <3>9 DEF NodeFollowsCache, InForce, n, K
  <2>6. QED
    BY <2>4, <2>5 DEF PolicyFollowsCache
<1>4. QED
  BY <1>1, <1>2, <1>3, PTL DEF Spec

-------------------------------------------------------------------------------
(* The order of the changes.                                               *)

\* A change joins the queue of an identity that is admitted or that departs.
LEMMA AdmitApart ==
  ASSUME NEW c \in Seq(Change), NEW mixed, NEW connected, AddsApart(c, mixed, connected),
         NEW u \in Uuids, u \notin connected, NEW en \in Change, en.do = "enable_out"
  PROVE  AddsApart(c \o <<Added(u), en>>, mixed, connected \cup {u})
<1> DEFINE d == c \o <<Added(u), en>>
<1>1. /\ DOMAIN c = 1..Len(c) /\ Len(c) \in Nat
      /\ DOMAIN d = 1..(Len(c) + 2) /\ Len(d) = Len(c) + 2
      /\ \A i \in DOMAIN c : d[i] = c[i]
      /\ d[Len(c) + 1] = Added(u) /\ d[Len(c) + 2] = en
  BY DEF Added, Change
<1>2. \A v : en # Added(v)
  BY DEF Added
<1>3. \A v : v # u => Added(v) # Added(u)
  BY DEF Added
<1> HIDE DEF d
<1>4. ASSUME NEW v \in Uuids, NEW i \in Int, NEW j \in Int, DeletedBetween(c, v, i, j)
      PROVE  DeletedBetween(d, v, i, j) /\ DeletedBetween(d, v, i, j + 2)
  BY <1>1, <1>4 DEF DeletedBetween
<1>5. ASSUME NEW v \in Uuids, NEW i \in DOMAIN d, d[i] = Added(v)
      PROVE  (i \in DOMAIN c /\ c[i] = Added(v)) \/ (i = Len(c) + 1 /\ v = u)
  BY <1>1, <1>2, <1>3, <1>5
<1>6. ASSUME NEW v \in Uuids, NEW i \in DOMAIN d, NEW j \in DOMAIN d,
             i < j, d[i] = Added(v), d[j] = Added(v)
      PROVE  DeletedBetween(d, v, i, j)
  <2>1. i \in DOMAIN c /\ c[i] = Added(v)
    BY <1>1, <1>5, <1>6
  <2>2. CASE j \in DOMAIN c
    BY <1>1, <1>4, <1>6, <2>1, <2>2 DEF AddsApart
  <2>3. CASE j = Len(c) + 1 /\ v = u
    BY <1>1, <1>4, <2>1, <2>3 DEF AddsApart
  <2>4. QED
    BY <1>5, <1>6, <2>2, <2>3
<1>7. ASSUME NEW v \in Uuids, NEW j \in DOMAIN d, v \in mixed, d[j] = Added(v)
      PROVE  DeletedBetween(d, v, 0, j)
  <2>1. CASE j \in DOMAIN c /\ c[j] = Added(v)
    BY <1>1, <1>4, <1>7, <2>1 DEF AddsApart
  <2>2. CASE j = Len(c) + 1 /\ v = u
    BY <1>1, <1>4, <1>7, <2>2 DEF AddsApart
  <2>3. QED
    BY <1>5, <1>7, <2>1, <2>2
<1>8. ASSUME NEW v \in Uuids, v \notin connected \cup {u}
      PROVE  /\ \A i \in DOMAIN d : d[i] = Added(v) => DeletedBetween(d, v, i, Len(d) + 1)
             /\ v \in mixed => DeletedBetween(d, v, 0, Len(d) + 1)
  <2>1. Len(d) + 1 = (Len(c) + 1) + 2
    BY <1>1
  <2>2. ASSUME NEW i \in DOMAIN d, d[i] = Added(v) PROVE DeletedBetween(d, v, i, Len(d) + 1)
    <3>1. i \in DOMAIN c /\ c[i] = Added(v)
      BY <1>5, <1>8, <2>2
    <3>2. DeletedBetween(c, v, i, Len(c) + 1)
      BY <1>8, <3>1 DEF AddsApart
    <3>3. QED
      BY <1>1, <1>4, <2>1, <3>1, <3>2
  <2>3. v \in mixed => DeletedBetween(d, v, 0, Len(d) + 1)
    BY <1>1, <1>4, <1>8, <2>1 DEF AddsApart
  <2>4. QED
    BY <2>2, <2>3
<1>9. AddsApart(d, mixed, connected \cup {u})
  BY <1>6, <1>7, <1>8 DEF AddsApart
<1>10. QED
  BY <1>9 DEF d

LEMMA DepartApart ==
  ASSUME NEW c \in Seq(Change), NEW mixed, NEW connected, AddsApart(c, mixed, connected),
         NEW u \in Uuids
  PROVE  AddsApart(Append(c, Deleted(u)), mixed, connected \ {u})
<1> DEFINE d == Append(c, Deleted(u))
<1>1. /\ DOMAIN c = 1..Len(c) /\ Len(c) \in Nat
      /\ DOMAIN d = 1..(Len(c) + 1) /\ Len(d) = Len(c) + 1
      /\ \A i \in DOMAIN c : d[i] = c[i]
      /\ d[Len(c) + 1] = Deleted(u)
  BY DEF Deleted, Change
<1>2. \A v : Deleted(u) # Added(v)
  BY DEF Added, Deleted
<1> HIDE DEF d
<1>3. ASSUME NEW v \in Uuids, NEW i \in Int, NEW j \in Int, DeletedBetween(c, v, i, j)
      PROVE  DeletedBetween(d, v, i, j) /\ DeletedBetween(d, v, i, j + 1)
  BY <1>1, <1>3 DEF DeletedBetween
<1>4. ASSUME NEW v \in Uuids, NEW i \in DOMAIN d, d[i] = Added(v)
      PROVE  i \in DOMAIN c /\ c[i] = Added(v)
  BY <1>1, <1>2, <1>4
<1>5. ASSUME NEW v \in Uuids, NEW i \in DOMAIN d, NEW j \in DOMAIN d,
             i < j, d[i] = Added(v), d[j] = Added(v)
      PROVE  DeletedBetween(d, v, i, j)
  BY <1>1, <1>3, <1>4, <1>5 DEF AddsApart
<1>6. ASSUME NEW v \in Uuids, NEW j \in DOMAIN d, v \in mixed, d[j] = Added(v)
      PROVE  DeletedBetween(d, v, 0, j)
  BY <1>1, <1>3, <1>4, <1>6 DEF AddsApart
<1>7. ASSUME NEW v \in Uuids, v \notin connected \ {u}
      PROVE  /\ \A i \in DOMAIN d : d[i] = Added(v) => DeletedBetween(d, v, i, Len(d) + 1)
             /\ v \in mixed => DeletedBetween(d, v, 0, Len(d) + 1)
  <2>1. CASE v = u
    <3>1. ASSUME NEW i \in DOMAIN c \cup {0} PROVE DeletedBetween(d, v, i, Len(d) + 1)
      <4>1. Len(c) + 1 \in DOMAIN d /\ i < Len(c) + 1 /\ Len(c) + 1 < Len(d) + 1
        BY <1>1
      <4>2. QED
        BY <1>1, <2>1, <4>1 DEF DeletedBetween
    <3>2. QED
      BY <1>4, <3>1
  <2>2. CASE v \notin connected
    <3>1. Len(d) + 1 = (Len(c) + 1) + 1
      BY <1>1
    <3>2. ASSUME NEW i \in DOMAIN d, d[i] = Added(v) PROVE DeletedBetween(d, v, i, Len(d) + 1)
      <4>1. DeletedBetween(c, v, i, Len(c) + 1)
        BY <1>4, <2>2, <3>2 DEF AddsApart
      <4>2. QED
        BY <1>1, <1>3, <3>1, <4>1
    <3>3. v \in mixed => DeletedBetween(d, v, 0, Len(d) + 1)
      BY <1>1, <1>3, <2>2, <3>1 DEF AddsApart
    <3>4. QED
      BY <3>2, <3>3
  <2>3. QED
    BY <1>7, <2>1, <2>2
<1>8. AddsApart(d, mixed, connected \ {u})
  BY <1>5, <1>6, <1>7 DEF AddsApart
<1>9. QED
  BY <1>8 DEF d

\* The mixer takes the first.
MixedAfter(mixed, change) ==
  IF change.do = "add" THEN mixed \cup {change.uuid}
  ELSE IF change.do = "delete" THEN mixed \ {change.uuid}
  ELSE mixed

LEMMA TailApart ==
  ASSUME NEW c \in Seq(Change), c # <<>>, NEW mixed, NEW connected, AddsApart(c, mixed, connected)
  PROVE  /\ AddsApart(Tail(c), MixedAfter(mixed, Head(c)), connected)
         /\ Head(c).do = "add" => Head(c).uuid \notin mixed
<1> DEFINE d == Tail(c)
           h == Head(c)
           after == MixedAfter(mixed, h)
<1>1. /\ DOMAIN c = 1..Len(c) /\ Len(c) \in Nat \ {0}
      /\ DOMAIN d = 1..(Len(c) - 1) /\ Len(d) = Len(c) - 1
      /\ \A i \in DOMAIN d : d[i] = c[i + 1]
      /\ h = c[1] /\ h \in Change
  OBVIOUS
<1>2. h.do = "add" => h = Added(h.uuid)
  BY <1>1 DEF Change, Added
<1>3. h.uuid \in Uuids /\ h.do \in {"add", "enable_out", "delete"}
  BY <1>1 DEF Change
<1>4. \A v : h = Deleted(v) => h.do = "delete" /\ h.uuid = v
  BY DEF Deleted
<1>5. \A v : h = Added(v) => h.do = "add" /\ h.uuid = v
  BY DEF Added
<1> HIDE DEF d, h, after
<1>6. ASSUME NEW v \in Uuids, NEW i \in Int, NEW j \in Int, i >= 0, DeletedBetween(c, v, i + 1, j + 1)
      PROVE  DeletedBetween(d, v, i, j)
  <2>1. PICK m \in DOMAIN c : i + 1 < m /\ m < j + 1 /\ c[m] = Deleted(v)
    BY <1>6 DEF DeletedBetween
  <2>2. m - 1 \in DOMAIN d /\ d[m - 1] = c[m] /\ i < m - 1 /\ m - 1 < j
    BY <1>1, <1>6, <2>1
  <2>3. QED
    BY <2>1, <2>2 DEF DeletedBetween
<1>7. ASSUME NEW v \in Uuids, v \in after, NEW j \in Int, v \in mixed => DeletedBetween(c, v, 0, j + 1),
             h = Added(v) => DeletedBetween(c, v, 1, j + 1)
      PROVE  DeletedBetween(d, v, 0, j)
  <2>1. h # Deleted(v)
    BY <1>4, <1>7 DEF after, MixedAfter
  <2>2. v \in mixed \/ h = Added(v)
    BY <1>2, <1>7 DEF after, MixedAfter
  <2>3. v \in mixed => DeletedBetween(c, v, 1, j + 1)
    BY <1>1, <1>7, <2>1 DEF DeletedBetween
  <2>4. DeletedBetween(c, v, 1, j + 1)
    BY <1>7, <2>2, <2>3
  <2>5. QED
    BY <1>6, <2>4
<1>8. ASSUME NEW v \in Uuids, NEW i \in DOMAIN d, NEW j \in DOMAIN d,
             i < j, d[i] = Added(v), d[j] = Added(v)
      PROVE  DeletedBetween(d, v, i, j)
  <2>1. /\ i + 1 \in DOMAIN c /\ j + 1 \in DOMAIN c /\ i + 1 < j + 1 /\ i \in Int /\ j \in Int /\ i >= 0
        /\ c[i + 1] = Added(v) /\ c[j + 1] = Added(v)
    BY <1>1, <1>8
  <2>2. DeletedBetween(c, v, i + 1, j + 1)
    BY <2>1 DEF AddsApart
  <2>3. QED
    BY <1>6, <2>1, <2>2
<1>9. ASSUME NEW v \in Uuids, NEW j \in DOMAIN d, v \in after, d[j] = Added(v)
      PROVE  DeletedBetween(d, v, 0, j)
  <2>1. j + 1 \in DOMAIN c /\ 1 < j + 1 /\ j \in Int /\ c[j + 1] = Added(v) /\ 1 \in DOMAIN c
    BY <1>1, <1>9
  <2>2. v \in mixed => DeletedBetween(c, v, 0, j + 1)
    BY <2>1 DEF AddsApart
  <2>3. h = Added(v) => DeletedBetween(c, v, 1, j + 1)
    BY <1>1, <2>1 DEF AddsApart
  <2>4. QED
    BY <1>7, <1>9, <2>1, <2>2, <2>3
<1>10. ASSUME NEW v \in Uuids, v \notin connected
       PROVE  /\ \A i \in DOMAIN d : d[i] = Added(v) => DeletedBetween(d, v, i, Len(d) + 1)
              /\ v \in after => DeletedBetween(d, v, 0, Len(d) + 1)
  <2>1. Len(c) + 1 = (Len(d) + 1) + 1 /\ Len(d) + 1 \in Int /\ 1 \in DOMAIN c
    BY <1>1
  <2>2. ASSUME NEW i \in DOMAIN d, d[i] = Added(v) PROVE DeletedBetween(d, v, i, Len(d) + 1)
    <3>1. i + 1 \in DOMAIN c /\ c[i + 1] = Added(v) /\ i \in Int /\ i >= 0
      BY <1>1, <2>2
    <3>2. DeletedBetween(c, v, i + 1, Len(c) + 1)
      BY <1>10, <3>1 DEF AddsApart
    <3>3. QED
      BY <1>6, <2>1, <3>1, <3>2
  <2>3. v \in after => DeletedBetween(d, v, 0, Len(d) + 1)
    <3>1. v \in mixed => DeletedBetween(c, v, 0, Len(c) + 1)
      BY <1>10 DEF AddsApart
    <3>2. h = Added(v) => DeletedBetween(c, v, 1, Len(c) + 1)
      BY <1>1, <1>10, <2>1 DEF AddsApart
    <3>3. QED
      BY <1>7, <2>1, <3>1, <3>2
  <2>4. QED
    BY <2>2, <2>3
<1>11. AddsApart(d, after, connected)
  BY <1>8, <1>9, <1>10 DEF AddsApart
<1>12. h.do = "add" => h.uuid \notin mixed
  <2> SUFFICES ASSUME h.do = "add", h.uuid \in mixed PROVE FALSE
    OBVIOUS
  <2>1. 1 \in DOMAIN c /\ c[1] = Added(h.uuid)
    BY <1>1, <1>2
  <2>2. DeletedBetween(c, h.uuid, 0, 1)
    BY <1>3, <2>1 DEF AddsApart
  <2>3. QED
    BY <1>1, <2>2 DEF DeletedBetween
<1>13. QED
  BY <1>11, <1>12 DEF d, h, after

Frame == {"out", "dry", "wet"}

\* An op changes neither an output nor a frame.
LEMMA OpsKeepFrames ==
  ASSUME Mirror, NEW k0 \in DOMAIN draining, ApplyEntityOp(k0) \/ ApplySpaceOp(k0)
  PROVE  /\ DOMAIN nodes' = DOMAIN nodes
         /\ \A u \in DOMAIN nodes : \A f \in Frame : nodes'[u][f] = nodes[u][f]
         /\ UNCHANGED <<live, changes, ticking>> /\ ticking
<1>1. UNCHANGED <<live, changes, ticking>> /\ ticking
  BY DEF ApplyEntityOp, ApplySpaceOp, connVars
<1>2. \A u \in DOMAIN nodes : /\ DOMAIN nodes[u] = EncoderFields /\ nodes[u].spaceMuted \in BOOLEAN
                              /\ Fresh(nodes[u], mutedRoles, roleGains, roleAtts)
  BY FreshNodes DEF Mirror, MixTypes
<1>3. CASE ApplyEntityOp(k0)
  <2> DEFINE u0 == k0.about
             m == Mutated(u0, nodes[u0], k0, draining[k0])
  <2>1. k0.topic = "entity" /\ WellFormed(k0, draining[k0])
    BY <1>3 DEF ApplyEntityOp, Mirror, TeeFollowsCache
  <2>2. nodes' = IF u0 \in DOMAIN nodes THEN [nodes EXCEPT ![u0] = m] ELSE nodes
    BY <1>3 DEF ApplyEntityOp
  <2>3. u0 \in DOMAIN nodes => \A f \in Frame : m[f] = nodes[u0][f]
    BY <1>2, <2>1, MutatedEncoder DEF Frame
  <2> HIDE DEF m
  <2>4. QED
    BY <1>1, <2>2, <2>3
<1>4. CASE ApplySpaceOp(k0)
  <2>1. DOMAIN nodes' = DOMAIN nodes
    BY <1>4 DEF ApplySpaceOp
  <2>2. ASSUME NEW u \in DOMAIN nodes, NEW f \in Frame PROVE nodes'[u][f] = nodes[u][f]
    <3>1. \/ nodes'[u] = nodes[u]
          \/ nodes'[u] = RefreshEncoderRoleEffects(nodes[u], mutedRoles', roleGains', roleAtts')
      BY <1>4 DEF ApplySpaceOp
    <3>2. QED
      BY <1>2, <3>1, RefreshedEncoder DEF Frame
  <2>3. QED
    BY <1>1, <2>1, <2>2
<1>5. QED
  BY <1>3, <1>4

\* The mixer takes a change, and the next of the queue meets a fresh encoder.
LEMMA TakeChangeOrder ==
  ASSUME Mirror, Order, DoAddNode \/ DoEnableOutputNode \/ DoRemoveNode
  PROVE  Order'
<1> DEFINE h == Head(changes)
           u == h.uuid
<1>1. changes # <<>> /\ changes' = Tail(changes) /\ live' = live
  BY DEF DoAddNode, DoEnableOutputNode, DoRemoveNode, TakeChange, connVars
<1>2. /\ DOMAIN changes = 1..Len(changes) /\ Len(changes) \in Nat \ {0}
      /\ DOMAIN changes' = 1..(Len(changes) - 1)
      /\ \A i \in DOMAIN changes' : changes'[i] = changes[i + 1]
      /\ h = changes[1]
      /\ changes' # <<>> => 2 \in DOMAIN changes /\ Head(changes') = changes[2]
  BY <1>1 DEF Mirror, MixTypes
<1>3. /\ AddsApart(changes', MixedAfter(DOMAIN nodes, h), live)
      /\ h.do = "add" => u \notin DOMAIN nodes
  BY <1>1, TailApart DEF Mirror, MixTypes, Order
<1>4. EnablesFollowAdds(changes')
  <2> SUFFICES ASSUME NEW i \in DOMAIN changes', i > 1, changes'[i].do = "enable_out"
               PROVE  changes'[i - 1] = Added(changes'[i].uuid)
    BY DEF EnablesFollowAdds
  <2>1. /\ i + 1 \in DOMAIN changes /\ i + 1 > 1 /\ i - 1 \in DOMAIN changes' /\ (i - 1) + 1 = i /\ (i + 1) - 1 = i
    BY <1>2
  <2>2. QED
    BY <1>2, <2>1 DEF Order, EnablesFollowAdds
<1>5. changes' # <<>> /\ Head(changes').do = "enable_out" => h = Added(Head(changes').uuid)
  <2>1. 2 > 1 /\ 2 - 1 = 1
    OBVIOUS
  <2>2. QED
    BY <1>2, <2>1 DEF Order, EnablesFollowAdds
<1>6. \A v : h = Added(v) => h.do = "add" /\ h.uuid = v
  BY DEF Added
<1>7. CASE DoAddNode
  <2>1. h.do = "add" /\ nodes' = Put(nodes, u, NewEncoder(u, FreeSlot))
    BY <1>3, <1>7 DEF DoAddNode, TakeChange
  <2>2. u \in Uuids
    BY <1>1, HeadChange DEF Mirror, MixTypes
  <2>3. ~NewEncoder(u, FreeSlot).out
    BY <2>2, NewEncoderIsUnset
  <2> HIDE DEF h, u
  <2>4. DOMAIN nodes' = MixedAfter(DOMAIN nodes, h)
    BY <2>1 DEF Put, MixedAfter, u
  <2>5. ~nodes'[u].out
    BY <2>1, <2>3 DEF Put
  <2>6. FirstOutput'
    BY <1>5, <1>6, <2>5 DEF FirstOutput, u
  <2>7. QED
    BY <1>1, <1>3, <1>4, <2>4, <2>6 DEF Order
<1>8. CASE DoEnableOutputNode
  <2>1. h.do = "enable_out" /\ DOMAIN nodes' = DOMAIN nodes
    BY <1>8 DEF DoEnableOutputNode, TakeChange
  <2> HIDE DEF h, u
  <2>2. DOMAIN nodes' = MixedAfter(DOMAIN nodes, h)
    BY <2>1 DEF MixedAfter
  <2>3. FirstOutput'
    BY <1>5, <1>6, <2>1 DEF FirstOutput
  <2>4. QED
    BY <1>1, <1>3, <1>4, <2>2, <2>3 DEF Order
<1>9. CASE DoRemoveNode
  <2>1. h.do = "delete" /\ DOMAIN nodes' = DOMAIN nodes \ {u}
    BY <1>9 DEF DoRemoveNode, TakeChange, nodeVars, Del
  <2> HIDE DEF h, u
  <2>2. DOMAIN nodes' = MixedAfter(DOMAIN nodes, h)
    BY <2>1 DEF MixedAfter, u
  <2>3. FirstOutput'
    BY <1>5, <1>6, <2>1 DEF FirstOutput
  <2>4. QED
    BY <1>1, <1>3, <1>4, <2>2, <2>3 DEF Order
<1>10. QED
  BY <1>7, <1>8, <1>9

\* Everybody else leaves the queue alone or adds to its end.
LEMMA NextOrder ==
  ASSUME Mirror, Order, [Next]_vars
  PROVE  Order'
<1> DEFINE SameOutputs ==
             /\ DOMAIN nodes' = DOMAIN nodes
             /\ \A u \in DOMAIN nodes : nodes'[u].out = nodes[u].out
<1>1. ASSUME SameOutputs, UNCHANGED <<changes, live>>
      PROVE  Order'
  BY <1>1 DEF Order, FirstOutput
<1>2. ASSUME NEW u \in Uuids, Admit(u)
      PROVE  Order'
  <2> DEFINE en == [do |-> "enable_out", uuid |-> u]
  <2>1. /\ u \notin live /\ live' = live \cup {u} /\ nodes' = nodes
        /\ changes' = changes \o << Added(u), en >>
    BY <1>2 DEF Admit, nodeVars, Added
  <2>2. en \in Change /\ en.do = "enable_out" /\ en.uuid = u
    BY DEF Change
  <2> HIDE DEF en
  <2>3. AddsApart(changes', DOMAIN nodes, live')
    BY <2>1, <2>2, AdmitApart DEF Mirror, MixTypes, Order
  <2>4. /\ DOMAIN changes = 1..Len(changes) /\ Len(changes) \in Nat
        /\ DOMAIN changes' = 1..(Len(changes) + 2)
        /\ \A i \in DOMAIN changes : changes'[i] = changes[i]
        /\ changes'[Len(changes) + 1] = Added(u) /\ changes'[Len(changes) + 2] = en
        /\ Head(changes') = IF changes = <<>> THEN Added(u) ELSE Head(changes)
    BY <2>1, <2>2 DEF Mirror, MixTypes, Added, Change
  <2>5. Added(u).do # "enable_out"
    BY DEF Added
  <2>6. EnablesFollowAdds(changes')
    <3> SUFFICES ASSUME NEW i \in DOMAIN changes', i > 1, changes'[i].do = "enable_out"
                 PROVE  changes'[i - 1] = Added(changes'[i].uuid)
      BY DEF EnablesFollowAdds
    <3>1. CASE i \in DOMAIN changes
      <4>1. i - 1 \in DOMAIN changes
        BY <2>4, <3>1
      <4>2. QED
        BY <2>4, <3>1, <4>1 DEF Order, EnablesFollowAdds
    <3>2. CASE i = Len(changes) + 1
      BY <2>4, <2>5, <3>2
    <3>3. CASE i = Len(changes) + 2
      <4>1. i - 1 = Len(changes) + 1
        BY <2>4, <3>3
      <4>2. QED
        BY <2>2, <2>4, <3>3, <4>1
    <3>4. QED
      BY <2>4, <3>1, <3>2, <3>3
  <2>7. FirstOutput'
    BY <2>1, <2>4, <2>5 DEF Order, FirstOutput
  <2>8. QED
    BY <2>1, <2>3, <2>6, <2>7 DEF Order
<1>3. ASSUME NEW u \in Uuids, Depart(u)
      PROVE  Order'
  <2>1. live' = live \ {u} /\ nodes' = nodes /\ changes' = Append(changes, Deleted(u))
    BY <1>3 DEF Depart, Deleted, nodeVars
  <2>2. AddsApart(changes', DOMAIN nodes, live')
    BY <2>1, DepartApart DEF Mirror, MixTypes, Order
  <2>3. Deleted(u) \in Change /\ Deleted(u).do = "delete"
    BY DEF Change, Deleted
  <2>4. /\ DOMAIN changes = 1..Len(changes) /\ Len(changes) \in Nat
        /\ DOMAIN changes' = 1..(Len(changes) + 1)
        /\ \A i \in DOMAIN changes : changes'[i] = changes[i]
        /\ changes'[Len(changes) + 1] = Deleted(u)
        /\ Head(changes') = IF changes = <<>> THEN Deleted(u) ELSE Head(changes)
    BY <2>1, <2>3 DEF Mirror, MixTypes
  <2>5. EnablesFollowAdds(changes')
    <3> SUFFICES ASSUME NEW i \in DOMAIN changes', i > 1, changes'[i].do = "enable_out"
                 PROVE  changes'[i - 1] = Added(changes'[i].uuid)
      BY DEF EnablesFollowAdds
    <3>1. i \in DOMAIN changes /\ i - 1 \in DOMAIN changes
      BY <2>3, <2>4
    <3>2. QED
      BY <2>4, <3>1 DEF Order, EnablesFollowAdds
  <2>6. FirstOutput'
    BY <2>1, <2>3, <2>4 DEF Order, FirstOutput
  <2>7. QED
    BY <2>1, <2>2, <2>5, <2>6 DEF Order
<1>4. ASSUME NEW u \in Uuids, Publication(u)
      PROVE  Order'
  BY <1>1, <1>4 DEF Publication, PublishEntity, HandleCommand, AnnounceDeparture, connVars, nodeVars
<1>5. ASSUME StartTick
      PROVE  Order'
  BY <1>1, <1>5 DEF StartTick, connVars, nodeVars
<1>6. ASSUME NEW k \in DOMAIN draining, ApplyEntityOp(k) \/ ApplySpaceOp(k)
      PROVE  Order'
  BY <1>1, <1>6, OpsKeepFrames DEF Frame
<1>7. ASSUME Render
      PROVE  Order'
  <2>1. UNCHANGED <<live, changes>> /\ nodes' = [l \in DOMAIN nodes |-> EncodePeers(l)]
    BY <1>7 DEF Render, connVars
  <2>2. ASSUME NEW u \in DOMAIN nodes PROVE nodes'[u].out = nodes[u].out
    <3>1. nodes'[u] = nodes[u] \/ \E dry, wet : nodes'[u] = [nodes[u] EXCEPT !.dry = dry, !.wet = wet]
      BY <2>1 DEF EncodePeers
    <3>2. DOMAIN nodes[u] = EncoderFields
      BY DEF Mirror, MixTypes
    <3>3. QED
      BY <3>1, <3>2 DEF EncoderFields
  <2>3. QED
    BY <1>1, <2>1, <2>2
<1>8. ASSUME UNCHANGED vars
      PROVE  Order'
  BY <1>1, <1>8 DEF vars, connVars, nodeVars
<1>9. QED
  BY <1>2, <1>3, <1>4, <1>5, <1>6, <1>7, <1>8, TakeChangeOrder DEF Next, Publication

-------------------------------------------------------------------------------
(* What a frame carries.                                                   *)

\* Who is heard does not depend on outputs and frames.
LEMMA QuietHeard ==
  ASSUME DOMAIN nodes' = DOMAIN nodes, \A u \in DOMAIN nodes : Quiet(nodes'[u], nodes[u]),
         NEW l \in DOMAIN nodes
  PROVE  Heard(l)' = Heard(l)
<1>1. ASSUME NEW u \in DOMAIN nodes
      PROVE  /\ nodes'[u].input = nodes[u].input /\ nodes'[u].subspaces = nodes[u].subspaces
             /\ nodes'[u].solos = nodes[u].solos /\ nodes'[u].spaceMuted = nodes[u].spaceMuted
             /\ nodes'[u].roleMuted = nodes[u].roleMuted /\ nodes'[u].muteRoles = nodes[u].muteRoles
             /\ nodes'[u].roles = nodes[u].roles /\ nodes'[u].mutes = nodes[u].mutes
  BY DEF Quiet, EncoderFields
<1>2. \A p \in DOMAIN nodes : ShouldIncludePeer(l, p)' <=> ShouldIncludePeer(l, p)
  BY <1>1 DEF ShouldIncludePeer
<1>3. QED
  BY <1>1, <1>2 DEF Heard

LEMMA EncodedPeers ==
  ASSUME NEW l \in DOMAIN nodes, DOMAIN nodes[l] = EncoderFields
  PROVE  /\ Quiet(EncodePeers(l), nodes[l])
         /\ EncodePeers(l).out = nodes[l].out
         /\ ~nodes[l].out => EncodePeers(l) = nodes[l]
         /\ nodes[l].out => /\ EncodePeers(l).dry = Heard(l)
                            /\ EncodePeers(l).wet = IF Heard(l) = {} \/ ~ReverbOn THEN nodes[l].wet ELSE Heard(l)
<1>1. CASE ~nodes[l].out
  <2>1. EncodePeers(l) = nodes[l]
    BY <1>1 DEF EncodePeers
  <2>2. QED
    BY <1>1, <2>1 DEF Quiet
<1>2. CASE nodes[l].out
  <2> DEFINE wet == IF Heard(l) = {} \/ ~ReverbOn THEN nodes[l].wet ELSE Heard(l)
  <2>1. EncodePeers(l) = [nodes[l] EXCEPT !.dry = Heard(l), !.wet = wet]
    BY <1>2 DEF EncodePeers, Heard
  <2> HIDE DEF wet
  <2>2. DOMAIN EncodePeers(l) = EncoderFields /\ EncodePeers(l).dry = Heard(l) /\ EncodePeers(l).wet = wet
    BY <2>1 DEF EncoderFields
  <2>3. \A f \in EncoderFields \ {"dry", "wet"} : EncodePeers(l)[f] = nodes[l][f]
    BY <2>1
  <2>4. Quiet(EncodePeers(l), nodes[l]) /\ EncodePeers(l).out = nodes[l].out
    BY <2>2, <2>3 DEF Quiet, EncoderFields
  <2>5. QED
    BY <1>2, <2>2, <2>4 DEF wet
<1>3. QED
  BY <1>1, <1>2

Silent(n) == (~n.out => n.dry = {} /\ n.wet = {}) /\ (~ReverbOn => n.wet = {})

\* The frame of a step that leaves nodes alone outside a tick, or is part of one.
LEMMA SameFrames ==
  ASSUME FramesFollow,
         \A u \in DOMAIN nodes' : Silent(nodes'[u]),
         ticking' \/ (nodes' = nodes /\ ticking' = ticking)
  PROVE  FramesFollow'
<1>1. CASE ticking'
  BY <1>1 DEF FramesFollow, Silent
<1>2. CASE ~ticking'
  <2>1. nodes' = nodes /\ ~ticking /\ ~ticking'
    BY <1>2
  <2>2. ASSUME NEW l \in DOMAIN nodes PROVE Heard(l)' = Heard(l)
    BY <2>1 DEF Heard, ShouldIncludePeer
  <2>3. QED
    BY <2>1, <2>2 DEF FramesFollow
<1>3. QED
  BY <1>1, <1>2

LEMMA NextFrames ==
  ASSUME Mirror, Order, FramesFollow, [Next]_vars
  PROVE  FramesFollow'
<1>1. \A u \in DOMAIN nodes : DOMAIN nodes[u] = EncoderFields /\ Silent(nodes[u])
  BY DEF Mirror, MixTypes, FramesFollow, Silent
<1>2. ASSUME UNCHANGED <<nodes, ticking>>
      PROVE  FramesFollow'
  BY <1>1, <1>2, SameFrames
<1>3. ASSUME NEW u \in Uuids,
             Admit(u) \/ PublishEntity(u) \/ AnnounceDeparture(u) \/ Depart(u)
      PROVE  FramesFollow'
  BY <1>2, <1>3 DEF Admit, PublishEntity, AnnounceDeparture, Depart, nodeVars
<1>4. ASSUME NEW u \in Uuids, NEW request \in Requests, HandleCommand(u, request)
      PROVE  FramesFollow'
  BY <1>2, <1>4 DEF HandleCommand, nodeVars
<1>5. ASSUME StartTick
      PROVE  FramesFollow'
  <2>1. nodes' = nodes /\ ticking' = TRUE
    BY <1>5 DEF StartTick, nodeVars
  <2>2. QED
    BY <1>1, <2>1, SameFrames
<1>6. ASSUME NEW k \in DOMAIN draining, ApplyEntityOp(k) \/ ApplySpaceOp(k)
      PROVE  FramesFollow'
  <2>1. /\ DOMAIN nodes' = DOMAIN nodes /\ ticking'
        /\ \A u \in DOMAIN nodes : \A f \in Frame : nodes'[u][f] = nodes[u][f]
    BY <1>6, OpsKeepFrames
  <2>2. \A u \in DOMAIN nodes : Silent(nodes'[u])
    BY <1>1, <2>1 DEF Silent, Frame
  <2>3. QED
    BY <2>1, <2>2, SameFrames
<1>7. ASSUME DoAddNode
      PROVE  FramesFollow'
  <2> DEFINE u == Head(changes).uuid
             e == NewEncoder(u, FreeSlot)
  <2>1. ticking' /\ changes # <<>> /\ (nodes' = nodes \/ nodes' = Put(nodes, u, e))
    BY <1>7 DEF DoAddNode, TakeChange, nodeVars
  <2>2. u \in Uuids
    BY <2>1, HeadChange DEF Mirror, MixTypes
  <2>3. Silent(e)
    BY <2>2, NewEncoderIsUnset DEF Silent
  <2> HIDE DEF u, e
  <2>4. \A v \in DOMAIN nodes' : Silent(nodes'[v])
    BY <1>1, <2>1, <2>3 DEF Put
  <2>5. QED
    BY <2>1, <2>4, SameFrames
<1>8. ASSUME DoEnableOutputNode
      PROVE  FramesFollow'
  <2> DEFINE u == Head(changes).uuid
  <2>1. /\ ticking' /\ changes # <<>> /\ Head(changes).do = "enable_out"
        /\ nodes' = IF u \in DOMAIN nodes THEN [nodes EXCEPT ![u].out = u \in live] ELSE nodes
    BY <1>8 DEF DoEnableOutputNode, TakeChange
  <2>2. u \in DOMAIN nodes => ~nodes[u].out
    BY <2>1 DEF Order, FirstOutput
  <2> HIDE DEF u
  <2>3. ASSUME NEW v \in DOMAIN nodes' PROVE Silent(nodes'[v])
    <3>1. v \in DOMAIN nodes
      BY <2>1
    <3>2. CASE nodes'[v] = nodes[v]
      BY <1>1, <3>1, <3>2
    <3>3. CASE v = u /\ nodes'[v] = [nodes[v] EXCEPT !.out = u \in live]
      <4>1. nodes[v].dry = {} /\ nodes[v].wet = {}
        BY <1>1, <2>2, <3>1, <3>3 DEF Silent
      <4>2. nodes'[v].dry = {} /\ nodes'[v].wet = {}
        BY <1>1, <3>1, <3>3, <4>1 DEF EncoderFields
      <4>3. QED
        BY <4>2 DEF Silent
    <3>4. QED
      BY <2>1, <3>1, <3>2, <3>3
  <2>4. QED
    BY <2>1, <2>3, SameFrames
<1>9. ASSUME DoRemoveNode
      PROVE  FramesFollow'
  <2>1. ticking' /\ (nodes' = nodes \/ nodes' = Del(nodes, Head(changes).uuid))
    BY <1>9 DEF DoRemoveNode, TakeChange, nodeVars
  <2>2. \A v \in DOMAIN nodes' : Silent(nodes'[v])
    BY <1>1, <2>1 DEF Del
  <2>3. QED
    BY <2>1, <2>2, SameFrames
<1>10. ASSUME Render
       PROVE  FramesFollow'
  <2>1. nodes' = [l \in DOMAIN nodes |-> EncodePeers(l)]
    BY <1>10 DEF Render
  <2>2. \A l \in DOMAIN nodes : Quiet(nodes'[l], nodes[l])
    BY <1>1, <2>1, EncodedPeers
  <2>3. DOMAIN nodes' = DOMAIN nodes
    BY <2>1
  <2>4. ASSUME NEW l \in DOMAIN nodes
        PROVE  /\ Silent(nodes'[l])
               /\ nodes'[l].out => /\ nodes'[l].dry = Heard(l)'
                                   /\ nodes'[l].dry = {} \/ nodes'[l].wet \in {{}, nodes'[l].dry}
    <3>1. Heard(l)' = Heard(l)
      BY <2>2, <2>3, QuietHeard
    <3>2. CASE ~nodes[l].out
      BY <1>1, <2>1, <3>2, EncodedPeers
    <3>3. CASE nodes[l].out
      <4>1. /\ nodes'[l].out = nodes[l].out /\ nodes'[l].dry = Heard(l)
            /\ nodes'[l].wet = IF Heard(l) = {} \/ ~ReverbOn THEN nodes[l].wet ELSE Heard(l)
        BY <1>1, <2>1, <3>3, EncodedPeers
      <4>2. ~ReverbOn => nodes[l].wet = {}
        BY <1>1 DEF Silent
      <4>3. QED
        BY <3>1, <3>3, <4>1, <4>2 DEF Silent
    <3>4. QED
      BY <3>2, <3>3
  <2>5. QED
    BY <2>3, <2>4 DEF FramesFollow, Silent
<1>11. ASSUME UNCHANGED vars
       PROVE  FramesFollow'
  BY <1>2, <1>11 DEF vars, nodeVars
<1>12. QED
  BY <1>3, <1>4, <1>5, <1>6, <1>7, <1>8, <1>9, <1>10, <1>11 DEF Next

PolicyInvariant == Mirror /\ Order /\ FramesFollow

LEMMA InitPolicy == Init => PolicyInvariant
<1> SUFFICES ASSUME Init PROVE PolicyInvariant
  OBVIOUS
<1>1. changes = <<>> /\ DOMAIN nodes = {}
  BY DEF Init, Empty
<1>2. Order
  BY <1>1 DEF Order, AddsApart, EnablesFollowAdds, FirstOutput
<1>3. FramesFollow
  BY <1>1 DEF FramesFollow
<1>4. QED
  BY <1>2, <1>3, InitMirror DEF PolicyInvariant

LEMMA NextPolicy == PolicyInvariant /\ [Next]_vars => PolicyInvariant'
  BY NextMirror, NextOrder, NextFrames DEF PolicyInvariant

\* Whoever is muted for the space is not in the mix of anybody who does not
\* solo him, save in what is left of the reverb.
THEOREM MutedAreUnheard == Spec => []MutedUnheard
<1>1. ASSUME PolicyInvariant PROVE MutedUnheard
  <2> SUFFICES ASSUME NEW u \in DOMAIN nodes, NEW l \in DOMAIN nodes,
                      ~ticking, InForce(Key("entity", u, "muted", Nobody)),
                      Settled(Key("entity", u, "muted", Nobody)), u \notin nodes[l].solos
               PROVE  /\ u \notin nodes[l].dry
                      /\ u \in nodes[l].wet => nodes[l].dry = {}
    BY DEF MutedUnheard
  <2> DEFINE k == Key("entity", u, "muted", Nobody)
  <2>1. k \in EntityKeys(u) /\ k.field = "muted"
    BY DEF EntityKeys, Key
  <2> HIDE DEF k
  <2>2. Shows(nodes[u], u, k, Latest(k))
    BY <1>1, <2>1 DEF PolicyInvariant, Mirror, NodesFollow, k
  <2>3. ~Latest(k).tomb
    BY DEF InForce, Latest, k
  <2>4. nodes[u].spaceMuted
    BY <2>1, <2>2, <2>3 DEF Shows
  <2>5. u \notin Heard(l)
    BY <2>4 DEF Heard, ShouldIncludePeer
  <2>6. CASE ~nodes[l].out
    BY <1>1, <2>6 DEF PolicyInvariant, FramesFollow
  <2>7. CASE nodes[l].out
    BY <1>1, <2>5, <2>7 DEF PolicyInvariant, FramesFollow
  <2>8. QED
    BY <2>6, <2>7
<1>2. QED
  BY <1>1, InitPolicy, NextPolicy, PTL DEF Spec

-------------------------------------------------------------------------------
(* Who may come between two listeners.                                     *)

LEMMA Drains ==
  ASSUME Mirror, [Next]_vars, NEW k \in DOMAIN draining, k \notin DOMAIN draining'
  PROVE  ApplyEntityOp(k) \/ ApplySpaceOp(k)
<1>1. draining' # draining
  OBVIOUS
<1>2. ~UNCHANGED vars
  BY <1>1 DEF vars, teeVars
<1>3. ~StartTick
  BY DEF Mirror, TeeFollowsCache, StartTick
<1>4. \A u \in Uuids : ~Admit(u) /\ ~PublishEntity(u) /\ ~AnnounceDeparture(u) /\ ~Depart(u)
  BY <1>1 DEF Admit, PublishEntity, AnnounceDeparture, Depart, teeVars
<1>5. \A u \in Uuids, request \in Requests : ~HandleCommand(u, request)
  BY <1>1 DEF HandleCommand
<1>6. ~DoAddNode /\ ~DoEnableOutputNode /\ ~DoRemoveNode /\ ~Render
  BY <1>1 DEF DoAddNode, DoEnableOutputNode, DoRemoveNode, TakeChange, Render, teeVars
<1>7. ASSUME NEW j \in DOMAIN draining, ApplyEntityOp(j) \/ ApplySpaceOp(j) PROVE j = k
  BY <1>7 DEF ApplyEntityOp, ApplySpaceOp, Del
<1>8. QED
  BY <1>2, <1>3, <1>4, <1>5, <1>6, <1>7 DEF Next

\* The op of somebody who does not moderate changes who is heard only between
\* him and others.
THEOREM ModeratorsAlonePart == Spec => OnlyModeratorsPart
<1>1. ASSUME Mirror, [Next]_vars,
             NEW k \in DOMAIN draining \ DOMAIN draining', NEW l \in Uuids, NEW p \in Uuids,
             Hears(l, p)' # Hears(l, p)
      PROVE  \/ draining[k].by = Nobody
             \/ draining[k].by \in {l, p}
             \/ Moderates(draining[k].by)
  <2> SUFFICES ASSUME draining[k].by # Nobody, ~Moderates(draining[k].by)
               PROVE  draining[k].by \in {l, p}
    OBVIOUS
  <2>1. Authored(k, draining[k].by)
    BY <1>1 DEF Mirror, TeeFollowsCache, WellFormed
  <2>2. k.topic = "entity" /\ k.about = draining[k].by
    BY <2>1 DEF Authored
  <2>3. ApplyEntityOp(k)
    BY <1>1, <2>2, Drains DEF ApplySpaceOp
  <2>4. DOMAIN nodes' = DOMAIN nodes /\ \A x \in DOMAIN nodes : x # k.about => nodes'[x] = nodes[x]
    <3> DEFINE m == Mutated(k.about, nodes[k.about], k, draining[k])
    <3>1. nodes' = IF k.about \in DOMAIN nodes THEN [nodes EXCEPT ![k.about] = m] ELSE nodes
      BY <2>3 DEF ApplyEntityOp
    <3> HIDE DEF m
    <3>2. QED
      BY <3>1
  <2>5. l \notin {k.about} /\ p \notin {k.about} => (Hears(l, p)' <=> Hears(l, p))
    BY <2>4 DEF Hears, ShouldIncludePeer
  <2>6. QED
    BY <1>1, <2>2, <2>5 DEF Hears
<1>2. Mirror /\ [Next]_vars =>
        [\A k \in DOMAIN draining \ DOMAIN draining' :
           \A l \in Uuids, p \in Uuids :
             Hears(l, p)' # Hears(l, p) =>
               \/ draining[k].by = Nobody
               \/ draining[k].by \in {l, p}
               \/ Moderates(draining[k].by)]_vars
  BY <1>1
<1>3. QED
  BY <1>2, InitMirror, NextMirror, PTL DEF Spec, OnlyModeratorsPart
================================================================================
