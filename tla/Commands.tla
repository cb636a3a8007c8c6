-------------------------------- MODULE Commands --------------------------------
(***************************************************************************)
(* The control-command catalogue (core/commands): what each command        *)
(* writes, who may issue it, and how long the key it writes lives.  The    *)
(* package is pure, so is this module: a command of a holder becomes one   *)
(* cache op, or nothing.                                                   *)
(*                                                                         *)
(* A key is a record: the topic, the uuid the key is about (Nobody for the *)
(* uuid-less keys of "space"), the field, and the uuid or role after the   *)
(* field (Nobody if there is none).  A gain or attenuation is an integer   *)
(* of 0..MaxLevel+1, of which 0..MaxLevel are in range; a kick carries the *)
(* number of minutes, 0 for ever.                                          *)
(***************************************************************************)
EXTENDS Naturals, FiniteSets

CONSTANTS
  Uuids,       \* identities
  Roles,       \* role names a ticket may carry, with "everyone" reserved
  Nobody,      \* uuid.Nil, and "no argument"
  HolderRoles, \* the roles on each identity's ticket
  MaxLevel     \* maxGain and maxAttenuation

ASSUME CommandsAssumption ==
  /\ Nobody \notin Uuids \cup Roles
  /\ HolderRoles \in [Uuids -> SUBSET Roles]
  /\ "everyone" \notin Roles
  /\ MaxLevel \in Nat

Key(topic, about, field, arg) ==
  [topic |-> topic, about |-> about, field |-> field, arg |-> arg]

-------------------------------------------------------------------------------
(* The catalogue.  "takes" is the argument the command requires beside the *)
(* entity or role: a level in range, minutes, or nothing.                  *)

Writes(field, takes, unsets) ==
  [field |-> field, takes |-> takes, unsets |-> unsets]

\* space.entity.*: {target}.field
EntityCommands ==
  [ mute            |-> Writes("muted", "nothing", FALSE),
    unmute          |-> Writes("muted", "nothing", TRUE),
    kick            |-> Writes("kicked", "minutes", FALSE),
    unkick          |-> Writes("kicked", "nothing", TRUE),
    set_gain        |-> Writes("gain", "level", FALSE),
    set_attenuation |-> Writes("attenuation", "level", FALSE) ]

\* space.role.*: field.{role} on the topic "space"
RoleCommands ==
  [ mute              |-> Writes("roles-muted", "nothing", FALSE),
    unmute            |-> Writes("roles-muted", "nothing", TRUE),
    kick              |-> Writes("roles-kicked", "minutes", FALSE),
    unkick            |-> Writes("roles-kicked", "nothing", TRUE),
    set_gain          |-> Writes("roles-gain", "level", FALSE),
    unset_gain        |-> Writes("roles-gain", "nothing", TRUE),
    set_attenuation   |-> Writes("roles-attenuation", "level", FALSE),
    unset_attenuation |-> Writes("roles-attenuation", "nothing", TRUE) ]

\* personal.entity.* and personal.role.*: {me}.field.{entity or role}
PersonalEntityCommands ==
  [ mute   |-> Writes("mutes", "nothing", FALSE),
    unmute |-> Writes("mutes", "nothing", TRUE),
    solo   |-> Writes("solos", "nothing", FALSE),
    unsolo |-> Writes("solos", "nothing", TRUE) ]

PersonalRoleCommands ==
  [ mute   |-> Writes("mute-roles", "nothing", FALSE),
    unmute |-> Writes("mute-roles", "nothing", TRUE) ]

Catalogue ==
  [ space    |-> [entity |-> EntityCommands, role |-> RoleCommands],
    personal |-> [entity |-> PersonalEntityCommands, role |-> PersonalRoleCommands] ]

\* A command name such as space.entity.mute is the triple of its parts.
Names == {name \in {"space", "personal"} \X {"entity", "role"}
                   \X (DOMAIN EntityCommands \cup DOMAIN RoleCommands
                       \cup DOMAIN PersonalEntityCommands) :
            name[3] \in DOMAIN Catalogue[name[1]][name[2]]}

-------------------------------------------------------------------------------
(* Who may issue and read what.                                            *)

\* Seeded bug: everybody may mute an entity for the space.
DefaultRolePermissions_EveryoneMutes ==
  LET ofSpace == {name \in Names : name[1] = "space"}
      forAll == {<<"space", "entity", "mute">>, <<"personal", "entity", "mute">>}
  IN [everyone |-> forAll, admin |-> ofSpace, moderator |-> {}, performer |-> {}, audience |-> {}]

DefaultRolePermissions ==
  LET solo == {<<"personal", "entity", "solo">>, <<"personal", "entity", "unsolo">>}
      ofSpace == {name \in Names : name[1] = "space"}
      moderation == {<<"space", "entity", n>> : n \in {"mute", "unmute", "kick", "unkick"}}
  IN [ everyone  |-> {name \in Names : name[1] = "personal"} \ solo,
       admin     |-> ofSpace \cup solo,
       moderator |-> moderation \cup solo,
       performer |-> solo,
       audience  |-> {} ]

RoleGrants(role, name) ==
  role \in DOMAIN DefaultRolePermissions /\ name \in DefaultRolePermissions[role]

IsCommandAllowed(u, name) ==
  \E role \in HolderRoles[u] \cup {"everyone"} : RoleGrants(role, name)

\* Both read scopes, entity.all and space.read, go to the same roles.
HasReadCap(u) == HolderRoles[u] \cap {"admin", "moderator"} # {}

-------------------------------------------------------------------------------
(* From a command to its op.                                               *)

InRange(takes, value) == takes # "level" \/ value <= MaxLevel

\* The key a command of holder u writes when its entity or role is arg.
KeyOf(u, name, arg) ==
  LET field == Catalogue[name[1]][name[2]][name[3]].field
  IN IF name[1] = "personal" THEN Key("entity", u, field, arg)
     ELSE IF name[2] = "entity" THEN Key("entity", arg, field, Nobody)
     ELSE Key("space", Nobody, field, arg)

\* Dispatch succeeds: a known command, granted to a role of the holder, with
\* valid arguments.
Dispatchable(u, name, arg, value) ==
  /\ name \in Names
  /\ IsCommandAllowed(u, name)
  /\ arg # Nobody
  /\ InRange(Catalogue[name[1]][name[2]][name[3]].takes, value)

\* The op: a tombstone, or a value (TRUE is written as 1).
OpOf(u, name, arg, value) ==
  LET spec == Catalogue[name[1]][name[2]][name[3]]
  IN [key |-> KeyOf(u, name, arg),
      tomb |-> spec.unsets,
      val |-> IF spec.unsets THEN 0 ELSE IF spec.takes = "nothing" THEN 1 ELSE value]

-------------------------------------------------------------------------------
(* ClassifyKey: keys tied to the connection of the uuid they are about go  *)
(* when it departs; policy keys go only by an un-command or a deadline.    *)

PolicyFields == {"muted", "kicked", "gain", "attenuation"}

IsPolicy(key) == key.topic = "space" \/ (key.topic = "entity" /\ key.field \in PolicyFields)
================================================================================
