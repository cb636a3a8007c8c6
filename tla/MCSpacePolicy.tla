----------------------------- MODULE MCSpacePolicy -----------------------------
(* Instances of SpacePolicy for TLC: an administrator and two others.      *)
EXTENDS SpacePolicy

CONSTANTS adm, ann, bob, hall

MCHolderRoles ==
  [u \in Uuids |-> CASE u = adm -> {"admin"} [] u = ann -> {"crew"} [] OTHER -> {}]

MCConfig ==
  LET node(g, ss) == [gain |-> g, att |-> 2, subspaces |-> ss, input |-> TRUE]
  IN [u \in Uuids |-> CASE u = adm -> node(1, {}) [] u = ann -> node(2, {})
                         [] OTHER -> node(1, {hall})]

\* Commands whose arguments meet.
MCRequests ==
  LET space(o, n) == <<"space", o, n>>
      personal(o, n) == <<"personal", o, n>>
  IN { <<space("entity", "mute"), ann, 0>>, <<space("entity", "unmute"), ann, 0>>,
       <<space("role", "mute"), "crew", 0>>, <<space("role", "set_gain"), "crew", 2>>,
       <<personal("entity", "mute"), adm, 0>>, <<personal("entity", "solo"), ann, 0>>,
       <<personal("role", "mute"), "crew", 0>>, <<space("role", "set_attenuation"), "crew", 1>>,
       <<space("role", "unset_gain"), "crew", 0>>, <<space("entity", "set_gain"), ann, 3>> }
================================================================================
