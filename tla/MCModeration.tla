------------------------------ MODULE MCModeration ------------------------------
(* Instances of Moderation for TLC: one identity's own key and a role's.    *)
EXTENDS Moderation

CONSTANTS c1, c2, annKicked, crewKicked

MCConcerned == [k \in Keys |-> IF k = annKicked THEN {c1} ELSE Conns]
================================================================================
