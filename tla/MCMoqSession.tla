------------------------------ MODULE MCMoqSession ------------------------------
(* Instances of MoqSession for TLC: a client that asks to be set up and one    *)
(* that only connects.  Of the three input and five output tracks, which are   *)
(* served alike, one of each.                                                  *)
EXTENDS MoqSession

CONSTANTS s1, s2

MCAddr == [s \in Sessions |-> s]
MCInputs == <<"audio">>
MCTries == [s \in Sessions |-> IF s = s1 THEN 1 ELSE 0]
================================================================================
