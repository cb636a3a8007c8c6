--------------------------- MODULE MCDepartureFunnel ---------------------------
(* Instances of DepartureFunnel for TLC.                                   *)
EXTENDS DepartureFunnel, TLC

CONSTANTS u1, u2, c1, c2, c3

\* Every connection asks for the same identity.
OneIdentity == [c \in Conns |-> u1]

\* Every connection asks for an identity of its own.
DistinctIdentities == [c \in Conns |-> IF c = c1 THEN u1 ELSE u2]

\* Connections are interchangeable while they share an identity and a kind.
ConnSymmetry == Permutations(Conns)
===============================================================================
