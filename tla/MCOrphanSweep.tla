----------------------------- MODULE MCOrphanSweep -----------------------------
(* Instances of OrphanSweep for TLC.                                       *)
EXTENDS OrphanSweep

CONSTANTS u1, c1, c2, o1, o2

\* Everything competes for one identity.
OneIdentity == [e \in Conns \cup Orphans |-> u1]
===============================================================================
