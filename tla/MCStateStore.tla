----------------------------- MODULE MCStateStore -----------------------------
(* Instances of StateStore for TLC.  The keys differ: one is also deleted.  *)
EXTENDS StateStore

CONSTANTS k1, k2
===============================================================================
