------------------------------- MODULE MCBouncer -------------------------------
(* Instances of Bouncer for TLC.                                           *)
EXTENDS Bouncer, TLC

CONSTANTS s1, s2

\* The client's goroutines are interchangeable.
SenderSymmetry == Permutations(Senders)
===============================================================================
