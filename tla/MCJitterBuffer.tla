---------------------------- MODULE MCJitterBuffer ----------------------------
(* Instances of JitterBuffer for TLC: packets of three frames and one burst, read by two. *)
EXTENDS JitterBuffer

MCWriteSizes == {W, 10}
===============================================================================
