------------------------------ MODULE MCFixlet ------------------------------
(* Constants of the TLC runs of Fixlet. *)
EXTENDS Fixlet

CONSTANTS d1, d2, d3

ThreeDeliveries == {d1, d2, d3}
=============================================================================
