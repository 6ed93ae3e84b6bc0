------------------------------ MODULE MCRosie ------------------------------
(* Rosie on a small instance: 4-bit numbers, of which 17 is out of range and   *)
(* comes out as 1, so that one number is too large and one is not.            *)
EXTENDS Rosie

MCNumbers == {0, 1, 2, 17}
=============================================================================
