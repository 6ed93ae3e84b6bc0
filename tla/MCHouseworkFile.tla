-------------------------- MODULE MCHouseworkFile --------------------------
(* HouseworkFile on a small instance: 0 designates no chore, 2 the last one    *)
(* there can be.                                                              *)
EXTENDS HouseworkFile

MCNumbers == {0, 1, 2}
=============================================================================
