------------------------------ MODULE MCPinger ------------------------------
(* Pinger on a small instance: a negative interval, 0, and two positive ones. *)
EXTENDS Pinger

MCDurations == {-1, 0, 1, 2}
=============================================================================
