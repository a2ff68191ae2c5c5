---------------------------- MODULE MCClockServer ----------------------------
(* Three clients, as many as there are slots.                              *)
EXTENDS ClockServer

CONSTANTS a, b, c

MCClients == {a, b, c}
MCAmounts == {-1, 1, 2}
MCInstants == {2}
=============================================================================
