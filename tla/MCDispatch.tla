----------------------------- MODULE MCDispatch -----------------------------
(***************************************************************************)
(* Two trains on paths of one to three sensors the numbers of which do not *)
(* go along the path.  Sensor 1 is broken: it is the middle one of the     *)
(* first train's longer path, whose stops are all timed, and the last one  *)
(* of its shorter path, where a stop from that sensor is not (Stoppable).  *)
(***************************************************************************)
EXTENDS Dispatch

CONSTANTS t1, t2

MCTrains == {t1, t2}
MCOne == {t1}
MCSensors == 0 .. 4
MCPaths == [t \in MCTrains |-> IF t = t1 THEN {<<2, 1, 0>>, <<2, 1>>} ELSE {<<3>>}]
MCShortPath == [t \in MCOne |-> {<<3, 4>>}]
=============================================================================
