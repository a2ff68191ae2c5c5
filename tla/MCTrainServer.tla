---------------------------- MODULE MCTrainServer ----------------------------
(***************************************************************************)
(* One train, the two switches of a crossing and a single one, with the    *)
(* times of the code scaled down in their order.                           *)
(***************************************************************************)
EXTENDS TrainServer

CONSTANTS s153, s154, s1

MCSwitches == {s153, s154, s1}
MCPartner == [s \in MCSwitches |-> CASE s = s153 -> s154 [] s = s154 -> s153 [] s = s1 -> NoSwitch]
=============================================================================
