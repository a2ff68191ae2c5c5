------------------------------ MODULE MCPaths ------------------------------
(* The path search on track B, from some sensors, with nothing reserved. *)
EXTENDS PathSearch, MCTracks

MCTrack == "b" :> TrackB
MCFrom == "b" :> ({8, 36, 70} \X {{}})
=============================================================================
