---------------------------- MODULE MCStructures ----------------------------
(***************************************************************************)
(* The code that runs in one task, each part on its own: the circular      *)
(* buffer; the ready queue with five tasks, two of them of a higher        *)
(* priority; the time heap with six items (three levels), two pairs of     *)
(* them with the same time; the path search on the tracks of MCTracks; and *)
(* the shell with a line of four cells.  The variable subject says which   *)
(* one a behaviour is about.                                               *)
(***************************************************************************)
EXTENDS CircularBuffer, Heaps, PathSearch, MCTracks, Shell

CONSTANTS a, b, c, d, e

VARIABLE subject

MCPriority == a :> 20 @@ b :> 20 @@ c :> 10 @@ d :> 10 @@ e :> 10
MCTime == <<1, 2, 2, 3, 4, 4>>

\* Tasks of one priority can be exchanged.
Symmetry == Permutations({a, b}) \cup Permutations({c, d, e})

MCKind == "p" :> "plan" @@ "d" :> "doneplan" @@ "t" :> "tr" @@ "q" :> "q"
MCValid == {<<"d">>}

ASSUME HeapsAssumption /\ SearchAssumption /\ ShellAssumption

SearchUnused ==
  /\ which = "unused" /\ src = "unused" /\ avoid = "unused" /\ dist = "unused"
  /\ prev = "unused" /\ in_shortest_path = "unused" /\ result = "unused" /\ dest = "unused"

MCInit ==
  /\ Init /\ HeapsInit /\ ShellInit
  /\ \/ subject = "path search" /\ SearchInit
     \/ subject \in {"circular buffer", "ready queue", "time heap", "shell"} /\ SearchUnused

MCNext ==
  /\ UNCHANGED subject
  /\ \/ subject = "circular buffer" /\ Next /\ UNCHANGED <<heaps, search, shell>>
     \/ subject = "ready queue" /\ Ready!Next /\ UNCHANGED <<vars, heapVars, search, shell>>
     \/ subject = "time heap" /\ Heap!Next /\ UNCHANGED <<vars, readyVars, search, shell>>
     \/ subject = "path search" /\ SearchNext /\ UNCHANGED <<vars, heaps, shell>>
     \/ subject = "shell" /\ ShellNext /\ UNCHANGED <<vars, heaps, search>>

MCSpec == MCInit /\ [][MCNext]_<<subject, vars, heaps, search, shell>>

-----------------------------------------------------------------------------
\* The spur of track A that no train can enter, at A5, A6, B9, B10, EN9 and EX9.
Spur == {4, 5, 24, 25, 140, 141}

\* min_distance always has a node to return, and dijkstra gives up on a reserved
\* destination with -1, because there is a node that is neither reserved nor within reach:
\* one of the spur of track A, one of the unused entries of track B.  It has none, and
\* returns track[-1], if the train itself stands on the spur or another one holds all of it.
NodesLeft ==
  result = "outside" =>
    which \in MCSmall \/ (which = "a" /\ (src \in Spur \/ Spur \subseteq avoid))

\* The search, its paths and the segments cut from them stay inside their arrays.
StaysInBounds == subject = "path search" => SegmentsFit /\ NodesLeft
=============================================================================
