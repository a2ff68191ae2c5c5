-------------------------------- MODULE Track --------------------------------
(***************************************************************************)
(* The track as the programs see it (src/include/user/track_node.h), and   *)
(* what is computed from it without any state: broken switches, the buffer *)
(* nodes behind a merge (src/user/track_data.c), the length of a path      *)
(* (src/user/algorithms.c) and the segments a path is cut into             *)
(* (src/user/navigationserver.c).                                          *)
(*                                                                         *)
(* A track is a function from node numbers to records [type, num, reverse, *)
(* edge], edge a function from directions to records [dest, dist].         *)
(***************************************************************************)
EXTENDS Integers, Sequences, SequencesExt, FiniteSets

DIR_AHEAD == 0
DIR_STRAIGHT == 0
DIR_CURVED == 1
INF == 100000000
NULL == -1                          \* no node
NoEdge == [dest |-> NULL, dist |-> 0]

Node(type, num, reverse, straight, curved) ==
  [type |-> type, num |-> num, reverse |-> reverse,
   edge |-> [d \in {DIR_STRAIGHT, DIR_CURVED} |-> IF d = DIR_STRAIGHT THEN straight ELSE curved]]

mark_switch_broken(track, node, stuck_direction) ==
  [track EXCEPT ![node].edge[1 - stuck_direction].dist = INF]

\* The edges by which dijkstra goes on from u, and the turn, which counts 300 mm.
Ways(track, u) ==
  {[dest |-> track[u].reverse, dist |-> 300]} \cup
    CASE track[u].type \in {"NODE_MERGE", "NODE_SENSOR", "NODE_ENTER"} -> {track[u].edge[DIR_AHEAD]}
      [] track[u].type = "NODE_BRANCH" -> {track[u].edge[DIR_STRAIGHT], track[u].edge[DIR_CURVED]}
      [] OTHER -> {}

\* n, next[n], next[next[n]], ... up to the node that has no next one.
Follow(next, n) ==
  LET walk[w \in Seq(DOMAIN next) \ {<<>>}] ==
        IF next[Last(w)] = NULL \/ Len(w) > Cardinality(DOMAIN next) THEN w
        ELSE walk[Append(w, next[Last(w)])]
  IN  walk[<<n>>]

-----------------------------------------------------------------------------
(* Buffer nodes *)

\* The direction in which generate_buffer_node leaves a node: of a branch the first one
\* that is not broken and does not end the track.  A branch without one stops a KASSERT;
\* nothing is known of the step from a node that has no edge.
BufferDirections(track, n) ==
  CASE track[n].type = "NODE_MERGE" -> {DIR_AHEAD}
    [] track[n].type = "NODE_BRANCH" ->
         {d \in {DIR_STRAIGHT, DIR_CURVED} :
            track[n].edge[d].dist # INF /\ track[track[n].edge[d].dest].type # "NODE_EXIT"}
    [] OTHER -> {}

BufferNext(track, n) ==
  LET dirs == BufferDirections(track, n)
  IN  IF track[n].type = "NODE_SENSOR" \/ dirs = {} THEN NULL
      ELSE track[n].edge[IF DIR_STRAIGHT \in dirs THEN DIR_STRAIGHT ELSE DIR_CURVED].dest

\* Seeded fault: the first node behind the merge is the only one.
generate_one_buffer_node(track, merge) == <<track[merge].edge[DIR_AHEAD].dest>>

\* The nodes from behind a merge to the next sensor: a row of buffer_nodes.
generate_buffer_node(track, merge) ==
  Tail(Follow([n \in DOMAIN track |-> BufferNext(track, n)], merge))

\* The rows: the merge's switch number is the key.
generate_buffer_nodes(track) ==
  LET merges == {n \in DOMAIN track : track[n].type = "NODE_MERGE"}
  IN  [num \in {track[n].num : n \in merges} |->
         generate_buffer_node(track, CHOOSE n \in merges : track[n].num = num)]

-----------------------------------------------------------------------------
(* Paths and segments *)

\* The length of the edge from one node to the next; -1 if there is none.
EdgeDist(track, n, m) ==
  CASE track[n].type = "NODE_BRANCH" /\ track[n].edge[DIR_CURVED].dest = m ->
         track[n].edge[DIR_CURVED].dist
    [] track[n].edge[DIR_STRAIGHT].dest = m -> track[n].edge[DIR_STRAIGHT].dist
    [] OTHER -> -1

get_path_dist(track, path) ==
  LET dists == [i \in 1 .. Len(path) - 1 |-> EdgeDist(track, path[i], path[i + 1])]
      sum[i \in 0 .. Len(path) - 1] == IF i = 0 THEN 0 ELSE sum[i - 1] + dists[i]
  IN  IF \E i \in DOMAIN dists : dists[i] = -1 THEN -1 ELSE sum[Len(path) - 1]

Straight(path) == [type |-> "NAVIGATION_STRAIGHT", path |-> path]
Back == [type |-> "NAVIGATION_REVERSE", path |-> <<>>]

\* add_buffer_nodes: the row of buffers for the switch number of node n, forward or
\* backward.  (A node that is no switch has the number of one, or the row is not there.)
add_buffer_nodes(track, buffers, n, forward) ==
  LET row == IF track[n].num \in DOMAIN buffers THEN buffers[track[n].num] ELSE <<>>
  IN  IF forward THEN row ELSE Reverse([i \in DOMAIN row |-> track[row[i]].reverse])

\* Seeded fault: after a reversal the train is not expected behind the merge.
PieceNoBuffer(track, buffers, path, s, i) ==
  [s EXCEPT !.segment = Append(@, path[i]), !.came_from_reverse = FALSE,
            !.tasks = IF i = Len(path) THEN Append(@, Straight(Append(s.segment, path[i]))) ELSE @,
            !.done = i = Len(path)]

\* A node from which the path goes ahead; the nodes behind the merge of the last
\* reversal come first.
Piece(track, buffers, path, s, i) ==
  LET before  == IF s.came_from_reverse THEN add_buffer_nodes(track, buffers, s.merge, FALSE) ELSE <<>>
      segment == s.segment \o before \o <<path[i]>>
  IN  [s EXCEPT !.segment = segment, !.came_from_reverse = FALSE,
                !.tasks = IF i = Len(path) THEN Append(@, Straight(segment)) ELSE @,
                !.done = i = Len(path)]

\* A node at which the path reverses: the segment ends there, or behind the merge if
\* the path goes on after the reversal.
Reversal(track, buffers, path, s, i) ==
  LET last    == i = Len(path) - 1
      segment == Append(s.segment, path[i])
                   \o (IF last THEN <<>> ELSE add_buffer_nodes(track, buffers, path[i], TRUE))
  IN  IF s.segment = <<>>
        THEN [s EXCEPT !.tasks = Append(@, Back), !.done = last]
        ELSE [s EXCEPT !.tasks = @ \o <<Straight(segment), Back>>, !.segment = <<>>,
                       !.merge = IF last THEN @ ELSE path[i],
                       !.came_from_reverse = @ \/ ~last, !.done = last]

\* segments_fill_navigation_tasks.  The path is followed by zeros in the message of the
\* path worker, and the loop looks one node ahead, at the end of the path too.
segments_fill_navigation_tasks(track, buffers, path) ==
  LET start == [tasks |-> <<>>, segment |-> <<>>, came_from_reverse |-> FALSE, merge |-> NULL,
                done |-> FALSE]
      after[i \in 0 .. Len(path)] ==
        LET s     == after[i - 1]
            ahead == IF i = Len(path) THEN 0 ELSE path[i + 1]
        IN  IF i = 0 THEN start ELSE IF s.done THEN s
            ELSE IF track[path[i]].reverse = ahead THEN Reversal(track, buffers, path, s, i)
            ELSE Piece(track, buffers, path, s, i)
  IN  after[Len(path)].tasks
=============================================================================
