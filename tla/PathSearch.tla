----------------------------- MODULE PathSearch -----------------------------
(***************************************************************************)
(* dijkstra of src/user/algorithms.c, as the path worker calls it, one     *)
(* round of its loop per step.  A train may reverse anywhere, which counts *)
(* as a drive of 300 mm.                                                   *)
(*                                                                         *)
(* The destination matters when its node comes up in the loop, and not     *)
(* before: a behaviour that ends at a node is the search for that node,    *)
(* one that ends with "none" or "outside" the search for a node that did   *)
(* not come up.                                                            *)
(***************************************************************************)
EXTENDS StraightPath

CONSTANTS Tables,    \* the tracks, by name
          Queries,   \* for each of them the searches: pairs of a source and the set of
                     \* nodes that are reserved for other trains
          Small      \* the tracks so small that the reference can be computed

\* The entries of the array that are nodes of the track; track B does not use the last four.
Laid(track) == {n \in DOMAIN track : track[n].type # "NODE_NONE"}

SearchAssumption ==
  /\ \A w \in DOMAIN Tables :
       /\ DOMAIN Tables[w] \subseteq Nat /\ IsFiniteSet(DOMAIN Tables[w])
       /\ \A n \in Laid(Tables[w]) : \A way \in Ways(Tables[w], n) :
            way.dest \in Laid(Tables[w]) /\ way.dist \in Nat
       /\ \A q \in Queries[w] : q[1] \in Laid(Tables[w]) /\ q[2] \subseteq DOMAIN Tables[w]

\* buffer_nodes of each track, which is filled in once.
Buffers == [w \in DOMAIN Tables |-> generate_buffer_nodes(Tables[w])]

VARIABLES which,              \* the name of the track
          src, avoid,
          dist, prev,
          in_shortest_path,   \* the set of nodes that are marked
          result,             \* "searching", "found", "none" (-1) or "outside" (of the array)
          dest                \* the node that was looked for, if it is found

search == <<which, src, avoid, dist, prev, in_shortest_path, result, dest>>

track == Tables[which]
Nodes == DOMAIN track

\* A train's own place is never reserved for another one (HoldsPlace of Navigation).
SearchInit ==
  /\ which \in DOMAIN Tables
  /\ \E q \in Queries[which] : q[1] \notin q[2] /\ src = q[1] /\ avoid = q[2]
  /\ dist = [n \in Nodes |-> IF n = src THEN 0 ELSE INF]
  /\ prev = [n \in Nodes |-> NULL]
  /\ in_shortest_path = {}
  /\ result = "searching" /\ dest = NULL

-----------------------------------------------------------------------------
\* Seeded fault: the search starts from INF, so that a node out of reach is not chosen.
CandidatesReached == {n \in Nodes \ (in_shortest_path \cup avoid) : dist[n] < INF}

\* The nodes min_distance chooses from, and those of them that have been reached.
Candidates == Nodes \ (in_shortest_path \cup avoid)
Reached == {n \in Nodes : dist[n] # INF /\ n \notin in_shortest_path /\ n \notin avoid}

\* What min_distance returns if there are nodes of a distance below INF: the first of the
\* nearest.
min_distance ==
  LET R == Reached
  IN  {n \in R : \A m \in R : dist[n] < dist[m] \/ (dist[n] = dist[m] /\ n <= m)}

\* The lengths of the ways that come over u and go on to v by one edge.
Alternatives(u, v) == {dist[u] + uv.dist : uv \in {way \in Ways(track, u) : way.dest = v}}

\* Seeded fault: a longer way replaces a shorter one.
update_always(u, v) ==
  v # u /\ v \notin in_shortest_path /\ \E alt \in Alternatives(u, v) : alt < INF

\* update_dist changes the distance of v, when u is marked and the edges from u are looked at.
update_dist(u, v) ==
  v # u /\ v \notin in_shortest_path /\ \E alt \in Alternatives(u, v) : alt < dist[v]

\* The nearest node is not the destination.
Visit ==
  /\ result = "searching"
  /\ \E u \in min_distance :
       /\ in_shortest_path' = in_shortest_path \cup {u}
       /\ dist' = [v \in Nodes |-> IF update_dist(u, v) THEN Min(Alternatives(u, v)) ELSE dist[v]]
       /\ prev' = [v \in Nodes |-> IF update_dist(u, v) THEN u ELSE prev[v]]
  /\ UNCHANGED <<which, src, avoid, result, dest>>

\* The nearest node is the destination.
Arrive ==
  /\ result = "searching"
  /\ dest' \in min_distance
  /\ result' = "found"
  /\ UNCHANGED <<which, src, avoid, dist, prev, in_shortest_path>>

\* Every node that is left has the distance INF: dijkstra returns -1.
GiveUp ==
  /\ result = "searching" /\ Candidates # {} /\ Reached = {}
  /\ result' = "none"
  /\ UNCHANGED <<which, src, avoid, dist, prev, in_shortest_path, dest>>

\* No node is left, the one that is looked for being reserved: min_distance returns
\* track[-1], and what is read and written there is undefined.
RunOut ==
  /\ result = "searching" /\ Candidates = {} /\ avoid # {}
  /\ result' = "outside"
  /\ UNCHANGED <<which, src, avoid, dist, prev, in_shortest_path, dest>>

SearchNext == Visit \/ Arrive \/ GiveUp \/ RunOut

SearchSpec == SearchInit /\ [][SearchNext]_search

-----------------------------------------------------------------------------
(* What pathfind_worker and the navigation server make of it *)

\* The path pathfind_worker puts together, walking back from the destination.
Path == Reverse(Follow(prev, dest))

\* The tasks the navigation server cuts it into.
NavigationTasks(path) == segments_fill_navigation_tasks(track, Buffers[which], path)

-----------------------------------------------------------------------------
(* Properties *)

\* Ways, each given by the node to which it leads and its length, made longer by one edge
\* or turn, if they stay off the nodes in avoid.
Onward(ways) ==
  {d \in ways \cup UNION {{<<way.dest, d[2] + way.dist>> : way \in Ways(track, d[1])} : d \in ways} :
     d[1] \notin avoid /\ d[2] < INF}

\* The ways from src with at most k edges and turns.
drives[k \in Nat] == IF k = 0 THEN {<<src, 0>>} ELSE Onward(drives[k - 1])

\* The reference: all ways from src with at most as many edges and turns as there are nodes.
Drives == drives[Cardinality(Nodes)]

\* The search finds a shortest way to its destination, off the reserved nodes, and says
\* that there is none only if there is none.
ShortestFound ==
  which \in Small =>
    /\ result = "found" =>
         /\ Path[1] = src /\ Path[Len(Path)] = dest /\ Range(Path) \cap avoid = {}
         /\ \A i \in 1 .. Len(Path) - 1 : \E way \in Ways(track, Path[i]) :
              way.dest = Path[i + 1] /\ dist[way.dest] = dist[Path[i]] + way.dist
         /\ <<dest, dist[dest]>> \in Drives
         /\ \A d \in Drives : d[1] = dest => d[2] >= dist[dest]
    /\ result = "none" => \A d \in Drives : d[1] \in in_shortest_path

\* Where the train stands when the first i tasks are done.
Stands(tasks) ==
  LET at[i \in 0 .. Len(tasks)] ==
        IF i = 0 THEN src
        ELSE IF tasks[i] = Back THEN track[at[i - 1]].reverse ELSE Last(tasks[i].path)
  IN  at

Segments(tasks) == {tasks[i].path : i \in {j \in DOMAIN tasks : tasks[j] # Back}}

\* A train can drive along path: its nodes are joined by edges, none of them broken.
Drivable(path) == Len(path) >= 2 /\ get_path_dist(track, path) \in 0 .. INF - 1

\* The tasks take the train from where it stands to dest: a segment starts where the
\* task before it leaves the train, and can be driven without a reversal.
TakesTo(tasks) ==
  /\ \A path \in Segments(tasks) : Drivable(path)
  /\ \A i \in DOMAIN tasks : tasks[i] # Back => tasks[i].path[1] = Stands(tasks)[i - 1]
  /\ Stands(tasks)[Len(tasks)] = dest

\* Every straight path worker gets "point B reachable from point A without reversing"
\* (docs/tc2/tc2.md), and the worker's segments lead to the destination.
SegmentsReachable == result = "found" /\ dest # src => TakesTo(NavigationTasks(Path))

\* The two cases in which the code breaks that promise: the look ahead at the end of the
\* path takes the zero behind a path to A2 (node 1) for its reverse, A1 (node 0); and the
\* way back from behind a merge may lead over a broken switch.
MisreadEnd(path) == track[dest].reverse = 0 /\ path[Len(path) - 1] # 0
BufferOneWay(path) ==
  \E i \in 2 .. Len(path) - 2 :
    /\ track[path[i]].reverse = path[i + 1]
    /\ ~Drivable(add_buffer_nodes(track, Buffers[which], path[i], FALSE) \o <<path[i + 1]>>)

\* In all other cases the tasks take the train to its destination, reversals and segments
\* alternate, and a segment that is not reserved for others passes no place twice, as the
\* reservations of the navigation server need it (NavigationAssumption).
SegmentsLead ==
  result = "found" /\ dest # src =>
    LET path  == Path
        tasks == NavigationTasks(path)
    IN  \/ MisreadEnd(path) \/ BufferOneWay(path)
        \/ /\ TakesTo(tasks)
           /\ \A i \in 1 .. Len(tasks) - 1 : tasks[i].type # tasks[i + 1].type
           /\ \A segment \in Segments(tasks) :
                Range(segment) \cap avoid = {} =>
                  Cardinality({{n, track[n].reverse} : n \in Range(segment)}) = Len(segment)

\* A segment that ends a journey behind the middle of a crossing: it needs both of its
\* switches straight, which the train server never leaves them.
Middle(path) ==
  LET end == path[Len(path) - 1]
  IN  track[Last(path)].type = "NODE_EXIT" /\ track[end].type = "NODE_BRANCH" /\ Partner(track[end].num) # 0

\* The worker of each segment sets its switches ahead of the train, and the requests for
\* the two switches of a crossing agree.
SwitchesSet ==
  result = "found" /\ dest # src =>
    LET path == Path
    IN  \/ MisreadEnd(path) \/ BufferOneWay(path)
        \/ \A segment \in Segments(NavigationTasks(path)) : Middle(segment) \/ SetInTime(track, segment)

\* Nothing is cut off or written past an array: the rows of buffer_nodes hold five nodes,
\* a task's path TRACK_MAX / 5 of them, and the queue of a train MAX_NAVIGATION_TASKS; and
\* every row ends at a sensor.
SegmentsFit ==
  /\ \A num \in DOMAIN Buffers[which] :
       LET row == Buffers[which][num]
       IN  Len(row) \in 1 .. 5 /\ track[Last(row)].type = "NODE_SENSOR"
  /\ result = "found" /\ dest # src =>
       LET tasks == NavigationTasks(Path)
       IN  Len(tasks) <= 10 /\ \A segment \in Segments(tasks) : Len(segment) <= 144 \div 5
=============================================================================
