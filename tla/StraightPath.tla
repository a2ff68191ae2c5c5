----------------------------- MODULE StraightPath -----------------------------
(***************************************************************************)
(* The switches a straight path worker (src/user/straightpathworker.c) has *)
(* set ahead of its train: the list it makes of the path, and how much of  *)
(* it a call of send_branches sends.  Two calls come before the train      *)
(* starts and one for every sensor of the path whose news arrive, also     *)
(* when they are inferred from the next one (Dispatch); when the stop is   *)
(* timed the rest is sent.                                                 *)
(***************************************************************************)
EXTENDS Track, FiniteSetsExt

\* What the list of switches has for a sensor.
Marker == [num |-> 0, dir |-> 0]

Towards(track, n, m) == IF track[n].edge[DIR_CURVED].dest = m THEN DIR_CURVED ELSE DIR_STRAIGHT

\* Seeded fault: merges are not set.
EntryNoMerge(track, path, i) ==
  LET node == track[path[i]]
  IN  CASE node.type = "NODE_SENSOR" -> <<Marker>>
        [] node.type = "NODE_BRANCH" /\ i < Len(path) ->
             <<[num |-> node.num, dir |-> Towards(track, path[i], path[i + 1])]>>
        [] OTHER -> <<>>

\* What process_path lists for the i-th node of path.
Entry(track, path, i) ==
  LET node == track[path[i]]
  IN  CASE node.type = "NODE_SENSOR" -> <<Marker>>
        [] node.type = "NODE_BRANCH" /\ i < Len(path) ->
             <<[num |-> node.num, dir |-> Towards(track, path[i], path[i + 1])]>>
        [] node.type = "NODE_MERGE" /\ i > 1 ->
             <<[num |-> node.num, dir |-> Towards(track, node.reverse, track[path[i - 1]].reverse)]>>
        [] OTHER -> <<>>

\* branches
process_path(track, path) == FlattenSeq([i \in DOMAIN path |-> Entry(track, path, i)])

\* The index j after the call: that of the next marker, or behind the list.  The switches
\* in between are requested.
send_branches(branches, j) ==
  Min({k \in j + 1 .. Len(branches) : branches[k] = Marker} \cup {Len(branches) + 1})

\* The switches requested by the first n calls.
Requested(branches, n) ==
  LET j[k \in 0 .. n] == IF k = 0 THEN 0 ELSE send_branches(branches, j[k - 1])
  IN  {branches[k] : k \in 1 .. j[n] - 1} \ {Marker}

\* The other switch of a crossing, 0 if there is none.
Partner(num) == CASE num \in {153, 155} -> num + 1 [] num \in {154, 156} -> num - 1 [] OTHER -> 0

\* What the train server makes of requests: it sets the partner too, the other way.
Switched(requests) ==
  requests \cup {[num |-> Partner(r.num), dir |-> 1 - r.dir] : r \in {q \in requests : Partner(q.num) # 0}}

-----------------------------------------------------------------------------
\* The nodes of path at which a switch decides where the train goes, or must not be
\* against it.
Switches(track, path) ==
  {i \in DOMAIN path : \/ track[path[i]].type = "NODE_BRANCH" /\ i < Len(path)
                       \/ track[path[i]].type = "NODE_MERGE" /\ i > 1}

\* The switch position s lets a train go along path at its i-th node.
Leads(track, path, i, s) ==
  IF track[path[i]].type = "NODE_BRANCH" THEN track[path[i]].edge[s.dir].dest = path[i + 1]
  ELSE track[track[path[i]].reverse].edge[s.dir].dest = track[path[i - 1]].reverse

\* Switch positions that concern the i-th node of path.
About(track, path, i, positions) == {s \in positions : s.num = track[path[i]].num}

\* A train that has passed p sensors of its path, of which the news of the last may
\* still be on the way, finds the switches up to the next sensor set for it; and no
\* request for another switch of the path moves one of them.
SetInTime(track, path) ==
  LET branches == process_path(track, path)
      all      == Switched(Requested(branches, Len(branches) + 1))
  IN  \A i \in Switches(track, path) :
        LET p     == Cardinality({k \in 1 .. i - 1 : track[path[k]].type = "NODE_SENSOR"})
            early == Switched(Requested(branches, Max({2, p + 1})))
        IN  /\ About(track, path, i, early) # {}
            /\ \A s \in About(track, path, i, all) : Leads(track, path, i, s)
=============================================================================
