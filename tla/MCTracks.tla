------------------------------ MODULE MCTracks ------------------------------
(***************************************************************************)
(* The tracks of the path search: tracks A and B with the switches that    *)
(* are broken, and a small oval with a siding, without and with a stuck    *)
(* switch; and the searches on them.                                       *)
(***************************************************************************)
EXTENDS PathSearch, TrackData, TLC

Way(m, d) == [dest |-> m, dist |-> d]

\* Sensors 0/1, 2/3 and 8/9, the latter on the siding between switches 1 and 2.
Oval ==
  LET n(type, num, reverse, ahead) == Node(type, num, reverse, ahead, NoEdge)
      s == <<n("NODE_SENSOR", 0, 1, Way(4, 200)), n("NODE_SENSOR", 1, 0, Way(6, 400)),
             n("NODE_SENSOR", 2, 3, Way(7, 100)), n("NODE_SENSOR", 3, 2, Way(5, 200)),
             Node("NODE_BRANCH", 1, 5, Way(2, 200), Way(8, 300)), n("NODE_MERGE", 1, 4, Way(1, 200)),
             Node("NODE_BRANCH", 2, 7, Way(3, 100), Way(9, 300)), n("NODE_MERGE", 2, 6, Way(0, 400)),
             n("NODE_SENSOR", 8, 9, Way(7, 300)), n("NODE_SENSOR", 9, 8, Way(5, 300))>>
  IN  [i \in 0 .. 9 |-> s[i + 1]]

\* Switch 1 is stuck: the siding is left and entered at switch 2 only.
StuckOval == mark_switch_broken(Oval, 4, DIR_STRAIGHT)

Names == {"a", "b", "oval", "stuck"}
MCSmall == {"oval", "stuck"}

MCTables == "a" :> TrackA @@ "b" :> TrackB @@ "oval" :> Oval @@ "stuck" :> StuckOval

\* The places of a track, and a place with the ones an edge away.
Places(w) == {{n, MCTables[w][n].reverse} : n \in Laid(MCTables[w])}
Stretch(w, place) ==
  LET near == {way.dest : way \in UNION {Ways(MCTables[w], n) : n \in place}}
  IN  place \cup near \cup {MCTables[w][n].reverse : n \in near}

\* On the small tracks, every source with every combination of reserved places; on the
\* large ones every sensor as source with nothing reserved, A1 and A5 with any one place
\* reserved, and A1 with any one stretch.
MCQueries ==
  [w \in Names |->
     IF w \in MCSmall THEN (DOMAIN MCTables[w]) \X {UNION P : P \in SUBSET Places(w)}
     ELSE ((0 .. 79) \X {{}}) \cup ({0, 4} \X Places(w))
            \cup ({0} \X {Stretch(w, place) : place \in Places(w)})]
=============================================================================
