---------------------------- MODULE MCNavigation ----------------------------
(***************************************************************************)
(* A piece of track with six places; a lower case letter is the one        *)
(* direction and the upper case letter the reverse.  The way from a to d   *)
(* goes over f and the merge b, whose buffer node is c, and reverses       *)
(* there; the second train drives from e to d and back.                    *)
(***************************************************************************)
EXTENDS Navigation, TLC

CONSTANTS a, b, c, d, e, f, A, B, C, D, E, F, t1, t2, w1, w2

MCNodes == {a, b, c, d, e, f, A, B, C, D, E, F}

MCReverse ==
  a :> A @@ b :> B @@ c :> C @@ d :> D @@ e :> E @@ f :> F
    @@ A :> a @@ B :> b @@ C :> c @@ D :> d @@ E :> e @@ F :> f

Straight(path) == [type |-> "NAVIGATION_STRAIGHT", path |-> path]
Back == [type |-> "NAVIGATION_REVERSE", path |-> <<>>]
Plan(path, tasks) == [src |-> path[1], dst |-> path[Len(path)], nodes |-> Elements(path), tasks |-> tasks]

FromA == <<Straight(<<a, f, b, c>>), Back, Straight(<<C, B, d>>)>>
FromC == <<Straight(<<C, B, d>>)>>
FromE == <<Straight(<<e, d>>)>>
ThereAndBack == <<Straight(<<e, d>>), Back, Straight(<<D, E>>)>>
FromD == <<Straight(<<D, E>>)>>
Turn  == <<Back>>

Routes == {<<<<a, f, b, B, d>>, FromA>>, <<<<C, B, d>>, FromC>>, <<<<e, d>>, FromE>>,
           <<<<e, d, D, E>>, ThereAndBack>>, <<<<D, E>>, FromD>>,
           <<<<d, D>>, Turn>>}
MCPlans == {Plan(r[1], r[2]) : r \in Routes}

\* The tasks are what the navigation server cuts the paths into; b is the merge of switch 1.
ASSUME TasksAssumption ==
  LET T == INSTANCE Track
      pieces == [n \in MCNodes |-> [num |-> IF n \in {b, B} THEN 1 ELSE 0, reverse |-> MCReverse[n]]]
  IN  \A r \in Routes : r[2] = T!segments_fill_navigation_tasks(pieces, 1 :> <<c>>, r[1])

MCPlacements == {<<t1, a>>, <<t2, e>>}
MCDestinations == {<<t1, d>>, <<t2, E>>}
MCMeetAtD == {<<t1, d>>, <<t2, d>>}
MCOneDestinations == {<<t1, d>>, <<t1, D>>}
MCOnePlacement == {<<t1, a>>}
MCTrains == {t1, t2}
MCOneTrain == {t1}
MCOperators == {w1, w2}
MCOneOperator == {w1}
MCSymmetry == Permutations(MCOperators)
=============================================================================
