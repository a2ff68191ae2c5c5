------------------------------ MODULE TrackData ------------------------------
(***************************************************************************)
(* The two tracks of src/user/track_data.c and what src/user/user.c makes  *)
(* of them.  Node n and the node of the same place in the other direction  *)
(* are 2k and 2k + 1.  The sensors 0 .. 79 come first, then the 22         *)
(* switches, a branch and a merge each, then the ends of the track.        *)
(***************************************************************************)
EXTENDS Track

TRACK_MAX == 144

\* The number of the branch of switch s; the switches are 1 .. 18 and 153 .. 156.
BranchOf(s) == IF s < 153 THEN 78 + 2 * s ELSE 116 + 2 * (s - 153)

Edge(e) == [dest |-> e[1], dist |-> e[2]]
Other(n) == IF n % 2 = 0 THEN n + 1 ELSE n - 1

\* The table of nodes.  A sensor is given by its edge <<dest, dist>>, a switch by its
\* number and the edges of its branch, straight and curved, and of its merge, an end of
\* the track by the edge of its NODE_ENTER.  What memset leaves is no node.
Layout(sensors, switches, enters) ==
  [n \in 0 .. TRACK_MAX - 1 |->
     IF n < 80 THEN Node("NODE_SENSOR", n, Other(n), Edge(sensors[n + 1]), NoEdge)
     ELSE IF n < 124
       THEN LET s == switches[(n - 80) \div 2 + 1]
            IN  IF n % 2 = 0 THEN Node("NODE_BRANCH", s[1], n + 1, Edge(s[2]), Edge(s[3]))
                ELSE Node("NODE_MERGE", s[1], n - 1, Edge(s[4]), NoEdge)
     ELSE IF n < 124 + 2 * Len(enters)
       THEN IF n % 2 = 0 THEN Node("NODE_ENTER", 0, n + 1, Edge(enters[(n - 124) \div 2 + 1]), NoEdge)
            ELSE Node("NODE_EXIT", 0, n - 1, NoEdge, NoEdge)
     ELSE Node("NODE_NONE", 0, NULL, NoEdge, NoEdge)]

-----------------------------------------------------------------------------
(* init_tracka *)

SensorsA_a ==
  <<<<103, 231>>, <<133, 504>>, <<106, 43>>, <<31, 437>>, <<85, 231>>, <<25, 642>>, <<27, 470>>, <<83, 229>>,
    <<23, 289>>, <<81, 229>>, <<81, 518>>, <<139, 43>>, <<87, 236>>, <<131, 325>>, <<135, 144>>, <<87, 417>>>>

SensorsB_a ==
  <<<<61, 404>>, <<111, 231>>, <<33, 201>>, <<111, 239>>, <<50, 404>>, <<105, 231>>, <<9, 289>>, <<137, 43>>,
    <<4, 642>>, <<141, 50>>, <<7, 470>>, <<143, 50>>, <<119, 239>>, <<63, 201>>, <<2, 437>>, <<108, 50>>>>

SensorsC_a ==
  <<<<19, 201>>, <<117, 246>>, <<129, 514>>, <<89, 239>>, <<90, 61>>, <<109, 433>>, <<115, 231>>, <<84, 128>>,
    <<109, 326>>, <<110, 128>>, <<104, 120>>, <<107, 333>>, <<70, 875>>, <<100, 43>>, <<59, 404>>, <<91, 239>>>>

SensorsD_a ==
  <<<<121, 246>>, <<67, 201>>, <<99, 239>>, <<21, 404>>, <<69, 376>>, <<97, 239>>, <<97, 309>>, <<71, 384>>,
    <<75, 369>>, <<95, 316>>, <<47, 404>>, <<93, 231>>, <<17, 404>>, <<113, 239>>, <<28, 201>>, <<113, 246>>>>

SensorsE_a ==
  <<<<123, 239>>, <<78, 201>>, <<48, 201>>, <<99, 239>>, <<53, 376>>, <<98, 50>>, <<54, 384>>, <<45, 875>>,
    <<95, 239>>, <<76, 376>>, <<57, 369>>, <<92, 50>>, <<112, 43>>, <<72, 376>>, <<105, 246>>, <<64, 201>>>>

Switches1_a ==
  <<<<1, <<11, 518>>, <<8, 229>>, <<83, 188>>>>, <<2, <<80, 188>>, <<6, 229>>, <<85, 185>>>>,
    <<3, <<5, 231>>, <<82, 185>>, <<38, 128>>>>, <<4, <<14, 417>>, <<13, 236>>, <<103, 185>>>>,
    <<5, <<34, 239>>, <<93, 371>>, <<114, 155>>>>, <<6, <<46, 239>>, <<115, 371>>, <<37, 61>>>>>>

Switches7_a ==
  <<<<7, <<58, 231>>, <<89, 371>>, <<74, 50>>>>, <<8, <<56, 316>>, <<73, 239>>, <<96, 155>>>>,
    <<9, <<55, 309>>, <<52, 239>>, <<94, 155>>>>, <<10, <<51, 239>>, <<66, 239>>, <<68, 50>>>>,
    <<11, <<102, 188>>, <<107, 495>>, <<44, 43>>>>, <<12, <<1, 231>>, <<86, 185>>, <<101, 188>>>>>>

Switches13_a ==
  <<<<13, <<20, 231>>, <<79, 246>>, <<43, 120>>>>, <<14, <<101, 495>>, <<42, 333>>, <<3, 43>>>>,
    <<15, <<36, 433>>, <<41, 326>>, <<30, 50>>>>, <<16, <<16, 231>>, <<18, 239>>, <<40, 128>>>>,
    <<17, <<60, 239>>, <<62, 246>>, <<77, 43>>>>, <<18, <<39, 231>>, <<91, 371>>, <<88, 155>>>>>>

Switches153_a ==
  <<<<153, <<125, 253>>, <<32, 246>>, <<119, 0>>>>, <<154, <<116, 0>>, <<29, 239>>, <<122, 0>>>>,
    <<155, <<127, 282>>, <<49, 246>>, <<123, 0>>>>, <<156, <<120, 0>>, <<65, 239>>, <<118, 0>>>>>>

Ends_a ==
  <<<<117, 253>>, <<121, 282>>, <<35, 514>>, <<12, 325>>, <<0, 504>>, <<15, 144>>, <<22, 43>>, <<10, 43>>,
    <<24, 50>>, <<26, 50>>>>

init_tracka ==
  Layout(SensorsA_a \o SensorsB_a \o SensorsC_a \o SensorsD_a \o SensorsE_a,
         Switches1_a \o Switches7_a \o Switches13_a \o Switches153_a, Ends_a)

-----------------------------------------------------------------------------
(* init_trackb *)

SensorsA_b ==
  <<<<103, 231>>, <<133, 504>>, <<106, 43>>, <<31, 437>>, <<85, 231>>, <<25, 642>>, <<27, 470>>, <<83, 229>>,
    <<23, 289>>, <<81, 229>>, <<81, 282>>, <<15, 814>>, <<87, 236>>, <<131, 325>>, <<10, 814>>, <<87, 275>>>>

SensorsB_b ==
  <<<<61, 404>>, <<111, 231>>, <<33, 201>>, <<111, 239>>, <<50, 404>>, <<105, 231>>, <<9, 289>>, <<135, 43>>,
    <<4, 642>>, <<137, 50>>, <<7, 470>>, <<139, 50>>, <<119, 239>>, <<63, 201>>, <<2, 437>>, <<108, 50>>>>

SensorsC_b ==
  <<<<19, 201>>, <<117, 246>>, <<129, 514>>, <<89, 239>>, <<90, 61>>, <<109, 433>>, <<115, 231>>, <<84, 128>>,
    <<109, 326>>, <<110, 128>>, <<104, 120>>, <<107, 333>>, <<70, 780>>, <<100, 50>>, <<59, 404>>, <<91, 239>>>>

SensorsD_b ==
  <<<<121, 246>>, <<67, 201>>, <<99, 239>>, <<21, 404>>, <<69, 282>>, <<97, 229>>, <<97, 309>>, <<71, 376>>,
    <<75, 282>>, <<95, 316>>, <<47, 404>>, <<93, 231>>, <<17, 404>>, <<113, 239>>, <<28, 201>>, <<113, 246>>>>

SensorsE_b ==
  <<<<123, 239>>, <<78, 201>>, <<48, 201>>, <<99, 239>>, <<53, 282>>, <<98, 50>>, <<54, 376>>, <<45, 780>>,
    <<95, 239>>, <<76, 282>>, <<57, 282>>, <<92, 43>>, <<112, 43>>, <<72, 282>>, <<105, 246>>, <<64, 201>>>>

Switches1_b ==
  <<<<1, <<11, 282>>, <<8, 229>>, <<83, 188>>>>, <<2, <<80, 188>>, <<6, 229>>, <<85, 185>>>>,
    <<3, <<5, 231>>, <<82, 185>>, <<38, 128>>>>, <<4, <<14, 275>>, <<13, 236>>, <<103, 185>>>>,
    <<5, <<34, 239>>, <<93, 371>>, <<114, 155>>>>, <<6, <<46, 239>>, <<115, 371>>, <<37, 61>>>>>>

Switches7_b ==
  <<<<7, <<58, 231>>, <<89, 371>>, <<74, 43>>>>, <<8, <<56, 316>>, <<73, 239>>, <<96, 155>>>>,
    <<9, <<55, 309>>, <<52, 229>>, <<94, 155>>>>, <<10, <<51, 239>>, <<66, 239>>, <<68, 50>>>>,
    <<11, <<102, 188>>, <<107, 495>>, <<44, 50>>>>, <<12, <<1, 231>>, <<86, 185>>, <<101, 188>>>>>>

Switches13_b ==
  <<<<13, <<20, 231>>, <<79, 246>>, <<43, 120>>>>, <<14, <<101, 495>>, <<42, 333>>, <<3, 43>>>>,
    <<15, <<36, 433>>, <<41, 326>>, <<30, 50>>>>, <<16, <<16, 231>>, <<18, 239>>, <<40, 128>>>>,
    <<17, <<60, 239>>, <<62, 246>>, <<77, 43>>>>, <<18, <<39, 231>>, <<91, 371>>, <<88, 155>>>>>>

Switches153_b ==
  <<<<153, <<125, 253>>, <<32, 246>>, <<119, 0>>>>, <<154, <<116, 0>>, <<29, 239>>, <<122, 0>>>>,
    <<155, <<127, 282>>, <<49, 246>>, <<123, 0>>>>, <<156, <<120, 0>>, <<65, 239>>, <<118, 0>>>>>>

Ends_b ==
  <<<<117, 253>>, <<121, 282>>, <<35, 514>>, <<12, 325>>, <<0, 504>>, <<22, 43>>, <<24, 50>>, <<26, 50>>>>

init_trackb ==
  Layout(SensorsA_b \o SensorsB_b \o SensorsC_b \o SensorsD_b \o SensorsE_b,
         Switches1_b \o Switches7_b \o Switches13_b \o Switches153_b, Ends_b)

-----------------------------------------------------------------------------
(* The switches that do not move: pairs of a switch and the direction it is stuck in *)

Broken_a == <<<<7, DIR_CURVED>>, <<156, DIR_CURVED>>, <<155, DIR_STRAIGHT>>,
              <<16, DIR_STRAIGHT>>, <<3, DIR_CURVED>>, <<15, DIR_STRAIGHT>>>>
Broken_b == <<<<156, DIR_STRAIGHT>>, <<155, DIR_CURVED>>, <<5, DIR_CURVED>>, <<4, DIR_STRAIGHT>>>>

\* task_k4_init, when the track has been chosen.
WithBroken(track, broken) ==
  FoldLeft(LAMBDA t, b : mark_switch_broken(t, BranchOf(b[1]), b[2]), track, broken)

TrackA == WithBroken(init_tracka, Broken_a)
TrackB == WithBroken(init_trackb, Broken_b)
=============================================================================
