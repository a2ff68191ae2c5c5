--------------------------- MODULE NavigationProofs ---------------------------
(***************************************************************************)
(* Proofs, for every track, every set of trains and operators and every    *)
(* set of journeys, of the safety properties of Navigation.                *)
(***************************************************************************)
EXTENDS Navigation, SequenceTheorems, TLAPS

\* What a train, its path worker and its straight path worker are doing fits together.
WorkersFit(t) ==
  /\ states[t] # "IDLE" => reged_at_num[t] # NoNode
  /\ states[t] # "STRAIGHTPATHING" => navigation_tasks[t] = <<>>
  /\ finder[t].at \in {"working", "found"} => states[t] = "PATHFINDING"
  /\ driver[t].at = "driving" => states[t] = "STRAIGHTPATHING"
  /\ states[t] = "STRAIGHTPATHING" /\ driver[t].at # "driving" =>
       driver[t].at = "asking" /\ navigation_tasks[t] # <<>>

\* The tasks that are left, and the ones a worker has found, are part of a journey.
TasksLead(t) ==
  /\ Journey(navigation_tasks[t])
  /\ finder[t].at = "found" /\ finder[t].result = "FOUND_PATH" =>
       finder[t].plan # <<>> /\ Journey(finder[t].plan)
  /\ driver[t].at = "driving" =>
       PassesOnce(Segment(t)) /\ driver[t].place \in 1 .. Len(Segment(t))

\* An attribution is of a node that its train has passed in the segment it drives.
AttributionsPassed ==
  \A i \in 1 .. Len(attributions) :
    LET t == attributions[i].train
    IN  /\ driver[t].at = "driving"
        /\ \E k \in 1 .. driver[t].place : attributions[i].node = Segment(t)[k]

Inv == TypeOK /\ HoldsPlace /\ \A t \in Trains : WorkersFit(t) /\ TasksLead(t)
TimelyInv == Inv /\ ReservedAhead /\ AttributionsPassed

Symmetric(r) == \A n \in Nodes : r[n] = r[Reverse[n]]

-----------------------------------------------------------------------------
(* Reservations *)

\* unreserve_node frees nothing of other trains, nothing that is not asked for, and not
\* the place of the train.
LEMMA UnreservedKeeps ==
  ASSUME NEW r \in [Nodes -> Trains \cup {NoTrain}], Symmetric(r),
         NEW S \in SUBSET Nodes, NEW t \in Trains, NEW at
  PROVE  LET q == Unreserved(r, S, t, at)
         IN  /\ q \in [Nodes -> Trains \cup {NoTrain}] /\ Symmetric(q)
             /\ \A n \in Nodes : r[n] # t => q[n] = r[n]
             /\ \A n \in Nodes : at \in {n, Reverse[n]} => q[n] = r[n]
             /\ \A n \in Nodes : S \cap {n, Reverse[n]} = {} => q[n] = r[n]
<1> DEFINE q == Unreserved(r, S, t, at)
           Freed(n) == \E m \in S \cap {n, Reverse[n]} : r[m] = t /\ at \notin {m, Reverse[m]}
<1>1. \A n \in Nodes : Reverse[n] \in Nodes /\ Reverse[Reverse[n]] = n /\ r[Reverse[n]] = r[n]
  BY NavigationAssumption DEF Symmetric
<1>2. \A n \in Nodes : q[n] = IF Freed(n) THEN NoTrain ELSE r[n]
  BY DEF Unreserved
<1>3. \A n \in Nodes : Freed(n) = Freed(Reverse[n])
  BY <1>1
<1>4. q \in [Nodes -> Trains \cup {NoTrain}]
  BY DEF Unreserved
<1>5. Symmetric(q)
  BY <1>1, <1>2, <1>3 DEF Symmetric
<1>6. \A n \in Nodes : r[n] # t => ~Freed(n)
  BY <1>1
<1>7. \A n \in Nodes : at \in {n, Reverse[n]} => ~Freed(n)
  BY <1>1
<1>8. \A n \in Nodes : S \cap {n, Reverse[n]} = {} => ~Freed(n)
  OBVIOUS
<1>9. QED
  BY <1>2, <1>4, <1>5, <1>6, <1>7, <1>8

\* reserve_node takes nothing from another train, if the nodes are free or the train's.
LEMMA ReservedKeeps ==
  ASSUME NEW r \in [Nodes -> Trains \cup {NoTrain}], Symmetric(r),
         NEW S \in SUBSET Nodes, NEW t \in Trains, \A n \in S : r[n] \in {NoTrain, t}
  PROVE  LET q == Reserved(r, S, t)
         IN  /\ q \in [Nodes -> Trains \cup {NoTrain}] /\ Symmetric(q)
             /\ \A n \in Nodes : r[n] \notin {NoTrain, t} => q[n] = r[n]
             /\ \A n \in Nodes : r[n] = t => q[n] = t
             /\ \A n \in S : q[n] = t
<1> DEFINE q == Reserved(r, S, t)
<1>1. \A n \in Nodes : Reverse[n] \in Nodes /\ Reverse[Reverse[n]] = n /\ r[Reverse[n]] = r[n]
  BY NavigationAssumption DEF Symmetric
<1>2. \A n \in Nodes : q[n] = IF {n, Reverse[n]} \cap S # {} THEN t ELSE r[n]
  BY DEF Reserved
<1>3. q \in [Nodes -> Trains \cup {NoTrain}]
  BY DEF Reserved
<1>4. Symmetric(q)
  BY <1>1, <1>2 DEF Symmetric
<1>5. \A n \in Nodes : r[n] \notin {NoTrain, t} => {n, Reverse[n]} \cap S = {}
  BY <1>1
<1>6. QED
  BY <1>2, <1>3, <1>4, <1>5

\* The nodes before a place of a segment do not reach beyond it.
LEMMA UpToPassed ==
  ASSUME NEW path \in Seq(Nodes), PassesOnce(path), NEW k \in 1 .. Len(path),
         NEW i \in k + 1 .. Len(path)
  PROVE  UpTo(path, path[k]) \cap {path[i], Reverse[path[i]]} = {}
<1> SUFFICES ASSUME NEW m \in 1 .. Len(path), \A j \in 1 .. m - 1 : path[j] # path[k],
                    path[m] \in {path[i], Reverse[path[i]]}
             PROVE  FALSE
  BY DEF UpTo
<1>1. m <= k
  <2>1. ~(k \in 1 .. m - 1)
    OBVIOUS
  <2>2. QED
    BY <2>1
<1>2. i \in 1 .. Len(path) /\ m # i
  BY <1>1
<1>3. QED
  BY <1>2 DEF PassesOnce
-----------------------------------------------------------------------------
(* Journeys *)

LEMMA JourneyFacts ==
  ASSUME NEW tasks, Journey(tasks), tasks # <<>>
  PROVE  /\ Head(tasks).type \in {"NAVIGATION_REVERSE", "NAVIGATION_STRAIGHT"}
         /\ Head(tasks).type = "NAVIGATION_STRAIGHT" =>
              /\ Head(tasks).path \in Seq(Nodes) /\ Len(Head(tasks).path) >= 2
              /\ PassesOnce(Head(tasks).path)
         /\ Journey(Tail(tasks))
         /\ Tail(tasks) # <<>> => Head(Tail(tasks)).type # Head(tasks).type
<1> DEFINE rest == Tail(tasks)
<1>1. /\ tasks \in Seq(Tasks) /\ Len(tasks) \in Nat /\ Len(tasks) >= 1
      /\ Head(tasks) = tasks[1] /\ tasks[1] \in Tasks
  BY DEF Journey
<1>2. /\ rest \in Seq(Tasks) /\ Len(rest) = Len(tasks) - 1
      /\ \A i \in 1 .. Len(rest) : rest[i] = tasks[i + 1]
  BY <1>1
<1>3. Head(tasks).type \in {"NAVIGATION_REVERSE", "NAVIGATION_STRAIGHT"}
  BY <1>1 DEF Tasks
<1>4. Head(tasks).type = "NAVIGATION_STRAIGHT" =>
        /\ Head(tasks).path \in Seq(Nodes) /\ Len(Head(tasks).path) >= 2
        /\ PassesOnce(Head(tasks).path)
  <2>1. Head(tasks).type = "NAVIGATION_STRAIGHT" => Head(tasks).path \in Seq(Nodes)
    BY <1>1 DEF Tasks
  <2>2. QED
    BY <1>1, <2>1 DEF Journey
<1>5. Journey(rest)
  <2>1. \A i \in 1 .. Len(rest) : i + 1 \in 1 .. Len(tasks)
    BY <1>1, <1>2
  <2>2. \A i \in 1 .. Len(rest) - 1 : i + 1 \in 1 .. Len(tasks) - 1 /\ i + 1 \in 1 .. Len(rest)
    BY <1>1, <1>2
  <2>3. ASSUME NEW i \in 1 .. Len(rest) - 1 PROVE rest[i].type # rest[i + 1].type
    <3>1. rest[i] = tasks[i + 1] /\ rest[i + 1] = tasks[i + 1 + 1]
      BY <1>2, <2>2
    <3>2. QED
      BY <2>2, <3>1 DEF Journey
  <2>4. QED
    BY <1>2, <2>1, <2>3 DEF Journey
<1>6. rest # <<>> => Head(rest).type # Head(tasks).type
  <2> SUFFICES ASSUME rest # <<>> PROVE Head(rest).type # Head(tasks).type
    OBVIOUS
  <2>1. Head(rest) = tasks[2] /\ 1 \in 1 .. Len(tasks) - 1
    BY <1>1, <1>2
  <2>2. QED
    BY <1>1, <2>1 DEF Journey
<1>7. QED
  BY <1>3, <1>4, <1>5, <1>6

LEMMA NoJourney == Journey(<<>>)
BY DEF Journey

\* process_next_task: wherever the tasks lead, the train keeps what it stands on, gets
\* the whole of the segment that it is to drive, and takes nothing from another train.
LEMMA NextTaskFacts ==
  ASSUME TypeOK, HoldsPlace, NEW t \in Trains, NEW tasks, Journey(tasks), tasks # <<>>,
         reged_at_num[t] # NoNode
  PROVE  LET o == NextTask(t, tasks)
         IN  /\ o.kind \in {"done", "drive", "restart"} /\ o.flip \in BOOLEAN
             /\ o.path \in Seq(Nodes) /\ o.at \in Nodes
             /\ Journey(o.left) /\ (o.kind # "drive" => o.left = <<>>)
             /\ o.nodes \in [Nodes -> Trains \cup {NoTrain}] /\ Symmetric(o.nodes)
             /\ \A n \in Nodes : reserved_nodes[n] \notin {NoTrain, t} =>
                                   o.nodes[n] = reserved_nodes[n]
             /\ o.nodes[o.at] = t
             /\ o.kind = "drive" => /\ Len(o.path) >= 2 /\ PassesOnce(o.path)
                                    /\ \A i \in 1 .. Len(o.path) : o.nodes[o.path[i]] = t
<1> DEFINE flip  == Head(tasks).type = "NAVIGATION_REVERSE"
           at    == IF flip THEN Reverse[reged_at_num[t]] ELSE reged_at_num[t]
           rest  == IF flip THEN Tail(tasks) ELSE tasks
           path  == IF rest = <<>> THEN cur_path[t] ELSE Head(rest).path
           r     == Unreserved(reserved_nodes, Nodes, t, at)
           drive == rest # <<>> /\ CanReserve(r, path, t)
           q     == Reserved(r, Elements(path), t)
           o     == NextTask(t, tasks)
<1>1. /\ o.kind = IF rest = <<>> THEN "done" ELSE IF drive THEN "drive" ELSE "restart"
      /\ o.flip = flip /\ o.path = path
      /\ o.at = IF drive THEN path[Len(path)] ELSE at
      /\ o.left = IF drive THEN Tail(rest) ELSE <<>>
      /\ o.nodes = IF drive THEN q ELSE r
  BY DEF NextTask
<1>2. Symmetric(reserved_nodes) /\ reserved_nodes \in [Nodes -> Trains \cup {NoTrain}]
  BY DEF HoldsPlace, Symmetric, TypeOK
<1>3. at \in Nodes /\ reserved_nodes[at] = t
  <2>1. reged_at_num[t] \in Nodes /\ reserved_nodes[reged_at_num[t]] = t
    BY DEF HoldsPlace, TypeOK
  <2>2. QED
    BY <1>2, <2>1, NavigationAssumption DEF Symmetric
<1>4. /\ r \in [Nodes -> Trains \cup {NoTrain}] /\ Symmetric(r)
      /\ \A n \in Nodes : reserved_nodes[n] # t => r[n] = reserved_nodes[n]
      /\ r[at] = t
  BY <1>2, <1>3, UnreservedKeeps
<1>5. Journey(rest) /\ (rest # <<>> => Head(rest).type = "NAVIGATION_STRAIGHT")
  <2>1. CASE flip
    BY <2>1, JourneyFacts
  <2>2. CASE ~flip
    BY <2>2, JourneyFacts
  <2>3. QED
    BY <2>1, <2>2
<1>6. rest # <<>> => /\ path \in Seq(Nodes) /\ Len(path) >= 2 /\ PassesOnce(path)
                     /\ Journey(Tail(rest))
  BY <1>5, JourneyFacts
<1>7. path \in Seq(Nodes)
  BY <1>6 DEF TypeOK
<1>8. Elements(path) \in SUBSET Nodes
  BY <1>7 DEF Elements
<1>9. drive => /\ q \in [Nodes -> Trains \cup {NoTrain}] /\ Symmetric(q)
               /\ \A n \in Nodes : r[n] \notin {NoTrain, t} => q[n] = r[n]
               /\ \A n \in Elements(path) : q[n] = t
  <2>1. drive => \A n \in Elements(path) : r[n] \in {NoTrain, t}
    BY DEF CanReserve, Elements
  <2> HIDE DEF r, path, drive
  <2>2. QED
    BY <1>4, <1>8, <2>1, ReservedKeeps
<1>10. /\ o.nodes \in [Nodes -> Trains \cup {NoTrain}] /\ Symmetric(o.nodes)
       /\ \A n \in Nodes : reserved_nodes[n] \notin {NoTrain, t} => o.nodes[n] = reserved_nodes[n]
  BY <1>1, <1>4, <1>9
<1>11. drive => \A i \in 1 .. Len(path) : o.nodes[path[i]] = t
  <2>1. \A i \in 1 .. Len(path) : path[i] \in Elements(path)
    BY DEF Elements
  <2> HIDE DEF r, path, drive, q, o
  <2>2. QED
    BY <1>1, <1>9, <2>1
<1>12. o.at \in Nodes /\ o.nodes[o.at] = t
  <2>1. CASE drive
    <3>1. Len(path) \in 1 .. Len(path) /\ path[Len(path)] \in Nodes
      BY <1>6, <2>1
    <3>2. QED
      BY <1>1, <1>11, <2>1, <3>1
  <2>2. CASE ~drive
    BY <1>1, <1>3, <1>4, <2>2
  <2>3. QED
    BY <2>1, <2>2
<1>13. Journey(o.left) /\ (o.kind # "drive" => o.left = <<>>)
  BY <1>1, <1>6, NoJourney
<1>14. o.kind = "drive" => /\ Len(o.path) >= 2 /\ PassesOnce(o.path)
                           /\ \A i \in 1 .. Len(o.path) : o.nodes[o.path[i]] = t
  BY <1>1, <1>6, <1>11
<1>15. o.kind \in {"done", "drive", "restart"} /\ o.flip \in BOOLEAN
  BY <1>1
<1>16. QED
  BY <1>1, <1>7, <1>10, <1>12, <1>13, <1>14, <1>15
-----------------------------------------------------------------------------
(* The invariant: each step *)

Finders == [at : {"asking", "parked", "working", "found"},
            src : Nodes \cup {NoNode}, dst : Nodes \cup {NoNode}, blocked : SUBSET Nodes,
            result : {"NONE", "FOUND_PATH", "NO_PATH_WITH_RESERVE", "NO_PATH_AT_ALL"},
            plan : Seq(Tasks)]

Drivers == [at : {"asking", "parked", "driving"}, place : Nat]
Attributions == [train : Trains, node : Nodes]
PathfindTasks == [is_valid : BOOLEAN, source_num : Nodes \cup {NoNode},
                  destination_num : Nodes \cup {NoNode}]

PrintersTyped ==
  /\ reservation_dirty \in BOOLEAN /\ train_states_dirty \in BOOLEAN
  /\ reservation_client \in BOOLEAN /\ trainstate_print_client \in BOOLEAN
  /\ outdated \in BOOLEAN

LEMMA ContinueTyped ==
  ASSUME PrintersTyped, NEW rd \in BOOLEAN, NEW td \in BOOLEAN, Continue(rd, td)
  PROVE  PrintersTyped'
BY DEF PrintersTyped, Continue

LEMMA TellPrintersTyped ==
  ASSUME PrintersTyped, NEW rd \in BOOLEAN, NEW td \in BOOLEAN,
         NEW rc \in BOOLEAN, NEW tc \in BOOLEAN, TellPrinters(rd, td, rc, tc)
  PROVE  PrintersTyped'
BY DEF PrintersTyped, TellPrinters

LEMMA AnswerTyped ==
  ASSUME TypeOK, NEW W, Answer(W) PROVE (operator \in [Operators -> {"ready", "waiting"}])'
BY DEF TypeOK, Answer

LEMMA TypedPrinters == TypeOK => PrintersTyped
BY DEF TypeOK, PrintersTyped

\* A segment that begins, a search that is restarted, or a journey that ends.
LEMMA ProcessNextInv ==
  ASSUME Inv, NEW t \in Trains, NEW tasks, NEW W,
         NEW c \in [Trains -> Operators \cup {NoOperator}],
         Journey(tasks), tasks # <<>>, states[t] # "IDLE", driver[t].at # "driving",
         ProcessNext(t, tasks, c, W), finder' \in [Trains -> Finders],
         finder'[t].at \in {"asking", "parked"}, \A u \in Trains \ {t} : finder'[u] = finder[u]
  PROVE  Inv'
<1> DEFINE o == NextTask(t, tasks)
<1>1. TypeOK /\ HoldsPlace /\ reged_at_num[t] # NoNode
  BY DEF Inv, WorkersFit
<1>2. /\ o.kind \in {"done", "drive", "restart"} /\ o.flip \in BOOLEAN
      /\ o.path \in Seq(Nodes) /\ o.at \in Nodes
      /\ Journey(o.left) /\ (o.kind # "drive" => o.left = <<>>)
      /\ o.nodes \in [Nodes -> Trains \cup {NoTrain}] /\ Symmetric(o.nodes)
      /\ \A n \in Nodes : reserved_nodes[n] \notin {NoTrain, t} => o.nodes[n] = reserved_nodes[n]
      /\ o.nodes[o.at] = t
      /\ o.kind = "drive" => Len(o.path) >= 2 /\ PassesOnce(o.path)
  BY <1>1, NextTaskFacts
<1> HIDE DEF o
<1>3. /\ reserved_nodes' = o.nodes
      /\ reged_at_num' = [reged_at_num EXCEPT ![t] = o.at]
      /\ reversed' = [reversed EXCEPT ![t] = IF o.flip THEN ~@ ELSE @]
      /\ cur_path' = [cur_path EXCEPT ![t] = o.path]
      /\ navigation_tasks' = [navigation_tasks EXCEPT ![t] = o.left]
      /\ driver' = [driver EXCEPT ![t] = IF o.kind = "drive" THEN [at |-> "driving", place |-> 1]
                                         ELSE [at |-> "parked", place |-> 0]]
      /\ states' = [states EXCEPT ![t] = CASE o.kind = "drive" -> "STRAIGHTPATHING"
                                           [] o.kind = "restart" -> "PATHFINDING"
                                           [] o.kind = "done" -> "IDLE"]
      /\ UNCHANGED <<dest_num, attributions>>
  BY DEF ProcessNext, o
<1>4. TypeOK'
  <2>1. /\ (states \in [Trains -> {"IDLE", "PATHFINDING", "STRAIGHTPATHING"}])'
        /\ (reserved_nodes \in [Nodes -> Trains \cup {NoTrain}])'
        /\ (reged_at_num \in [Trains -> Nodes \cup {NoNode}])'
        /\ (dest_num \in [Trains -> Nodes \cup {NoNode}])'
        /\ (reversed \in [Trains -> BOOLEAN])'
        /\ (cur_path \in [Trains -> Seq(Nodes)])'
        /\ (attributions \in Seq([train : Trains, node : Nodes]))'
    BY <1>1, <1>2, <1>3 DEF TypeOK
  <2>2. (navigation_tasks \in [Trains -> Seq(Tasks)])'
    BY <1>1, <1>2, <1>3 DEF TypeOK, Journey
  <2>3. (driver \in [Trains -> [at : {"asking", "parked", "driving"}, place : Nat]])'
    BY <1>1, <1>3 DEF TypeOK
  <2>4. (pathfind_tasks \in [Trains -> PathfindTasks])'
    BY <1>1, <1>2 DEF TypeOK, ProcessNext, o, PathfindTasks
  <2>5. /\ (clients \in [Trains -> Operators \cup {NoOperator}])'
        /\ (should_hang \in [Trains -> BOOLEAN])'
    BY <1>1 DEF TypeOK, ProcessNext, HangsNoMore
  <2>6. (operator \in [Operators -> {"ready", "waiting"}])'
    BY <1>1, AnswerTyped DEF ProcessNext
  <2>7. PrintersTyped'
    <3> DEFINE rd == RDirty(o.nodes # reserved_nodes \/ o.kind = "drive")
               td == train_states_dirty \/ o.flip
    <3>1. rd \in BOOLEAN /\ td \in BOOLEAN /\ reservation_client \in BOOLEAN
          /\ trainstate_print_client \in BOOLEAN /\ PrintersTyped
      BY <1>1, TypedPrinters DEF PrintersTyped, RDirty
    <3>2. Continue(rd, td)
          \/ TellPrinters(rd, td, reservation_client, trainstate_print_client)
      BY DEF ProcessNext, PrintWaiting, o
    <3> HIDE DEF rd, td
    <3>3. QED
      BY <3>1, <3>2, ContinueTyped, TellPrintersTyped
  <2>8. QED
    BY <2>1, <2>2, <2>3, <2>4, <2>5, <2>6, <2>7
       DEF TypeOK, PrintersTyped, Finders, PathfindTasks
<1>5. HoldsPlace'
  <2>1. \A u \in Trains : reged_at_num'[u] # NoNode => reserved_nodes'[reged_at_num'[u]] = u
    BY <1>1, <1>2, <1>3, NavigationAssumption DEF HoldsPlace, TypeOK
  <2>2. QED
    BY <1>2, <1>3, <2>1 DEF HoldsPlace, Symmetric
<1>6. \A u \in Trains : WorkersFit(u)'
  <2>1. WorkersFit(t)'
    BY <1>1, <1>2, <1>3, NavigationAssumption DEF WorkersFit, TypeOK
  <2>2. ASSUME NEW u \in Trains \ {t} PROVE WorkersFit(u)'
    BY <1>1, <1>3 DEF Inv, WorkersFit, TypeOK
  <2>3. QED
    BY <2>1, <2>2
<1>7. \A u \in Trains : TasksLead(u)'
  <2>1. TasksLead(t)'
    BY <1>1, <1>2, <1>3 DEF TasksLead, TypeOK, Segment
  <2>2. ASSUME NEW u \in Trains \ {t} PROVE TasksLead(u)'
    BY <1>1, <1>3 DEF Inv, TasksLead, TypeOK, Segment
  <2>3. QED
    BY <2>1, <2>2
<1>8. QED
  BY <1>4, <1>5, <1>6, <1>7 DEF Inv

LEMMA AskingTyped == Asking \in Finders /\ Asking.at = "asking"
BY DEF Asking, Finders, NoPlan

LEMMA InitInv == Init => Inv
<1> SUFFICES ASSUME Init PROVE Inv
  OBVIOUS
<1> USE NavigationAssumption
<1>1. TypeOK
  <2>1. finder \in [Trains -> Finders]
    BY AskingTyped DEF Init
  <2>2. pathfind_tasks \in [Trains -> PathfindTasks]
    BY DEF Init, PathfindTasks
  <2>3. driver \in [Trains -> [at : {"asking", "parked", "driving"}, place : Nat]]
    BY DEF Init
  <2>4. attributions \in Seq([train : Trains, node : Nodes])
    BY DEF Init
  <2>5. navigation_tasks \in [Trains -> Seq(Tasks)] /\ cur_path \in [Trains -> Seq(Nodes)]
    BY DEF Init
  <2>6. QED
    BY <2>1, <2>2, <2>3, <2>4, <2>5 DEF Init, TypeOK, Finders, PathfindTasks
<1>2. HoldsPlace
  BY DEF Init, HoldsPlace
<1>3. \A t \in Trains : WorkersFit(t) /\ TasksLead(t)
  BY NoJourney DEF Init, WorkersFit, TasksLead, Asking
<1>4. QED
  BY <1>1, <1>2, <1>3 DEF Inv

LEMMA StutterInv == Inv /\ UNCHANGED vars => Inv'
<1> SUFFICES ASSUME Inv, UNCHANGED vars PROVE Inv'
  OBVIOUS
<1> USE DEF vars, server, printers
<1>1. TypeOK'
  BY DEF Inv, TypeOK
<1>2. HoldsPlace'
  BY DEF Inv, HoldsPlace
<1>3. \A t \in Trains : WorkersFit(t)' /\ TasksLead(t)'
  BY DEF Inv, WorkersFit, TasksLead, Segment
<1>4. QED
  BY <1>1, <1>2, <1>3 DEF Inv

\* What the path worker of a train is given.
LEMMA WorkTyped ==
  ASSUME NEW t \in Trains, NEW src \in Nodes \cup {NoNode}, NEW dst \in Nodes \cup {NoNode}
  PROVE  Work(t, src, dst) \in Finders /\ Work(t, src, dst).at = "working"
<1> DEFINE blocked == {n \in Nodes : reserved_nodes[n] \notin {NoTrain, t}}
<1>1. blocked \in SUBSET Nodes
  OBVIOUS
<1>2. Work(t, src, dst) = [at |-> "working", src |-> src, dst |-> dst, blocked |-> blocked,
                           result |-> "NONE", plan |-> <<>>]
  BY DEF Work, NoPlan
<1> HIDE DEF blocked
<1>3. QED
  BY <1>1, <1>2 DEF Finders

LEMMA NavigationRequestInv ==
  ASSUME Inv, NEW t \in Trains, NEW w \in Operators, NEW dest \in Nodes, NEW hang \in BOOLEAN,
         NavigationRequest(w, t, dest, hang)
  PROVE  Inv'
<1> DEFINE work == Work(t, reged_at_num[t], dest)
<1>1. TypeOK /\ HoldsPlace /\ PrintersTyped
  BY TypedPrinters DEF Inv
<1>2. work \in Finders /\ work.at = "working"
  BY <1>1, WorkTyped DEF TypeOK
<1> HIDE DEF work
<1>3. /\ finder' \in [Trains -> Finders]
      /\ finder'[t].at = "found" => finder'[t] = finder[t]
      /\ \A u \in Trains \ {t} : finder'[u] = finder[u]
  <2>1. finder \in [Trains -> Finders]
    BY <1>1 DEF TypeOK, Finders
  <2>2. finder' = [finder EXCEPT ![t] = work] \/ finder' = finder
    BY DEF NavigationRequest, work
  <2>3. QED
    BY <1>2, <2>1, <2>2
<1>4. TypeOK'
  <2>1. PrintersTyped'
    BY <1>1, TellPrintersTyped DEF NavigationRequest, PrintWaiting, PrintersTyped
  <2>2. /\ (states \in [Trains -> {"IDLE", "PATHFINDING", "STRAIGHTPATHING"}])'
        /\ (clients \in [Trains -> Operators \cup {NoOperator}])'
        /\ (should_hang \in [Trains -> BOOLEAN])'
        /\ (dest_num \in [Trains -> Nodes \cup {NoNode}])'
        /\ (operator \in [Operators -> {"ready", "waiting"}])'
    BY <1>1 DEF NavigationRequest, TypeOK
  <2>3. (pathfind_tasks \in [Trains -> PathfindTasks])'
    <3>1. /\ pathfind_tasks \in [Trains -> PathfindTasks]
          /\ reged_at_num[t] \in Nodes \cup {NoNode}
      BY <1>1 DEF TypeOK, PathfindTasks
    <3>2. \/ pathfind_tasks' = pathfind_tasks
          \/ pathfind_tasks' = [pathfind_tasks EXCEPT ![t] =
                                  [is_valid |-> TRUE, source_num |-> reged_at_num[t],
                                   destination_num |-> dest]]
      BY DEF NavigationRequest
    <3>3. [is_valid |-> TRUE, source_num |-> reged_at_num[t],
           destination_num |-> dest] \in PathfindTasks
      BY <3>1 DEF PathfindTasks
    <3>4. QED
      BY <3>1, <3>2, <3>3
  <2>4. QED
    BY <1>1, <1>3, <2>1, <2>2, <2>3
       DEF NavigationRequest, TypeOK, PrintersTyped, Finders, PathfindTasks
<1>5. HoldsPlace'
  BY <1>1 DEF NavigationRequest, HoldsPlace
<1>6. \A u \in Trains : WorkersFit(u)'
  <2>1. WorkersFit(t)'
    BY <1>1, <1>3 DEF Inv, NavigationRequest, WorkersFit, TypeOK
  <2>2. ASSUME NEW u \in Trains \ {t} PROVE WorkersFit(u)'
    BY <1>1, <1>3 DEF Inv, NavigationRequest, WorkersFit, TypeOK
  <2>3. QED
    BY <2>1, <2>2
<1>7. \A u \in Trains : TasksLead(u)'
  BY <1>1, <1>3 DEF Inv, NavigationRequest, TasksLead, Segment
<1>8. QED
  BY <1>4, <1>5, <1>6, <1>7 DEF Inv

LEMMA RegisterLocationInv ==
  ASSUME Inv, NEW t \in Trains, NEW n \in Nodes, RegisterLocation(t, n) PROVE Inv'
<1> DEFINE r == Unreserved(reserved_nodes, Nodes, t, n)
           S == {n}
           q == Reserved(r, S, t)
<1>1. TypeOK /\ HoldsPlace /\ PrintersTyped
  BY TypedPrinters DEF Inv
<1>2. Symmetric(reserved_nodes) /\ reserved_nodes \in [Nodes -> Trains \cup {NoTrain}]
  BY <1>1 DEF HoldsPlace, Symmetric, TypeOK
<1>3. /\ r \in [Nodes -> Trains \cup {NoTrain}] /\ Symmetric(r)
      /\ \A m \in Nodes : reserved_nodes[m] # t => r[m] = reserved_nodes[m]
      /\ r[n] = reserved_nodes[n]
  BY <1>2, UnreservedKeeps
<1>4. reserved_nodes[n] \in {NoTrain, t}
  BY DEF RegisterLocation
<1> HIDE DEF r
<1>5. /\ q \in [Nodes -> Trains \cup {NoTrain}] /\ Symmetric(q)
      /\ \A m \in Nodes : r[m] \notin {NoTrain, t} => q[m] = r[m]
      /\ q[n] = t
  <2>1. S \in SUBSET Nodes /\ n \in S /\ \A m \in S : r[m] \in {NoTrain, t}
    BY <1>3, <1>4
  <2> HIDE DEF S
  <2>2. QED
    BY <1>3, <2>1, ReservedKeeps
<1>6. reserved_nodes' = q /\ reged_at_num' = [reged_at_num EXCEPT ![t] = n]
  BY DEF RegisterLocation, r
<1> HIDE DEF q
<1>7. TypeOK'
  <2>1. PrintersTyped'
    BY <1>1, TellPrintersTyped DEF RegisterLocation, PrintWaiting, PrintersTyped
  <2>2. (reged_at_num \in [Trains -> Nodes \cup {NoNode}])'
    BY <1>1, <1>6 DEF TypeOK
  <2>3. QED
    BY <1>1, <1>5, <1>6, <2>1, <2>2 DEF RegisterLocation, TypeOK, PrintersTyped
<1>8. HoldsPlace'
  <2>1. \A u \in Trains : reged_at_num'[u] # NoNode => reserved_nodes'[reged_at_num'[u]] = u
    BY <1>1, <1>3, <1>5, <1>6, NavigationAssumption DEF HoldsPlace, TypeOK
  <2>2. QED
    BY <1>5, <1>6, <2>1 DEF HoldsPlace, Symmetric
<1>9. \A u \in Trains : WorkersFit(u)' /\ TasksLead(u)'
  BY <1>1, <1>6 DEF Inv, RegisterLocation, WorkersFit, TasksLead, Segment, TypeOK
<1>10. QED
  BY <1>7, <1>8, <1>9 DEF Inv

LEMMA PathfindWorkerInv ==
  ASSUME Inv, NEW t \in Trains, PathfindWorker(t) PROVE Inv'
<1> DEFINE work == Work(t, pathfind_tasks[t].source_num, pathfind_tasks[t].destination_num)
<1>1. TypeOK /\ HoldsPlace /\ PrintersTyped
  BY TypedPrinters DEF Inv
<1>2. finder \in [Trains -> Finders] /\ pathfind_tasks \in [Trains -> PathfindTasks]
  BY <1>1 DEF TypeOK, Finders, PathfindTasks
<1>3. work \in Finders /\ work.at = "working"
  <2>1. pathfind_tasks[t] \in PathfindTasks
    BY <1>2
  <2>2. QED
    BY <2>1, WorkTyped DEF PathfindTasks
<1> HIDE DEF work
<1>4. \/ /\ states[t] = "PATHFINDING"
         /\ finder' = [finder EXCEPT ![t] = work]
         /\ pathfind_tasks' = [pathfind_tasks EXCEPT ![t].is_valid = FALSE]
         /\ TellPrinters(reservation_dirty, train_states_dirty, reservation_client,
                         trainstate_print_client)
      \/ /\ finder' = [finder EXCEPT ![t].at = "parked"]
         /\ pathfind_tasks' = pathfind_tasks
         /\ Continue(reservation_dirty, train_states_dirty)
  BY DEF PathfindWorker, PrintWaiting, work
<1>5. /\ finder' \in [Trains -> Finders]
      /\ \/ finder'[t].at = "working" /\ states[t] = "PATHFINDING"
         \/ finder'[t].at = "parked"
      /\ \A u \in Trains \ {t} : finder'[u] = finder[u]
  <2> DEFINE parked == [finder[t] EXCEPT !.at = "parked"]
  <2>1. parked \in Finders /\ parked.at = "parked"
    BY <1>2 DEF Finders
  <2>2. \/ finder' = [finder EXCEPT ![t] = work] /\ states[t] = "PATHFINDING"
        \/ finder' = [finder EXCEPT ![t] = parked]
    BY <1>2, <1>4
  <2> HIDE DEF parked
  <2>3. QED
    BY <1>2, <1>3, <2>1, <2>2
<1>6. TypeOK'
  <2>1. PrintersTyped'
    BY <1>1, <1>4, ContinueTyped, TellPrintersTyped DEF PrintersTyped
  <2>2. (pathfind_tasks \in [Trains -> PathfindTasks])'
    BY <1>2, <1>4 DEF PathfindTasks
  <2>3. QED
    BY <1>1, <1>5, <2>1, <2>2 DEF PathfindWorker, TypeOK, PrintersTyped, Finders, PathfindTasks
<1>7. HoldsPlace'
  BY <1>1 DEF PathfindWorker, HoldsPlace
<1>8. \A u \in Trains : WorkersFit(u)' /\ TasksLead(u)'
  BY <1>5 DEF Inv, PathfindWorker, WorkersFit, TasksLead, Segment
<1>9. QED
  BY <1>6, <1>7, <1>8 DEF Inv

LEMMA PathfindComputesInv ==
  ASSUME Inv, NEW t \in Trains, PathfindComputes(t) PROVE Inv'
<1>1. TypeOK /\ HoldsPlace /\ finder \in [Trains -> Finders]
  BY DEF Inv, TypeOK, Finders
<1>2. PICK result \in {"FOUND_PATH", "NO_PATH_WITH_RESERVE", "NO_PATH_AT_ALL"}, plan \in Seq(Tasks) :
        /\ finder' = [finder EXCEPT ![t] = Answered(result, plan)]
        /\ result = "FOUND_PATH" => plan # <<>> /\ Journey(plan)
  <2> DEFINE routes == {p \in Plans : p.src = finder[t].src /\ p.dst = finder[t].dst}
             free   == {p \in routes : p.nodes \cap finder[t].blocked = {}}
  <2>1. CASE \E p \in free : finder' = [finder EXCEPT ![t] = Answered("FOUND_PATH", p.tasks)]
    <3>1. PICK p \in Plans : finder' = [finder EXCEPT ![t] = Answered("FOUND_PATH", p.tasks)]
      BY <2>1
    <3>2. p.tasks # <<>> /\ Journey(p.tasks)
      BY NavigationAssumption
    <3>3. p.tasks \in Seq(Tasks)
      BY <3>2 DEF Journey
    <3>4. QED
      BY <3>1, <3>2, <3>3
  <2>2. CASE finder' = [finder EXCEPT ![t] =
                          Answered(IF routes = {} THEN "NO_PATH_AT_ALL"
                                   ELSE "NO_PATH_WITH_RESERVE", NoPlan)]
    <3>1. NoPlan \in Seq(Tasks)
      BY DEF NoPlan
    <3>2. QED
      BY <2>2, <3>1
  <2>3. QED
    BY <2>1, <2>2 DEF PathfindComputes
<1>3. /\ Answered(result, plan) \in Finders /\ Answered(result, plan).at = "found"
      /\ Answered(result, plan).result = result /\ Answered(result, plan).plan = plan
  BY DEF Answered, Finders
<1>4. /\ finder' \in [Trains -> Finders] /\ finder'[t] = Answered(result, plan)
      /\ \A u \in Trains \ {t} : finder'[u] = finder[u]
  BY <1>1, <1>2, <1>3
<1>5. TypeOK'
  BY <1>1, <1>4 DEF PathfindComputes, server, printers, TypeOK, Finders
<1>6. HoldsPlace'
  BY <1>1 DEF PathfindComputes, server, HoldsPlace
<1>7. \A u \in Trains : WorkersFit(u)' /\ TasksLead(u)'
  <2> USE <1>2, <1>3, <1>4 DEF PathfindComputes, server, WorkersFit, TasksLead, Segment
  <2>1. WorkersFit(t)' /\ TasksLead(t)'
    BY DEF Inv
  <2>2. ASSUME NEW u \in Trains \ {t} PROVE WorkersFit(u)' /\ TasksLead(u)'
    BY DEF Inv
  <2>3. QED
    BY <2>1, <2>2
<1>8. QED
  BY <1>5, <1>6, <1>7 DEF Inv

LEMMA AskAgain ==
  ASSUME Inv, NEW t \in Trains, finder' = [finder EXCEPT ![t] = Asking]
  PROVE  /\ finder' \in [Trains -> Finders] /\ finder'[t].at = "asking"
         /\ \A u \in Trains \ {t} : finder'[u] = finder[u]
<1>1. finder \in [Trains -> Finders]
  BY DEF Inv, TypeOK, Finders
<1>2. QED
  BY <1>1, AskingTyped

LEMMA ClientsTyped ==
  ASSUME TypeOK, NEW t \in Trains
  PROVE  StillClients(t) \in [Trains -> Operators \cup {NoOperator}]
BY DEF TypeOK, StillClients

LEMMA PathfindNoneInv ==
  ASSUME Inv, NEW t \in Trains, PathfindNone(t) PROVE Inv'
<1>1. TypeOK /\ HoldsPlace /\ PrintersTyped
  BY TypedPrinters DEF Inv
<1>2. /\ finder' \in [Trains -> Finders] /\ finder'[t].at = "asking"
      /\ \A u \in Trains \ {t} : finder'[u] = finder[u]
  BY AskAgain DEF PathfindNone
<1>3. states[t] = "PATHFINDING"
  BY DEF Inv, WorkersFit, PathfindNone
<1>4. TypeOK'
  <2>1. PrintersTyped'
    BY <1>1, ContinueTyped DEF PathfindNone, PrintersTyped
  <2>2. (operator \in [Operators -> {"ready", "waiting"}])'
    BY <1>1, AnswerTyped DEF PathfindNone
  <2>3. QED
    BY <1>1, <1>2, <2>1, <2>2 DEF PathfindNone, TypeOK, PrintersTyped, Finders
<1>5. HoldsPlace'
  BY <1>1 DEF PathfindNone, HoldsPlace
<1>6. states' = [states EXCEPT ![t] = "IDLE"]
      /\ states \in [Trains -> {"IDLE", "PATHFINDING", "STRAIGHTPATHING"}]
  BY <1>1 DEF PathfindNone, TypeOK
<1>7. \A u \in Trains : WorkersFit(u)' /\ TasksLead(u)'
  BY <1>2, <1>3, <1>6 DEF Inv, PathfindNone, WorkersFit, TasksLead, Segment
<1>8. QED
  BY <1>4, <1>5, <1>7 DEF Inv

LEMMA PathfindBlockedInv ==
  ASSUME Inv, NEW t \in Trains, PathfindBlocked(t) PROVE Inv'
<1>1. TypeOK /\ HoldsPlace /\ PrintersTyped
  BY TypedPrinters DEF Inv
<1>2. /\ finder' \in [Trains -> Finders] /\ finder'[t].at = "asking"
      /\ \A u \in Trains \ {t} : finder'[u] = finder[u]
  BY AskAgain DEF PathfindBlocked
<1>3. states[t] = "PATHFINDING" /\ navigation_tasks[t] = <<>>
  BY DEF Inv, WorkersFit, PathfindBlocked
<1>4. states' = states /\ navigation_tasks' = navigation_tasks
  BY <1>1, <1>3 DEF PathfindBlocked, TypeOK
<1>5. TypeOK'
  <2>1. PrintersTyped'
    BY <1>1, ContinueTyped DEF PathfindBlocked, PrintersTyped
  <2>2. (operator \in [Operators -> {"ready", "waiting"}])'
    BY <1>1, AnswerTyped DEF PathfindBlocked
  <2>3. (clients \in [Trains -> Operators \cup {NoOperator}])'
    BY <1>1, ClientsTyped DEF PathfindBlocked
  <2>4. (pathfind_tasks \in [Trains -> PathfindTasks])'
    <3>1. pathfind_tasks \in [Trains -> PathfindTasks]
          /\ reged_at_num[t] \in Nodes \cup {NoNode} /\ dest_num[t] \in Nodes \cup {NoNode}
      BY <1>1 DEF TypeOK, PathfindTasks
    <3>2. [is_valid |-> TRUE, source_num |-> reged_at_num[t],
           destination_num |-> dest_num[t]] \in PathfindTasks
      BY <3>1 DEF PathfindTasks
    <3>3. QED
      BY <3>1, <3>2 DEF PathfindBlocked
  <2>5. QED
    BY <1>1, <1>2, <1>4, <2>1, <2>2, <2>3, <2>4
       DEF PathfindBlocked, TypeOK, PrintersTyped, Finders, PathfindTasks
<1>6. HoldsPlace'
  BY <1>1 DEF PathfindBlocked, HoldsPlace
<1>7. \A u \in Trains : WorkersFit(u)' /\ TasksLead(u)'
  BY <1>2, <1>3, <1>4 DEF Inv, PathfindBlocked, WorkersFit, TasksLead, Segment
<1>8. QED
  BY <1>5, <1>6, <1>7 DEF Inv

\* The plan that is found is all the tasks there are.
LEMMA PlanFound ==
  ASSUME Inv, NEW t \in Trains, PathfindFound(t)
  PROVE  /\ navigation_tasks[t] = <<>> /\ navigation_tasks[t] \o finder[t].plan = finder[t].plan
         /\ finder[t].plan # <<>> /\ Journey(finder[t].plan)
         /\ states[t] = "PATHFINDING" /\ driver[t].at # "driving"
<1>1. navigation_tasks[t] = <<>> /\ states[t] = "PATHFINDING" /\ driver[t].at # "driving"
  BY DEF Inv, WorkersFit, PathfindFound
<1>2. finder[t].plan # <<>> /\ Journey(finder[t].plan)
  BY DEF Inv, TasksLead, PathfindFound
<1>3. finder[t].plan \in Seq(Tasks)
  BY <1>2 DEF Journey
<1>4. QED
  BY <1>1, <1>2, <1>3

LEMMA PathfindFoundInv ==
  ASSUME Inv, NEW t \in Trains, PathfindFound(t) PROVE Inv'
<1>1. TypeOK /\ HoldsPlace /\ PrintersTyped
  BY TypedPrinters DEF Inv
<1>2. /\ finder' \in [Trains -> Finders] /\ finder'[t].at = "asking"
      /\ \A u \in Trains \ {t} : finder'[u] = finder[u]
  BY AskAgain DEF PathfindFound
<1>3. /\ navigation_tasks[t] = <<>> /\ navigation_tasks[t] \o finder[t].plan = finder[t].plan
      /\ finder[t].plan # <<>> /\ Journey(finder[t].plan)
      /\ states[t] = "PATHFINDING" /\ driver[t].at # "driving"
  BY PlanFound
<1>4. StillClients(t) \in [Trains -> Operators \cup {NoOperator}]
  BY <1>1, ClientsTyped
<1>5. CASE driver[t].at = "parked"
  <2>1. ProcessNext(t, finder[t].plan, StillClients(t), NowAnswered(t))
    BY <1>3, <1>5 DEF PathfindFound
  <2>2. QED
    BY <1>2, <1>3, <1>4, <2>1, ProcessNextInv
<1>6. CASE driver[t].at # "parked"
  <2>1. /\ navigation_tasks' = [navigation_tasks EXCEPT ![t] = finder[t].plan]
        /\ states' = [states EXCEPT ![t] = "STRAIGHTPATHING"]
        /\ Answer(NowAnswered(t)) /\ clients' = StillClients(t)
        /\ UNCHANGED <<reserved_nodes, should_hang, reged_at_num, dest_num, reversed,
                       cur_path, pathfind_tasks, driver, attributions>>
        /\ TellPrinters(reservation_dirty, train_states_dirty, reservation_client,
                        trainstate_print_client)
    BY <1>3, <1>6 DEF PathfindFound, PrintWaiting
  <2>2. TypeOK'
    <3>1. PrintersTyped'
      BY <1>1, <2>1, TellPrintersTyped DEF PrintersTyped
    <3>2. (operator \in [Operators -> {"ready", "waiting"}])'
      BY <1>1, <2>1, AnswerTyped
    <3>3. /\ (navigation_tasks \in [Trains -> Seq(Tasks)])'
          /\ (states \in [Trains -> {"IDLE", "PATHFINDING", "STRAIGHTPATHING"}])'
      BY <1>1, <1>3, <2>1 DEF TypeOK, Journey
    <3>4. QED
      BY <1>1, <1>2, <1>4, <2>1, <3>1, <3>2, <3>3 DEF TypeOK, PrintersTyped, Finders
  <2>3. HoldsPlace'
    BY <1>1, <2>1 DEF HoldsPlace
  <2>4. driver[t].at = "asking"
    <3>1. driver[t] \in [at : {"asking", "parked", "driving"}, place : Nat]
      BY <1>1 DEF TypeOK
    <3>2. QED
      BY <1>3, <1>6, <3>1
  <2>5. /\ navigation_tasks'[t] = finder[t].plan /\ states'[t] = "STRAIGHTPATHING"
        /\ \A u \in Trains \ {t} : navigation_tasks'[u] = navigation_tasks[u]
                                   /\ states'[u] = states[u]
    BY <1>1, <2>1 DEF TypeOK
  <2>6. \A u \in Trains : WorkersFit(u)' /\ TasksLead(u)'
    <3>1. WorkersFit(t)' /\ TasksLead(t)'
      BY <1>2, <1>3, <2>1, <2>4, <2>5 DEF Inv, WorkersFit, TasksLead, Segment
    <3>2. ASSUME NEW u \in Trains \ {t} PROVE WorkersFit(u)' /\ TasksLead(u)'
      BY <1>2, <2>1, <2>5 DEF Inv, WorkersFit, TasksLead, Segment
    <3>3. QED
      BY <3>1, <3>2
  <2>7. QED
    BY <2>2, <2>3, <2>6 DEF Inv
<1>7. QED
  BY <1>5, <1>6

LEMMA StraightpathWorkerInv ==
  ASSUME Inv, NEW t \in Trains, StraightpathWorker(t) PROVE Inv'
<1>1. TypeOK /\ HoldsPlace /\ PrintersTyped
  BY TypedPrinters DEF Inv
<1>2. driver[t].at = "asking" /\ finder' = finder
  BY DEF StraightpathWorker
<1>3. CASE states[t] = "STRAIGHTPATHING" /\ navigation_tasks[t] # <<>>
  <2>1. ProcessNext(t, navigation_tasks[t], clients, {})
    BY <1>3 DEF StraightpathWorker
  <2>2. finder \in [Trains -> Finders] /\ clients \in [Trains -> Operators \cup {NoOperator}]
    BY <1>1 DEF TypeOK, Finders
  <2>3. finder[t].at \in {"asking", "parked"}
    <3>1. finder[t].at \in {"asking", "parked", "working", "found"}
      BY <2>2 DEF Finders
    <3>2. QED
      BY <1>3, <3>1 DEF Inv, WorkersFit
  <2>4. Journey(navigation_tasks[t])
    BY DEF Inv, TasksLead
  <2>5. QED
    BY <1>2, <1>3, <2>1, <2>2, <2>3, <2>4, ProcessNextInv
<1>4. CASE ~(states[t] = "STRAIGHTPATHING" /\ navigation_tasks[t] # <<>>)
  <2>1. /\ driver' = [driver EXCEPT ![t] = [at |-> "parked", place |-> 0]]
        /\ UNCHANGED <<server, finder, attributions, operator>>
        /\ Continue(reservation_dirty, train_states_dirty)
    BY <1>4 DEF StraightpathWorker
  <2>2. TypeOK'
    <3>1. PrintersTyped'
      BY <1>1, <2>1, ContinueTyped DEF PrintersTyped
    <3>2. (driver \in [Trains -> [at : {"asking", "parked", "driving"}, place : Nat]])'
      BY <1>1, <2>1 DEF TypeOK
    <3>3. QED
      BY <1>1, <2>1, <3>1, <3>2 DEF TypeOK, PrintersTyped, server
  <2>3. HoldsPlace'
    BY <1>1, <2>1 DEF HoldsPlace, server
  <2>4. states[t] # "STRAIGHTPATHING"
    BY <1>2, <1>4 DEF Inv, WorkersFit
  <2>5. driver'[t].at = "parked" /\ \A u \in Trains \ {t} : driver'[u] = driver[u]
    BY <1>1, <2>1 DEF TypeOK
  <2>6. \A u \in Trains : WorkersFit(u)' /\ TasksLead(u)'
    BY <2>1, <2>4, <2>5 DEF Inv, WorkersFit, TasksLead, Segment, server
  <2>7. QED
    BY <2>2, <2>3, <2>6 DEF Inv
<1>5. QED
  BY <1>3, <1>4

LEMMA DriveInv ==
  ASSUME Inv, NEW t \in Trains, Drive(t) PROVE Inv'
<1>1. TypeOK /\ HoldsPlace
  BY DEF Inv
<1>2. /\ driver[t].at = "driving" /\ driver[t].place < Len(Segment(t))
      /\ driver[t].place \in 1 .. Len(Segment(t)) /\ Segment(t) \in Seq(Nodes)
  BY <1>1 DEF Inv, TasksLead, Drive, TypeOK, Segment
<1>3. /\ driver'[t].at = "driving" /\ driver'[t].place = driver[t].place + 1
      /\ driver' \in [Trains -> Drivers]
      /\ \A u \in Trains \ {t} : driver'[u] = driver[u]
  <2> DEFINE d == [driver[t] EXCEPT !.place = @ + 1]
  <2>1. driver \in [Trains -> Drivers] /\ driver[t] \in Drivers
    BY <1>1 DEF TypeOK, Drivers
  <2>2. d \in Drivers /\ d.at = "driving" /\ d.place = driver[t].place + 1
    BY <1>2, <2>1 DEF Drivers
  <2>3. driver' = [driver EXCEPT ![t] = d]
    BY <2>1 DEF Drive
  <2> HIDE DEF d
  <2>4. QED
    BY <2>1, <2>2, <2>3
<1>4. driver'[t].place \in 1 .. Len(Segment(t))
  BY <1>2, <1>3
<1>5. TypeOK'
  <2>1. (attributions \in Seq(Attributions))'
    <3>1. attributions \in Seq(Attributions)
      BY <1>1 DEF TypeOK, Attributions
    <3>2. [train |-> t, node |-> Segment(t)[driver'[t].place]] \in Attributions
      BY <1>2, <1>4 DEF Attributions
    <3>3. QED
      BY <3>1, <3>2 DEF Drive
  <2>2. QED
    BY <1>1, <1>3, <2>1 DEF TypeOK, Drive, server, printers, Drivers, Attributions
<1>6. HoldsPlace'
  BY <1>1 DEF HoldsPlace, Drive, server
<1>7. \A u \in Trains : WorkersFit(u)' /\ TasksLead(u)'
  BY <1>3, <1>4, <1>2 DEF Inv, WorkersFit, TasksLead, Segment, Drive, server
<1>8. QED
  BY <1>5, <1>6, <1>7 DEF Inv

LEMMA StraightpathDoneInv ==
  ASSUME Inv, NEW t \in Trains, StraightpathDone(t) PROVE Inv'
<1> DEFINE at == reged_at_num[t]
           r == Unreserved(reserved_nodes, Nodes, t, at)
<1>1. TypeOK /\ HoldsPlace /\ PrintersTyped
  BY TypedPrinters DEF Inv
<1>2. Symmetric(reserved_nodes) /\ reserved_nodes \in [Nodes -> Trains \cup {NoTrain}]
  BY <1>1 DEF HoldsPlace, Symmetric, TypeOK
<1>3. states[t] = "STRAIGHTPATHING" /\ reged_at_num[t] \in Nodes
  <2>1. states[t] = "STRAIGHTPATHING"
    BY DEF Inv, WorkersFit, StraightpathDone
  <2>2. QED
    BY <1>1, <2>1 DEF Inv, WorkersFit, TypeOK
<1>4. /\ r \in [Nodes -> Trains \cup {NoTrain}] /\ Symmetric(r)
      /\ \A n \in Nodes : reserved_nodes[n] # t => r[n] = reserved_nodes[n]
      /\ r[at] = reserved_nodes[at]
  <2>1. at \in Nodes
    BY <1>3
  <2> HIDE DEF at
  <2>2. QED
    BY <1>2, <2>1, UnreservedKeeps
<1>5. \/ /\ navigation_tasks[t] = <<>> /\ reserved_nodes' = r
         /\ states' = [states EXCEPT ![t] = "IDLE"]
      \/ /\ navigation_tasks[t] # <<>> /\ reserved_nodes' = reserved_nodes /\ states' = states
  BY DEF StraightpathDone
<1> HIDE DEF r
<1>6. /\ driver' \in [Trains -> [at : {"asking", "parked", "driving"}, place : Nat]]
      /\ driver'[t].at = "asking" /\ \A u \in Trains \ {t} : driver'[u] = driver[u]
  BY <1>1 DEF StraightpathDone, TypeOK
<1>7. TypeOK'
  <2>1. PrintersTyped'
    BY <1>1, TellPrintersTyped DEF StraightpathDone, PrintWaiting, PrintersTyped, RDirty
  <2>2. (operator \in [Operators -> {"ready", "waiting"}])'
    BY <1>1, AnswerTyped DEF StraightpathDone, TypeOK
  <2>3. /\ (clients \in [Trains -> Operators \cup {NoOperator}])'
        /\ (should_hang \in [Trains -> BOOLEAN])'
    BY <1>1 DEF TypeOK, StraightpathDone, HangsNoMore
  <2>4. /\ (states \in [Trains -> {"IDLE", "PATHFINDING", "STRAIGHTPATHING"}])'
        /\ (reserved_nodes \in [Nodes -> Trains \cup {NoTrain}])'
    BY <1>1, <1>4, <1>5 DEF TypeOK
  <2>5. QED
    BY <1>1, <1>6, <2>1, <2>2, <2>3, <2>4 DEF TypeOK, PrintersTyped, StraightpathDone
<1>8. HoldsPlace'
  <2>1. reged_at_num' = reged_at_num /\ Symmetric(reserved_nodes')
    BY <1>2, <1>4, <1>5 DEF StraightpathDone
  <2>2. \A u \in Trains : reged_at_num[u] # NoNode => reserved_nodes'[reged_at_num[u]] = u
    BY <1>1, <1>4, <1>5 DEF HoldsPlace, TypeOK
  <2>3. QED
    BY <2>1, <2>2 DEF HoldsPlace, Symmetric
<1>9. \A u \in Trains : WorkersFit(u)' /\ TasksLead(u)'
  <2>1. /\ \A u \in Trains \ {t} : states'[u] = states[u]
        /\ states'[t] = IF navigation_tasks[t] = <<>> THEN "IDLE" ELSE "STRAIGHTPATHING"
    BY <1>1, <1>3, <1>5 DEF TypeOK
  <2>2. UNCHANGED <<reged_at_num, navigation_tasks, finder, cur_path>>
    BY DEF StraightpathDone
  <2>3. WorkersFit(t)' /\ TasksLead(t)'
    BY <1>3, <1>6, <2>1, <2>2 DEF Inv, WorkersFit, TasksLead, Segment
  <2>4. ASSUME NEW u \in Trains \ {t} PROVE WorkersFit(u)' /\ TasksLead(u)'
    BY <1>6, <2>1, <2>2 DEF Inv, WorkersFit, TasksLead, Segment
  <2>5. QED
    BY <2>3, <2>4
<1>10. QED
  BY <1>7, <1>8, <1>9 DEF Inv

LEMMA AttributionCourierInv == ASSUME Inv, AttributionCourier PROVE Inv'
<1> DEFINE t == Head(attributions).train
           S == UpTo(cur_path[t], Head(attributions).node)
           r == Unreserved(reserved_nodes, S, t, reged_at_num[t])
<1>1. TypeOK /\ HoldsPlace /\ PrintersTyped
  BY TypedPrinters DEF Inv
<1>2. Symmetric(reserved_nodes) /\ reserved_nodes \in [Nodes -> Trains \cup {NoTrain}]
  BY <1>1 DEF HoldsPlace, Symmetric, TypeOK
<1>3. Head(attributions) \in Attributions /\ Tail(attributions) \in Seq(Attributions)
  <2>1. attributions \in Seq(Attributions) /\ attributions # <<>>
    BY <1>1 DEF AttributionCourier, TypeOK, Attributions
  <2>2. QED
    BY <2>1
<1>4. t \in Trains /\ S \in SUBSET Nodes
  <2>1. t \in Trains
    BY <1>3 DEF Attributions
  <2>2. cur_path[t] \in Seq(Nodes)
    BY <1>1, <2>1 DEF TypeOK
  <2>3. QED
    BY <2>1, <2>2 DEF UpTo
<1>5. reserved_nodes' = r
  BY DEF AttributionCourier
<1> HIDE DEF t, S
<1>6. /\ r \in [Nodes -> Trains \cup {NoTrain}] /\ Symmetric(r)
      /\ \A n \in Nodes : reserved_nodes[n] # t => r[n] = reserved_nodes[n]
      /\ \A n \in Nodes : reged_at_num[t] \in {n, Reverse[n]} => r[n] = reserved_nodes[n]
  BY <1>2, <1>4, UnreservedKeeps
<1> HIDE DEF r
<1>7. TypeOK'
  <2>1. PrintersTyped'
    BY <1>1, TellPrintersTyped DEF AttributionCourier, PrintWaiting, PrintersTyped, RDirty
  <2>2. QED
    BY <1>1, <1>3, <1>5, <1>6, <2>1
       DEF TypeOK, PrintersTyped, AttributionCourier, Attributions
<1>8. HoldsPlace'
  <2>1. reged_at_num' = reged_at_num
    BY DEF AttributionCourier
  <2>2. \A u \in Trains : reged_at_num[u] # NoNode => r[reged_at_num[u]] = u
    BY <1>1, <1>4, <1>6 DEF HoldsPlace, TypeOK
  <2>3. QED
    BY <1>5, <1>6, <2>1, <2>2 DEF HoldsPlace, Symmetric
<1>9. \A u \in Trains : WorkersFit(u)' /\ TasksLead(u)'
  BY DEF Inv, WorkersFit, TasksLead, Segment, AttributionCourier
<1>10. QED
  BY <1>7, <1>8, <1>9 DEF Inv

LEMMA PrintersInv == ASSUME Inv, GetReservations \/ GetTrainState PROVE Inv'
<1> USE DEF server
<1>1. TypeOK /\ HoldsPlace /\ PrintersTyped
  BY TypedPrinters DEF Inv
<1>2. PrintersTyped'
  BY <1>1, TellPrintersTyped DEF GetReservations, GetTrainState, PrintersTyped
<1>3. UNCHANGED <<server, finder, driver, attributions, operator>>
  BY DEF GetReservations, GetTrainState
<1>4. TypeOK'
  BY <1>1, <1>2, <1>3 DEF TypeOK, PrintersTyped
<1>5. HoldsPlace' /\ \A u \in Trains : WorkersFit(u)' /\ TasksLead(u)'
  BY <1>1, <1>3 DEF Inv, HoldsPlace, WorkersFit, TasksLead, Segment
<1>6. QED
  BY <1>4, <1>5 DEF Inv

LEMMA NextInv == ASSUME Inv, [Next]_vars PROVE Inv'
<1>1. CASE UNCHANGED vars
  BY <1>1, StutterInv
<1>2. ASSUME NEW t \in Trains, NEW w \in Operators, NavigationRefused(w, t) PROVE Inv'
  BY <1>2, StutterInv DEF NavigationRefused
<1>3. ASSUME NEW t \in Trains, PathWorkerSteps(t) PROVE Inv'
  BY <1>3, PathfindWorkerInv, PathfindComputesInv, PathfindNoneInv, PathfindBlockedInv,
     PathfindFoundInv DEF PathWorkerSteps
<1>4. ASSUME NEW t \in Trains, StraightpathWorkerSteps(t) PROVE Inv'
  BY <1>4, StraightpathWorkerInv, DriveInv, StraightpathDoneInv DEF StraightpathWorkerSteps
<1>5. QED
  BY <1>1, <1>2, <1>3, <1>4, NavigationRequestInv, RegisterLocationInv,
     AttributionCourierInv, PrintersInv DEF Next

LEMMA SpecInv == Spec => []Inv
BY InitInv, NextInv, PTL DEF Spec
-----------------------------------------------------------------------------
(* What a train has ahead of it *)

\* A step on behalf of train t leaves the other trains' way as it is.
LEMMA AheadOfOthers ==
  ASSUME Inv, ReservedAhead, NEW t \in Trains,
         \A n \in Nodes : reserved_nodes[n] \notin {NoTrain, t} =>
                            reserved_nodes'[n] = reserved_nodes[n],
         \A u \in Trains \ {t} : driver'[u] = driver[u] /\ cur_path'[u] = cur_path[u],
         driver'[t].at = "driving" =>
           \A i \in driver'[t].place + 1 .. Len(cur_path'[t]) : reserved_nodes'[cur_path'[t][i]] = t
  PROVE  ReservedAhead'
<1> SUFFICES ASSUME NEW u \in Trains \ {t}, driver[u].at = "driving",
                    NEW i \in driver[u].place + 1 .. Len(cur_path[u])
             PROVE  reserved_nodes'[cur_path[u][i]] = u
  BY DEF ReservedAhead, Segment
<1>1. reserved_nodes[cur_path[u][i]] = u
  BY DEF ReservedAhead, Segment
<1>2. cur_path[u] \in Seq(Nodes) /\ driver[u].place \in Nat
  BY DEF Inv, TypeOK
<1>3. cur_path[u][i] \in Nodes
  BY <1>2
<1>4. QED
  BY <1>1, <1>3, NavigationAssumption

\* So do the attributions, if there is none of train t.
LEMMA PassedByOthers ==
  ASSUME Inv, AttributionsPassed, NEW t \in Trains, attributions' = attributions,
         \A u \in Trains \ {t} : driver'[u] = driver[u] /\ cur_path'[u] = cur_path[u],
         \A i \in 1 .. Len(attributions) : attributions[i].train # t
  PROVE  AttributionsPassed'
<1>1. \A i \in 1 .. Len(attributions) : attributions[i].train \in Trains \ {t}
  <2>1. attributions \in Seq(Attributions)
    BY DEF Inv, TypeOK, Attributions
  <2>2. \A i \in 1 .. Len(attributions) : attributions[i] \in Attributions
    BY <2>1
  <2>3. QED
    BY <2>2 DEF Attributions
<1>2. QED
  BY <1>1 DEF AttributionsPassed, Segment

\* A train that stands still has no attributions.
LEMMA NoneOfStanding ==
  ASSUME AttributionsPassed, NEW t \in Trains, driver[t].at # "driving"
  PROVE  \A i \in 1 .. Len(attributions) : attributions[i].train # t
BY DEF AttributionsPassed

LEMMA ProcessNextAhead ==
  ASSUME Inv, ReservedAhead, AttributionsPassed, NEW t \in Trains, NEW tasks, NEW c, NEW W,
         Journey(tasks), tasks # <<>>, states[t] # "IDLE", driver[t].at # "driving",
         ProcessNext(t, tasks, c, W)
  PROVE  ReservedAhead' /\ AttributionsPassed'
<1> DEFINE o == NextTask(t, tasks)
<1>1. TypeOK /\ HoldsPlace /\ reged_at_num[t] # NoNode
  BY DEF Inv, WorkersFit
<1>2. /\ o.path \in Seq(Nodes)
      /\ \A n \in Nodes : reserved_nodes[n] \notin {NoTrain, t} => o.nodes[n] = reserved_nodes[n]
      /\ o.kind = "drive" => \A i \in 1 .. Len(o.path) : o.nodes[o.path[i]] = t
  BY <1>1, NextTaskFacts
<1>3. /\ reserved_nodes' = o.nodes /\ attributions' = attributions
      /\ cur_path' = [cur_path EXCEPT ![t] = o.path]
      /\ driver' = [driver EXCEPT ![t] = IF o.kind = "drive" THEN [at |-> "driving", place |-> 1]
                                         ELSE [at |-> "parked", place |-> 0]]
  BY DEF ProcessNext
<1> HIDE DEF o
<1>4. /\ \A u \in Trains \ {t} : driver'[u] = driver[u] /\ cur_path'[u] = cur_path[u]
      /\ cur_path'[t] = o.path
      /\ driver'[t].at = "driving" => o.kind = "drive" /\ driver'[t].place = 1
  BY <1>1, <1>3 DEF TypeOK
<1>5. driver'[t].at = "driving" =>
        \A i \in driver'[t].place + 1 .. Len(cur_path'[t]) : reserved_nodes'[cur_path'[t][i]] = t
  <2>1. \A i \in 2 .. Len(o.path) : i \in 1 .. Len(o.path)
    BY <1>2
  <2>2. QED
    BY <1>2, <1>3, <1>4, <2>1
<1>6. ReservedAhead'
  BY <1>2, <1>3, <1>4, <1>5, AheadOfOthers
<1>7. AttributionsPassed'
  BY <1>3, <1>4, NoneOfStanding, PassedByOthers
<1>8. QED
  BY <1>6, <1>7

LEMMA RegisterLocationAhead ==
  ASSUME Inv, ReservedAhead, AttributionsPassed, NEW t \in Trains, NEW n \in Nodes,
         RegisterLocation(t, n)
  PROVE  ReservedAhead' /\ AttributionsPassed'
<1> DEFINE r == Unreserved(reserved_nodes, Nodes, t, n)
           S == {n}
           q == Reserved(r, S, t)
<1>1. Symmetric(reserved_nodes) /\ reserved_nodes \in [Nodes -> Trains \cup {NoTrain}]
  BY DEF Inv, HoldsPlace, Symmetric, TypeOK
<1>2. /\ r \in [Nodes -> Trains \cup {NoTrain}] /\ Symmetric(r)
      /\ \A m \in Nodes : reserved_nodes[m] # t => r[m] = reserved_nodes[m]
      /\ r[n] = reserved_nodes[n]
  BY <1>1, UnreservedKeeps
<1>3. reserved_nodes' = q /\ UNCHANGED <<driver, cur_path, attributions>>
  BY DEF RegisterLocation
<1>4. S \in SUBSET Nodes /\ \A m \in S : r[m] \in {NoTrain, t}
  BY <1>2 DEF RegisterLocation
<1>5. driver[t].at # "driving"
  BY DEF Inv, WorkersFit, RegisterLocation
<1> HIDE DEF r, S
<1>6. \A m \in Nodes : r[m] \notin {NoTrain, t} => q[m] = r[m]
  BY <1>2, <1>4, ReservedKeeps
<1> HIDE DEF q
<1>7. \A m \in Nodes : reserved_nodes[m] \notin {NoTrain, t} =>
                         reserved_nodes'[m] = reserved_nodes[m]
  BY <1>2, <1>3, <1>6
<1>8. ReservedAhead'
  BY <1>3, <1>5, <1>7, AheadOfOthers
<1>9. QED
  BY <1>3, <1>8 DEF AttributionsPassed, Segment

LEMMA DriveAhead ==
  ASSUME Inv, ReservedAhead, AttributionsPassed, NEW t \in Trains, Drive(t)
  PROVE  ReservedAhead' /\ AttributionsPassed'
<1>1. /\ driver[t].place \in 1 .. Len(Segment(t)) /\ Segment(t) \in Seq(Nodes)
      /\ driver[t].at = "driving" /\ driver[t].place < Len(Segment(t))
  BY DEF Inv, TasksLead, Drive, TypeOK, Segment
<1>2. UNCHANGED <<reserved_nodes, cur_path>>
  BY DEF Drive, server
<1>3. /\ driver'[t].at = "driving" /\ driver'[t].place = driver[t].place + 1
      /\ \A u \in Trains \ {t} : driver'[u] = driver[u]
  BY <1>1 DEF Inv, TypeOK, Drive
<1>4. ReservedAhead'
  <2>1. \A i \in driver'[t].place + 1 .. Len(cur_path'[t]) :
          i \in driver[t].place + 1 .. Len(Segment(t))
    BY <1>1, <1>2, <1>3 DEF Segment
  <2>2. \A i \in driver'[t].place + 1 .. Len(cur_path'[t]) : reserved_nodes'[cur_path'[t][i]] = t
    BY <1>1, <1>2, <2>1 DEF ReservedAhead, Segment
  <2>3. QED
    BY <1>2, <1>3, <2>2, AheadOfOthers
<1>5. AttributionsPassed'
  <2>1. attributions \in Seq(Attributions)
    BY DEF Inv, TypeOK, Attributions
  <2>2. \A i \in 1 .. Len(attributions) :
          LET u == attributions[i].train
          IN  /\ driver'[u].at = "driving"
              /\ \E k \in 1 .. driver'[u].place : attributions[i].node = cur_path'[u][k]
    <3> SUFFICES ASSUME NEW i \in 1 .. Len(attributions)
                 PROVE  LET u == attributions[i].train
                        IN  /\ driver'[u].at = "driving"
                            /\ \E k \in 1 .. driver'[u].place : attributions[i].node = cur_path'[u][k]
      OBVIOUS
    <3> DEFINE u == attributions[i].train
    <3>1. u \in Trains
      <4>1. attributions[i] \in Attributions
        BY <2>1
      <4>2. QED
        BY <4>1 DEF Attributions
    <3>2. driver[u].at = "driving" /\ \E k \in 1 .. driver[u].place :
                                        attributions[i].node = cur_path[u][k]
      BY DEF AttributionsPassed, Segment
    <3>3. driver'[u].at = "driving" /\ \A k \in 1 .. driver[u].place : k \in 1 .. driver'[u].place
      BY <1>1, <1>3, <3>1, <3>2
    <3>4. QED
      BY <1>2, <3>2, <3>3
  <2>3. CASE attributions' = attributions
    BY <2>2, <2>3 DEF AttributionsPassed, Segment
  <2>4. ASSUME attributions' = Append(attributions,
                                 [train |-> t, node |-> Segment(t)[driver'[t].place]])
        PROVE  AttributionsPassed'
    <3>1. /\ Len(attributions') = Len(attributions) + 1
          /\ \A i \in 1 .. Len(attributions) : attributions'[i] = attributions[i]
          /\ attributions'[Len(attributions) + 1].train = t
          /\ attributions'[Len(attributions) + 1].node = cur_path'[t][driver'[t].place]
      BY <1>2, <2>1, <2>4 DEF Segment
    <3>2. \A i \in 1 .. Len(attributions') :
            i \in 1 .. Len(attributions) \/ i = Len(attributions) + 1
      BY <2>1, <3>1
    <3>3. driver'[t].place \in 1 .. driver'[t].place
      BY <1>1, <1>3
    <3>4. QED
      BY <1>3, <2>2, <3>1, <3>2, <3>3 DEF AttributionsPassed, Segment
  <2>5. QED
    BY <2>3, <2>4 DEF Drive
<1>6. QED
  BY <1>4, <1>5

LEMMA StraightpathDoneAhead ==
  ASSUME Timely, Inv, ReservedAhead, AttributionsPassed, NEW t \in Trains, StraightpathDone(t)
  PROVE  ReservedAhead' /\ AttributionsPassed'
<1> DEFINE at == reged_at_num[t]
           r == Unreserved(reserved_nodes, Nodes, t, at)
<1>1. Symmetric(reserved_nodes) /\ reserved_nodes \in [Nodes -> Trains \cup {NoTrain}]
  BY DEF Inv, HoldsPlace, Symmetric, TypeOK
<1>2. reserved_nodes' = r \/ reserved_nodes' = reserved_nodes
  BY DEF StraightpathDone
<1> HIDE DEF at
<1>3. /\ r \in [Nodes -> Trains \cup {NoTrain}] /\ Symmetric(r)
      /\ \A n \in Nodes : reserved_nodes[n] # t => r[n] = reserved_nodes[n]
  BY <1>1, UnreservedKeeps
<1> HIDE DEF r
<1>4. /\ driver'[t].at = "asking" /\ UNCHANGED <<cur_path, attributions>>
      /\ \A u \in Trains \ {t} : driver'[u] = driver[u]
  BY DEF StraightpathDone, Inv, TypeOK
<1>5. ReservedAhead'
  BY <1>2, <1>3, <1>4, AheadOfOthers
<1>6. AttributionsPassed'
  BY <1>4, PassedByOthers DEF StraightpathDone
<1>7. QED
  BY <1>5, <1>6

\* What the courier frees is behind the train.
LEMMA AttributionCourierAhead ==
  ASSUME Inv, ReservedAhead, AttributionsPassed, AttributionCourier
  PROVE  ReservedAhead' /\ AttributionsPassed'
<1> DEFINE t == Head(attributions).train
           node == Head(attributions).node
           S == UpTo(cur_path[t], node)
           at == reged_at_num[t]
           r == Unreserved(reserved_nodes, S, t, at)
<1>1. Symmetric(reserved_nodes) /\ reserved_nodes \in [Nodes -> Trains \cup {NoTrain}]
  BY DEF Inv, HoldsPlace, Symmetric, TypeOK
<1>2. attributions \in Seq(Attributions) /\ attributions # <<>>
  BY DEF Inv, TypeOK, AttributionCourier, Attributions
<1>3. /\ Head(attributions) = attributions[1] /\ 1 \in 1 .. Len(attributions)
      /\ attributions[1] \in Attributions
  BY <1>2
<1>4. t \in Trains
  BY <1>3 DEF Attributions
<1>5. /\ driver[t].at = "driving" /\ driver[t].place \in 1 .. Len(cur_path[t])
      /\ cur_path[t] \in Seq(Nodes) /\ PassesOnce(cur_path[t])
  BY <1>3, <1>4 DEF AttributionsPassed, Inv, TasksLead, TypeOK, Segment
<1>6. PICK k \in 1 .. driver[t].place : node = cur_path[t][k]
  BY <1>3 DEF AttributionsPassed, Segment
<1>7. S \in SUBSET Nodes
  BY <1>5 DEF UpTo
<1>8. reserved_nodes' = r /\ UNCHANGED <<driver, cur_path>> /\ attributions' = Tail(attributions)
  BY DEF AttributionCourier
<1>9. \A i \in driver[t].place + 1 .. Len(cur_path[t]) :
        /\ cur_path[t][i] \in Nodes
        /\ S \cap {cur_path[t][i], Reverse[cur_path[t][i]]} = {}
  <2> SUFFICES ASSUME NEW i \in driver[t].place + 1 .. Len(cur_path[t])
               PROVE  /\ cur_path[t][i] \in Nodes
                      /\ S \cap {cur_path[t][i], Reverse[cur_path[t][i]]} = {}
    OBVIOUS
  <2>1. k \in 1 .. Len(cur_path[t]) /\ i \in k + 1 .. Len(cur_path[t])
    BY <1>5, <1>6
  <2>2. S = UpTo(cur_path[t], cur_path[t][k])
    BY <1>6
  <2>3. cur_path[t][i] \in Nodes
    BY <1>5, <2>1
  <2> HIDE DEF t, S
  <2>4. S \cap {cur_path[t][i], Reverse[cur_path[t][i]]} = {}
    BY <1>5, <2>1, <2>2, UpToPassed
  <2>5. QED
    BY <2>3, <2>4
<1> HIDE DEF at, S
<1>10. /\ \A n \in Nodes : reserved_nodes[n] # t => r[n] = reserved_nodes[n]
       /\ \A n \in Nodes : S \cap {n, Reverse[n]} = {} => r[n] = reserved_nodes[n]
  <2> HIDE DEF t
  <2>1. QED
    BY <1>1, <1>4, <1>7, UnreservedKeeps
<1> HIDE DEF r
<1>11. ReservedAhead'
  <2>1. \A i \in driver[t].place + 1 .. Len(cur_path[t]) : reserved_nodes'[cur_path[t][i]] = t
    BY <1>4, <1>5, <1>8, <1>9, <1>10 DEF ReservedAhead, Segment
  <2> HIDE DEF t
  <2>2. QED
    BY <1>4, <1>8, <1>10, <2>1, AheadOfOthers
<1>12. AttributionsPassed'
  <2>1. /\ Len(Tail(attributions)) = Len(attributions) - 1
        /\ \A i \in 1 .. Len(attributions) - 1 : Tail(attributions)[i] = attributions[i + 1]
                                                 /\ i + 1 \in 1 .. Len(attributions)
    BY <1>2
  <2>2. QED
    BY <1>8, <2>1 DEF AttributionsPassed, Segment
<1>13. QED
  BY <1>11, <1>12

LEMMA NextAhead ==
  ASSUME Timely, Inv, ReservedAhead, AttributionsPassed, [Next]_vars
  PROVE  ReservedAhead' /\ AttributionsPassed'
<1>1. ASSUME UNCHANGED <<reserved_nodes, cur_path, driver, attributions>>
      PROVE  ReservedAhead' /\ AttributionsPassed'
  BY <1>1 DEF ReservedAhead, AttributionsPassed, Segment
<1>2. CASE UNCHANGED vars
  BY <1>1, <1>2 DEF vars, server
<1>3. ASSUME NEW t \in Trains,
             (\E w \in Operators : NavigationRefused(w, t))
               \/ (\E w \in Operators, dest \in Nodes, hang \in BOOLEAN :
                     NavigationRequest(w, t, dest, hang))
      PROVE  ReservedAhead' /\ AttributionsPassed'
  <2>1. UNCHANGED <<reserved_nodes, cur_path, driver, attributions>>
    BY <1>3 DEF NavigationRefused, NavigationRequest, vars, server
  <2>2. QED
    BY <1>1, <2>1
<1>4. ASSUME NEW t \in Trains, PathfindFound(t) PROVE ReservedAhead' /\ AttributionsPassed'
  <2>1. /\ navigation_tasks[t] \o finder[t].plan = finder[t].plan
        /\ finder[t].plan # <<>> /\ Journey(finder[t].plan)
        /\ states[t] = "PATHFINDING" /\ driver[t].at # "driving"
    BY <1>4, PlanFound
  <2>2. CASE driver[t].at = "parked"
    <3>1. ProcessNext(t, finder[t].plan, StillClients(t), NowAnswered(t))
      BY <1>4, <2>1, <2>2 DEF PathfindFound
    <3>2. QED
      BY <2>1, <3>1, ProcessNextAhead
  <2>3. CASE driver[t].at # "parked"
    <3>1. UNCHANGED <<reserved_nodes, cur_path, driver, attributions>>
      BY <1>4, <2>3 DEF PathfindFound
    <3>2. QED
      BY <1>1, <3>1
  <2>4. QED
    BY <2>2, <2>3
<1>5. ASSUME NEW t \in Trains, PathWorkerSteps(t) PROVE ReservedAhead' /\ AttributionsPassed'
  <2>1. ASSUME PathfindWorker(t) \/ PathfindComputes(t) \/ PathfindNone(t) \/ PathfindBlocked(t)
        PROVE  UNCHANGED <<reserved_nodes, cur_path, driver, attributions>>
    BY <2>1 DEF PathfindWorker, PathfindComputes, PathfindNone, PathfindBlocked, server
  <2>2. QED
    BY <1>1, <1>4, <1>5, <2>1 DEF PathWorkerSteps
<1>6. ASSUME NEW t \in Trains, StraightpathWorker(t) PROVE ReservedAhead' /\ AttributionsPassed'
  <2>1. CASE states[t] = "STRAIGHTPATHING" /\ navigation_tasks[t] # <<>>
    <3>1. /\ ProcessNext(t, navigation_tasks[t], clients, {})
          /\ driver[t].at = "asking" /\ Journey(navigation_tasks[t])
      BY <1>6, <2>1 DEF StraightpathWorker, Inv, TasksLead
    <3>2. QED
      BY <2>1, <3>1, ProcessNextAhead
  <2>2. CASE ~(states[t] = "STRAIGHTPATHING" /\ navigation_tasks[t] # <<>>)
    <3>1. /\ driver[t].at = "asking" /\ UNCHANGED <<reserved_nodes, cur_path, attributions>>
          /\ driver' = [driver EXCEPT ![t] = [at |-> "parked", place |-> 0]]
      BY <1>6, <2>2 DEF StraightpathWorker, server
    <3>2. /\ driver'[t].at = "parked"
          /\ \A u \in Trains \ {t} : driver'[u] = driver[u] /\ cur_path'[u] = cur_path[u]
      BY <3>1 DEF Inv, TypeOK
    <3>3. ReservedAhead'
      BY <3>1, <3>2, AheadOfOthers
    <3>4. AttributionsPassed'
      BY <3>1, <3>2, NoneOfStanding, PassedByOthers
    <3>5. QED
      BY <3>3, <3>4
  <2>3. QED
    BY <2>1, <2>2
<1>7. ASSUME NEW t \in Trains, StraightpathWorkerSteps(t)
      PROVE  ReservedAhead' /\ AttributionsPassed'
  BY <1>6, <1>7, DriveAhead, StraightpathDoneAhead DEF StraightpathWorkerSteps
<1>8. ASSUME GetReservations \/ GetTrainState PROVE ReservedAhead' /\ AttributionsPassed'
  <2>1. UNCHANGED <<reserved_nodes, cur_path, driver, attributions>>
    BY <1>8 DEF GetReservations, GetTrainState, server
  <2>2. QED
    BY <1>1, <2>1
<1>9. QED
  BY <1>2, <1>3, <1>5, <1>7, <1>8, RegisterLocationAhead, AttributionCourierAhead DEF Next

-----------------------------------------------------------------------------
(* Operators that wait *)

\* A step of train t that deals with the operator who waits for it.
LEMMA OthersRemembered ==
  ASSUME NoClientForgotten, NEW t \in Trains,
         \A u \in Trains \ {t} : /\ clients'[u] = clients[u] /\ states'[u] = states[u]
                                 /\ should_hang'[u] = should_hang[u],
         \A w \in Operators : operator'[w] = "waiting" => operator[w] = "waiting",
         \A w \in Operators :
           /\ operator'[w] = "waiting" /\ clients[t] = w /\ states[t] # "IDLE"
           /\ should_hang[t] \/ states[t] = "PATHFINDING"
           => /\ clients'[t] = w /\ states'[t] # "IDLE"
              /\ should_hang'[t] \/ states'[t] = "PATHFINDING"
  PROVE  NoClientForgotten'
BY DEF NoClientForgotten

LEMMA AnswerLeaves ==
  ASSUME NEW W, Answer(W), NEW w \in Operators, operator'[w] = "waiting"
  PROVE  operator[w] = "waiting" /\ w \notin W
BY DEF Answer

LEMMA ProcessNextRemembers ==
  ASSUME Inv, NoClientForgotten, NEW t \in Trains, NEW tasks, NEW W,
         NEW c \in [Trains -> Operators \cup {NoOperator}],
         Journey(tasks), tasks # <<>>, states[t] # "IDLE", ProcessNext(t, tasks, c, W),
         \A u \in Trains \ {t} : c[u] = clients[u],
         \A w \in Operators \ W :
           clients[t] = w /\ (should_hang[t] \/ states[t] = "PATHFINDING") =>
             should_hang[t] /\ c[t] = w
  PROVE  NoClientForgotten'
<1> DEFINE o == NextTask(t, tasks)
<1>1. TypeOK /\ HoldsPlace /\ reged_at_num[t] # NoNode
  BY DEF Inv, WorkersFit
<1>2. o.kind \in {"done", "drive", "restart"}
  BY <1>1, NextTaskFacts
<1>3. /\ states' = [states EXCEPT ![t] = CASE o.kind = "drive" -> "STRAIGHTPATHING"
                                           [] o.kind = "restart" -> "PATHFINDING"
                                           [] o.kind = "done" -> "IDLE"]
      /\ IF o.kind = "done"
           THEN HangsNoMore(t, c) /\ Answer(W \cup Hanging(t))
           ELSE clients' = c /\ Answer(W) /\ UNCHANGED should_hang
  BY DEF ProcessNext
<1> HIDE DEF o
<1>4. /\ \A u \in Trains \ {t} : states'[u] = states[u]
      /\ o.kind # "done" => states'[t] # "IDLE"
  BY <1>1, <1>2, <1>3 DEF TypeOK
<1>5. \A u \in Trains \ {t} : clients'[u] = clients[u] /\ should_hang'[u] = should_hang[u]
  BY <1>1, <1>3 DEF HangsNoMore, TypeOK
<1>6. CASE o.kind = "done"
  <2>1. \A w \in Operators : operator'[w] = "waiting" =>
          operator[w] = "waiting" /\ w \notin W /\ w \notin Hanging(t)
    BY <1>3, <1>6, AnswerLeaves
  <2>2. QED
    BY <1>4, <1>5, <2>1, OthersRemembered DEF Hanging
<1>7. CASE o.kind # "done"
  <2>1. \A w \in Operators : operator'[w] = "waiting" => operator[w] = "waiting" /\ w \notin W
    BY <1>3, <1>7, AnswerLeaves
  <2>2. clients' = c /\ should_hang' = should_hang
    BY <1>3, <1>7
  <2>3. QED
    BY <1>4, <1>5, <1>7, <2>1, <2>2, OthersRemembered
<1>8. QED
  BY <1>6, <1>7

LEMMA NextRemembers ==
  ASSUME Inv, NoClientForgotten, [Next]_vars PROVE NoClientForgotten'
<1>1. ASSUME UNCHANGED <<operator, clients, states, should_hang>> PROVE NoClientForgotten'
  BY <1>1 DEF NoClientForgotten
<1>2. CASE UNCHANGED vars
  BY <1>1, <1>2 DEF vars, server
<1>3. ASSUME NEW t \in Trains, NEW w \in Operators, NEW dest \in Nodes, NEW hang \in BOOLEAN,
             NavigationRequest(w, t, dest, hang)
      PROVE  NoClientForgotten'
  <2>1. /\ operator' = [operator EXCEPT ![w] = "waiting"] /\ states[t] = "IDLE"
        /\ states' = [states EXCEPT ![t] = "PATHFINDING"]
        /\ clients' = [clients EXCEPT ![t] = w]
        /\ should_hang' = [should_hang EXCEPT ![t] = hang]
    BY <1>3 DEF NavigationRequest
  <2>2. /\ clients'[t] = w /\ states'[t] = "PATHFINDING"
        /\ \A u \in Trains \ {t} : /\ clients'[u] = clients[u] /\ states'[u] = states[u]
                                   /\ should_hang'[u] = should_hang[u]
        /\ \A v \in Operators \ {w} : operator'[v] = operator[v]
    BY <2>1 DEF Inv, TypeOK
  <2>3. ASSUME NEW v \in Operators, operator'[v] = "waiting"
        PROVE  \E u \in Trains : /\ clients'[u] = v /\ states'[u] # "IDLE"
                                 /\ should_hang'[u] \/ states'[u] = "PATHFINDING"
    <3>1. CASE v = w
      BY <2>2, <3>1
    <3>2. CASE v # w
      <4>1. PICK u \in Trains : /\ clients[u] = v /\ states[u] # "IDLE"
                                /\ should_hang[u] \/ states[u] = "PATHFINDING"
        BY <2>2, <2>3, <3>2 DEF NoClientForgotten
      <4>2. QED
        BY <2>1, <2>2, <4>1
    <3>3. QED
      BY <3>1, <3>2
  <2>4. QED
    BY <2>3 DEF NoClientForgotten
<1>4. ASSUME NEW t \in Trains,
             (\E w \in Operators : NavigationRefused(w, t))
               \/ (\E n \in Nodes : RegisterLocation(t, n)) \/ PathfindWorker(t)
               \/ PathfindComputes(t) \/ Drive(t)
      PROVE  NoClientForgotten'
  <2>1. UNCHANGED <<operator, clients, states, should_hang>>
    BY <1>4 DEF NavigationRefused, RegisterLocation, PathfindWorker, PathfindComputes, Drive,
                vars, server
  <2>2. QED
    BY <1>1, <2>1
<1>5. ASSUME NEW t \in Trains, PathfindNone(t) PROVE NoClientForgotten'
  <2>1. \A w \in Operators : operator'[w] = "waiting" => operator[w] = "waiting" /\ w # clients[t]
    BY <1>5, AnswerLeaves DEF PathfindNone
  <2>2. \A u \in Trains \ {t} : states'[u] = states[u]
    BY <1>5 DEF PathfindNone, Inv, TypeOK
  <2>3. UNCHANGED <<clients, should_hang>>
    BY <1>5 DEF PathfindNone
  <2>4. QED
    BY <2>1, <2>2, <2>3, OthersRemembered
<1>6. ASSUME NEW t \in Trains
      PROVE  /\ \A u \in Trains \ {t} : StillClients(t)[u] = clients[u]
             /\ \A w \in Operators \ NowAnswered(t) : clients[t] = w =>
                  should_hang[t] /\ StillClients(t)[t] = w
             /\ StillClients(t) \in [Trains -> Operators \cup {NoOperator}]
  <2>1. NoOperator \notin Operators
    BY NavigationAssumption
  <2>2. QED
    BY <2>1, ClientsTyped DEF StillClients, NowAnswered, Inv, TypeOK
<1>7. ASSUME NEW t \in Trains, Answer(NowAnswered(t)), clients' = StillClients(t),
             UNCHANGED should_hang, states'[t] # "IDLE",
             \A u \in Trains \ {t} : states'[u] = states[u]
      PROVE  NoClientForgotten'
  <2>1. \A w \in Operators : operator'[w] = "waiting" =>
                               operator[w] = "waiting" /\ w \notin NowAnswered(t)
    BY <1>7, AnswerLeaves
  <2>2. QED
    BY <1>6, <1>7, <2>1, OthersRemembered
<1>8. ASSUME NEW t \in Trains, PathfindBlocked(t) PROVE NoClientForgotten'
  <2>1. /\ Answer(NowAnswered(t)) /\ clients' = StillClients(t) /\ UNCHANGED should_hang
        /\ states' = [states EXCEPT ![t] = "PATHFINDING"]
    BY <1>8 DEF PathfindBlocked
  <2>2. states'[t] # "IDLE" /\ \A u \in Trains \ {t} : states'[u] = states[u]
    BY <2>1 DEF Inv, TypeOK
  <2>3. QED
    BY <1>7, <2>1, <2>2
<1>9. ASSUME NEW t \in Trains, PathfindFound(t) PROVE NoClientForgotten'
  <2>1. /\ navigation_tasks[t] \o finder[t].plan = finder[t].plan
        /\ finder[t].plan # <<>> /\ Journey(finder[t].plan) /\ states[t] = "PATHFINDING"
    BY <1>9, PlanFound
  <2>2. CASE driver[t].at = "parked"
    <3>1. ProcessNext(t, finder[t].plan, StillClients(t), NowAnswered(t))
      BY <1>9, <2>1, <2>2 DEF PathfindFound
    <3>2. QED
      BY <1>6, <2>1, <3>1, ProcessNextRemembers
  <2>3. CASE driver[t].at # "parked"
    <3>1. /\ Answer(NowAnswered(t)) /\ clients' = StillClients(t) /\ UNCHANGED should_hang
          /\ states' = [states EXCEPT ![t] = "STRAIGHTPATHING"]
      BY <1>9, <2>3 DEF PathfindFound
    <3>2. states'[t] # "IDLE" /\ \A u \in Trains \ {t} : states'[u] = states[u]
      BY <3>1 DEF Inv, TypeOK
    <3>3. QED
      BY <1>7, <3>1, <3>2
  <2>4. QED
    BY <2>2, <2>3
<1>10. ASSUME NEW t \in Trains, StraightpathWorker(t) PROVE NoClientForgotten'
  <2>1. CASE states[t] = "STRAIGHTPATHING" /\ navigation_tasks[t] # <<>>
    <3>1. /\ ProcessNext(t, navigation_tasks[t], clients, {}) /\ Journey(navigation_tasks[t])
          /\ clients \in [Trains -> Operators \cup {NoOperator}]
      BY <1>10, <2>1 DEF StraightpathWorker, Inv, TasksLead, TypeOK
    <3>2. QED
      BY <2>1, <3>1, ProcessNextRemembers
  <2>2. CASE ~(states[t] = "STRAIGHTPATHING" /\ navigation_tasks[t] # <<>>)
    <3>1. UNCHANGED <<operator, clients, states, should_hang>>
      BY <1>10, <2>2 DEF StraightpathWorker, server
    <3>2. QED
      BY <1>1, <3>1
  <2>3. QED
    BY <2>1, <2>2
<1>11. ASSUME NEW t \in Trains, StraightpathDone(t) PROVE NoClientForgotten'
  <2>1. states[t] = "STRAIGHTPATHING"
    BY <1>11 DEF Inv, WorkersFit, StraightpathDone
  <2>2. CASE navigation_tasks[t] = <<>>
    <3>1. /\ states' = [states EXCEPT ![t] = "IDLE"]
          /\ HangsNoMore(t, clients) /\ Answer(Hanging(t))
      BY <1>11, <2>2 DEF StraightpathDone
    <3>2. \A u \in Trains \ {t} : /\ clients'[u] = clients[u] /\ states'[u] = states[u]
                                  /\ should_hang'[u] = should_hang[u]
      BY <3>1 DEF HangsNoMore, Inv, TypeOK
    <3>3. \A w \in Operators : operator'[w] = "waiting" =>
                                 operator[w] = "waiting" /\ w \notin Hanging(t)
      BY <3>1, AnswerLeaves
    <3>4. QED
      BY <2>1, <3>2, <3>3, OthersRemembered DEF Hanging
  <2>3. CASE navigation_tasks[t] # <<>>
    BY <1>1, <1>11, <2>3 DEF StraightpathDone
  <2>4. QED
    BY <2>2, <2>3
<1>12. ASSUME AttributionCourier \/ GetReservations \/ GetTrainState PROVE NoClientForgotten'
  <2>1. UNCHANGED <<operator, clients, states, should_hang>>
    BY <1>12 DEF AttributionCourier, GetReservations, GetTrainState, server
  <2>2. QED
    BY <1>1, <2>1
<1>13. QED
  BY <1>2, <1>3, <1>4, <1>5, <1>8, <1>9, <1>10, <1>11, <1>12
     DEF Next, PathWorkerSteps, StraightpathWorkerSteps

-----------------------------------------------------------------------------
(* The reservation printer *)

LEMMA ContinueMarks ==
  ASSUME ReservationsDirty, NEW rd \in BOOLEAN, NEW td, Continue(rd, td),
         reservation_dirty \/ reserved_nodes' # reserved_nodes => rd
  PROVE  ReservationsDirty'
BY DEF ReservationsDirty, Continue

LEMMA TellPrintersMarks ==
  ASSUME ReservationsDirty, NEW rd \in BOOLEAN, NEW td, NEW rc \in BOOLEAN, NEW tc,
         TellPrinters(rd, td, rc, tc),
         reservation_dirty \/ reserved_nodes' # reserved_nodes => rd
  PROVE  ReservationsDirty'
BY DEF ReservationsDirty, TellPrinters

LEMMA ProcessNextMarks ==
  ASSUME Inv, ReservationsDirty, NEW t \in Trains, NEW tasks, NEW c, NEW W,
         ProcessNext(t, tasks, c, W)
  PROVE  ReservationsDirty'
<1> DEFINE o  == NextTask(t, tasks)
           rd == RDirty(o.nodes # reserved_nodes \/ o.kind = "drive")
           td == train_states_dirty \/ o.flip
<1>1. PrintersTyped
  BY TypedPrinters DEF Inv
<1>2. rd \in BOOLEAN /\ reservation_client \in BOOLEAN
  BY <1>1 DEF PrintersTyped, RDirty
<1>3. reservation_dirty \/ reserved_nodes' # reserved_nodes => rd
  BY DEF ProcessNext, RDirty
<1>4. Continue(rd, td) \/ TellPrinters(rd, td, reservation_client, trainstate_print_client)
  BY DEF ProcessNext, PrintWaiting
<1> HIDE DEF rd, td
<1>5. QED
  BY <1>2, <1>3, <1>4, ContinueMarks, TellPrintersMarks

LEMMA NextMarks ==
  ASSUME Inv, ReservationsDirty, [Next]_vars PROVE ReservationsDirty'
<1>1. PrintersTyped
  BY TypedPrinters DEF Inv
<1>2. ASSUME UNCHANGED printers PROVE ReservationsDirty'
  BY <1>2 DEF ReservationsDirty, printers
<1>3. ASSUME UNCHANGED reserved_nodes, NEW td,
             Continue(reservation_dirty, td) \/ PrintWaiting(reservation_dirty, td)
      PROVE  ReservationsDirty'
  BY <1>1, <1>3, ContinueMarks, TellPrintersMarks DEF PrintersTyped, PrintWaiting
<1>4. ASSUME PrintWaiting(RDirty(reserved_nodes' # reserved_nodes), train_states_dirty)
      PROVE  ReservationsDirty'
  <2> DEFINE rd == RDirty(reserved_nodes' # reserved_nodes)
  <2>1. /\ rd \in BOOLEAN /\ reservation_client \in BOOLEAN
        /\ reservation_dirty \/ reserved_nodes' # reserved_nodes => rd
        /\ TellPrinters(rd, train_states_dirty, reservation_client, trainstate_print_client)
    BY <1>1, <1>4 DEF PrintersTyped, RDirty, PrintWaiting
  <2> HIDE DEF rd
  <2>2. QED
    BY <2>1, TellPrintersMarks
<1>5. CASE UNCHANGED vars
  BY <1>2, <1>5 DEF vars
<1>6. ASSUME NEW t \in Trains,
             \/ \E w \in Operators : NavigationRefused(w, t)
             \/ \E w \in Operators, dest \in Nodes, hang \in BOOLEAN :
                  NavigationRequest(w, t, dest, hang)
             \/ \E n \in Nodes : RegisterLocation(t, n)
      PROVE  ReservationsDirty'
  <2>1. ASSUME NEW w \in Operators, NavigationRefused(w, t) PROVE ReservationsDirty'
    BY <1>2, <2>1 DEF NavigationRefused, vars
  <2>2. ASSUME NEW w \in Operators, NEW dest \in Nodes, NEW hang \in BOOLEAN,
               NavigationRequest(w, t, dest, hang)
        PROVE  ReservationsDirty'
    BY <1>3, <2>2 DEF NavigationRequest
  <2>3. ASSUME NEW n \in Nodes, RegisterLocation(t, n) PROVE ReservationsDirty'
    BY <1>1, <2>3, TellPrintersMarks DEF RegisterLocation, PrintWaiting, PrintersTyped
  <2>4. QED
    BY <1>6, <2>1, <2>2, <2>3
<1>7. ASSUME NEW t \in Trains, PathWorkerSteps(t) PROVE ReservationsDirty'
  <2>1. ASSUME PathfindWorker(t) PROVE ReservationsDirty'
    BY <1>3, <2>1 DEF PathfindWorker
  <2>2. ASSUME PathfindComputes(t) PROVE ReservationsDirty'
    BY <1>2, <2>2 DEF PathfindComputes
  <2>3. ASSUME PathfindNone(t) PROVE ReservationsDirty'
    BY <1>3, <2>3 DEF PathfindNone
  <2>4. ASSUME PathfindBlocked(t) PROVE ReservationsDirty'
    BY <1>3, <2>4 DEF PathfindBlocked
  <2>5. ASSUME PathfindFound(t) PROVE ReservationsDirty'
    BY <1>3, <2>5, ProcessNextMarks DEF PathfindFound
  <2>6. QED
    BY <1>7, <2>1, <2>2, <2>3, <2>4, <2>5 DEF PathWorkerSteps
<1>8. ASSUME NEW t \in Trains, StraightpathWorkerSteps(t) PROVE ReservationsDirty'
  <2>1. ASSUME StraightpathWorker(t) PROVE ReservationsDirty'
    BY <1>3, <2>1, ProcessNextMarks DEF StraightpathWorker, server
  <2>2. ASSUME Drive(t) PROVE ReservationsDirty'
    BY <1>2, <2>2 DEF Drive
  <2>3. ASSUME StraightpathDone(t) PROVE ReservationsDirty'
    BY <1>4, <2>3 DEF StraightpathDone
  <2>4. QED
    BY <1>8, <2>1, <2>2, <2>3 DEF StraightpathWorkerSteps
<1>9. ASSUME AttributionCourier PROVE ReservationsDirty'
  BY <1>4, <1>9 DEF AttributionCourier
<1>10. ASSUME GetReservations \/ GetTrainState PROVE ReservationsDirty'
  BY <1>1, <1>10, TellPrintersMarks DEF GetReservations, GetTrainState, server, PrintersTyped
<1>11. QED
  BY <1>5, <1>6, <1>7, <1>8, <1>9, <1>10 DEF Next

-----------------------------------------------------------------------------
(* The theorems *)

\* Every variable of the navigation server keeps its type, and the state machine of each
\* train agrees with what its two workers do (WorkersFit) and with the tasks that are left
\* of its journey (TasksLead).
THEOREM NavigationTypeCorrect ==
  Spec => [](TypeOK /\ \A t \in Trains : WorkersFit(t) /\ TasksLead(t))
<1>1. Inv => TypeOK /\ \A t \in Trains : WorkersFit(t) /\ TasksLead(t)
  BY DEF Inv
<1>2. QED
  BY <1>1, SpecInv, PTL

\* A train holds the place where it is registered, and reservations are of both
\* directions (navigationserver.c, reserve_node and unreserve_node with their callers).
THEOREM PlaceHeld == Spec => []HoldsPlace
<1>1. Inv => HoldsPlace
  BY DEF Inv
<1>2. QED
  BY <1>1, SpecInv, PTL

\* If the courier brings the sensors of a segment before the train has stopped at its
\* end, a moving train has all of its segment that lies ahead reserved, whatever the
\* other trains do (process_straightpath_task, unreserve_path_src_up_to_node).
THEOREM WayReserved == ASSUME Timely PROVE Spec => []ReservedAhead
<1>1. Init => ReservedAhead /\ AttributionsPassed
  BY DEF Init, ReservedAhead, AttributionsPassed
<1>2. Inv /\ ReservedAhead /\ AttributionsPassed /\ [Next]_vars =>
        ReservedAhead' /\ AttributionsPassed'
  BY NextAhead
<1>3. QED
  BY <1>1, <1>2, SpecInv, PTL DEF Spec

\* No operator that waits for the answer to a NAVIGATION_REQUEST is forgotten (clients,
\* should_hang), over restarted searches, reversals and segments.
THEOREM NobodyForgotten == Spec => []NoClientForgotten
<1>1. Init => NoClientForgotten
  BY DEF Init, NoClientForgotten
<1>2. Inv /\ NoClientForgotten /\ [Next]_vars => NoClientForgotten'
  BY NextRemembers
<1>3. QED
  BY <1>1, <1>2, SpecInv, PTL DEF Spec

\* The reservation printer's picture is never out of date without reservation_dirty.
THEOREM PrinterMarked == Spec => []ReservationsDirty
<1>1. Init => ReservationsDirty
  BY DEF Init, ReservationsDirty
<1>2. Inv /\ ReservationsDirty /\ [Next]_vars => ReservationsDirty'
  BY NextMarks
<1>3. QED
  BY <1>1, <1>2, SpecInv, PTL DEF Spec
=============================================================================
