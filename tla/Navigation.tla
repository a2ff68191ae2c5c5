------------------------------ MODULE Navigation ------------------------------
(***************************************************************************)
(* The navigation server (src/user/navigationserver.c) with its path       *)
(* finding and straight path workers, the attribution courier, and the     *)
(* trains on the track.                                                    *)
(*                                                                         *)
(* A request and the server's whole handling of it are one step: a task    *)
(* that has sent does nothing until it is replied to, so it makes no       *)
(* difference when its message was put in the queue.  A found path is      *)
(* represented by the navigation tasks it is cut into (segments between    *)
(* reversals, with the buffer nodes behind a merge).                       *)
(***************************************************************************)
EXTENDS Integers, Sequences, FiniteSets

CONSTANTS Trains,
          Nodes, Reverse,   \* the track's nodes; track_node.reverse
          Plans,            \* the paths: records [src, dst, nodes, tasks]
          Registrations,    \* pairs of a train and a node where it can be put on the track
          Destinations,     \* pairs of a train and a node where it can be sent
          Operators,        \* the tasks that send NAVIGATION_REQUESTs
          Printers,         \* the printer tasks that run: "reservations", "states"
          MaxAttributions,  \* attributions on their way: dispatch server's buffer
                            \* and the courier
          Timely,           \* TRUE: the courier delivers an attribution before the
                            \* train has stopped at the end of its segment
          NoTrain, NoNode, NoOperator

Tasks == [type : {"NAVIGATION_REVERSE"}, path : {<<>>}]
           \cup [type : {"NAVIGATION_STRAIGHT"}, path : Seq(Nodes)]

\* A segment passes no place twice, in either direction.
PassesOnce(path) ==
  \A j, k \in 1 .. Len(path) : j # k => path[j] \notin {path[k], Reverse[path[k]]}

\* What a path is cut into: segments and reversals take turns.
Journey(tasks) ==
  /\ tasks \in Seq(Tasks)
  /\ \A i \in 1 .. Len(tasks) - 1 : tasks[i].type # tasks[i + 1].type
  /\ \A i \in 1 .. Len(tasks) : tasks[i].type = "NAVIGATION_STRAIGHT" =>
       Len(tasks[i].path) >= 2 /\ PassesOnce(tasks[i].path)

ASSUME NavigationAssumption ==
  /\ NoTrain \notin Trains /\ NoNode \notin Nodes /\ NoOperator \notin Operators
  /\ Reverse \in [Nodes -> Nodes]
  /\ \A n \in Nodes : Reverse[Reverse[n]] = n
  /\ Registrations \subseteq Trains \X Nodes /\ Destinations \subseteq Trains \X Nodes
  /\ Printers \subseteq {"reservations", "states"}
  /\ MaxAttributions \in Nat /\ Timely \in BOOLEAN
  /\ \A p \in Plans : /\ p.src \in Nodes /\ p.dst \in Nodes /\ p.nodes \subseteq Nodes
                      /\ p.tasks # <<>> /\ Journey(p.tasks)
                      \* The search can be made again where a segment starts.
                      /\ \A i \in 1 .. Len(p.tasks) : p.tasks[i].type = "NAVIGATION_STRAIGHT" =>
                           \E q \in Plans : q.src = p.tasks[i].path[1] /\ q.dst = p.dst

VARIABLES
  states,           \* IDLE, PATHFINDING, STRAIGHTPATHING
  reserved_nodes,
  clients, should_hang,
  reged_at_num, dest_num, reversed,     \* of train_states
  navigation_tasks, \* the tasks that are left
  cur_path,         \* cur_straightpath_tasks[].path
  pathfind_tasks,   \* records [is_valid, source_num, destination_num]
  reservation_dirty, train_states_dirty,
  reservation_client, trainstate_print_client,    \* whether the printer waits
  finder,           \* each path worker: [at, src, dst, blocked, result, plan], where
                    \* at is "asking", "parked", "working", "found"
  driver,           \* each straight path worker: [at, place], where at is "asking",
                    \* "parked", "driving", and place is the train's in cur_path
  attributions,     \* sensor attributions that the courier has not delivered
  operator,         \* "ready" or "waiting"
  outdated          \* history: whether the reservation printer shows what is no longer so

server == <<states, reserved_nodes, clients, should_hang, reged_at_num, dest_num, reversed,
            navigation_tasks, cur_path, pathfind_tasks>>
printers == <<reservation_dirty, train_states_dirty, reservation_client,
              trainstate_print_client, outdated>>
vars == <<server, printers, finder, driver, attributions, operator>>

Segment(t) == cur_path[t]
NoPlan == <<>>

TypeOK ==
  /\ states \in [Trains -> {"IDLE", "PATHFINDING", "STRAIGHTPATHING"}]
  /\ reserved_nodes \in [Nodes -> Trains \cup {NoTrain}]
  /\ clients \in [Trains -> Operators \cup {NoOperator}]
  /\ should_hang \in [Trains -> BOOLEAN]
  /\ reged_at_num \in [Trains -> Nodes \cup {NoNode}]
  /\ dest_num \in [Trains -> Nodes \cup {NoNode}]
  /\ reversed \in [Trains -> BOOLEAN]
  /\ navigation_tasks \in [Trains -> Seq(Tasks)]
  /\ cur_path \in [Trains -> Seq(Nodes)]
  /\ pathfind_tasks \in [Trains -> [is_valid : BOOLEAN, source_num : Nodes \cup {NoNode},
                                    destination_num : Nodes \cup {NoNode}]]
  /\ reservation_dirty \in BOOLEAN /\ train_states_dirty \in BOOLEAN
  /\ reservation_client \in BOOLEAN /\ trainstate_print_client \in BOOLEAN
  /\ finder \in [Trains -> [at : {"asking", "parked", "working", "found"},
                            src : Nodes \cup {NoNode}, dst : Nodes \cup {NoNode},
                            blocked : SUBSET Nodes,
                            result : {"NONE", "FOUND_PATH", "NO_PATH_WITH_RESERVE",
                                      "NO_PATH_AT_ALL"},
                            plan : Seq(Tasks)]]
  /\ driver \in [Trains -> [at : {"asking", "parked", "driving"}, place : Nat]]
  /\ attributions \in Seq([train : Trains, node : Nodes])
  /\ operator \in [Operators -> {"ready", "waiting"}]
  /\ outdated \in BOOLEAN

Asking == [at |-> "asking", src |-> NoNode, dst |-> NoNode, blocked |-> {}, result |-> "NONE",
           plan |-> NoPlan]

Init ==
  /\ states = [t \in Trains |-> "IDLE"]
  /\ reserved_nodes = [n \in Nodes |-> NoTrain]
  /\ clients = [t \in Trains |-> NoOperator] /\ should_hang = [t \in Trains |-> FALSE]
  /\ reged_at_num = [t \in Trains |-> NoNode] /\ dest_num = [t \in Trains |-> NoNode]
  /\ reversed = [t \in Trains |-> FALSE]
  /\ navigation_tasks = [t \in Trains |-> <<>>] /\ cur_path = [t \in Trains |-> <<>>]
  /\ pathfind_tasks = [t \in Trains |-> [is_valid |-> FALSE, source_num |-> NoNode,
                                         destination_num |-> NoNode]]
  /\ reservation_dirty = FALSE /\ train_states_dirty = TRUE
  /\ reservation_client = FALSE /\ trainstate_print_client = FALSE
  /\ finder = [t \in Trains |-> Asking]
  /\ driver = [t \in Trains |-> [at |-> "asking", place |-> 0]]
  /\ attributions = <<>>
  /\ operator = [w \in Operators |-> "ready"]
  /\ outdated = FALSE

-----------------------------------------------------------------------------
(* Reservations *)

Elements(path) == {path[i] : i \in 1 .. Len(path)}

\* Seeded fault: the other direction is not freed.
UnreservedOneWay(r, S, t, at) ==
  [n \in Nodes |-> IF n \in S /\ r[n] = t /\ at \notin {n, Reverse[n]} THEN NoTrain ELSE r[n]]

\* r after unreserve_node for train t, registered at node at, of the nodes in S.
Unreserved(r, S, t, at) ==
  [n \in Nodes |-> IF \E m \in S \cap {n, Reverse[n]} : r[m] = t /\ at \notin {m, Reverse[m]}
                     THEN NoTrain ELSE r[n]]

\* r after reserve_node of the nodes in S.
Reserved(r, S, t) == [n \in Nodes |-> IF {n, Reverse[n]} \cap S # {} THEN t ELSE r[n]]

\* can_reserve_segment
CanReserve(r, path, t) == \A i \in 1 .. Len(path) : r[path[i]] \in {NoTrain, t}

\* Seeded fault: the loop of unreserve_path_src_up_to_node does not stop at the node.
UpToEnd(path, node) == Elements(path)

\* The nodes unreserve_path_src_up_to_node goes through: all, if node is not there.
UpTo(path, node) ==
  {path[i] : i \in {k \in 1 .. Len(path) : \A j \in 1 .. k - 1 : path[j] # node}}

-----------------------------------------------------------------------------
(* The printers, served at the end of the loop unless the handler "continue"s *)

\* The handler leaves the dirty flags rd and td and does not reach the printers.
Continue(rd, td) ==
  /\ reservation_dirty' = rd /\ train_states_dirty' = td
  /\ outdated' = (outdated \/ reserved_nodes' # reserved_nodes)
  /\ UNCHANGED <<reservation_client, trainstate_print_client>>

\* The handler leaves the dirty flags rd and td and the waiting printers rc and tc.
TellPrinters(rd, td, rc, tc) ==
  /\ reservation_dirty' = (rd /\ ~rc) /\ reservation_client' = (rc /\ ~rd)
  /\ train_states_dirty' = (td /\ ~tc) /\ trainstate_print_client' = (tc /\ ~td)
  /\ outdated' = ((outdated \/ reserved_nodes' # reserved_nodes) /\ ~(rd /\ rc))

PrintWaiting(rd, td) == TellPrinters(rd, td, reservation_client, trainstate_print_client)

\* Seeded fault: unreserve_node and reserve_node do not set the flag.
RDirtyForgets(changed) == reservation_dirty

\* Whether the step set reservation_dirty.
RDirty(changed) == reservation_dirty \/ changed

-----------------------------------------------------------------------------
(* The operators: the shell and the random goto task *)

\* Reply to the operators in W.
Answer(W) == operator' = [w \in Operators |-> IF w \in W THEN "ready" ELSE operator[w]]

\* The task the path worker of t gets: src, dst and the nodes of the other trains.
Work(t, src, dst) ==
  [at |-> "working", src |-> src, dst |-> dst,
   blocked |-> {n \in Nodes : reserved_nodes[n] \notin {NoTrain, t}},
   result |-> "NONE", plan |-> NoPlan]

\* NAVIGATION_REQUEST that is refused (BUSY or NEED_REGISTER): the operator gets its
\* answer at once.
NavigationRefused(w, t) ==
  /\ operator[w] = "ready"
  /\ states[t] # "IDLE" \/ reged_at_num[t] = NoNode
  /\ UNCHANGED vars

\* NAVIGATION_REQUEST of a registered train that is idle.  The operator sends it to
\* another place (a path of no length stops the straight path worker's KASSERT).
NavigationRequest(w, t, dest, hang) ==
  /\ <<t, dest>> \in Destinations /\ dest # reged_at_num[t]
  /\ operator[w] = "ready"
  /\ states[t] = "IDLE" /\ reged_at_num[t] # NoNode
  /\ operator' = [operator EXCEPT ![w] = "waiting"]
  /\ states' = [states EXCEPT ![t] = "PATHFINDING"]
  /\ clients' = [clients EXCEPT ![t] = w]
  /\ should_hang' = [should_hang EXCEPT ![t] = hang]
  /\ dest_num' = [dest_num EXCEPT ![t] = dest]
  /\ IF finder[t].at = "parked"
       THEN finder' = [finder EXCEPT ![t] = Work(t, reged_at_num[t], dest)]
            /\ UNCHANGED pathfind_tasks
       ELSE pathfind_tasks' = [pathfind_tasks EXCEPT ![t] =
                                 [is_valid |-> TRUE, source_num |-> reged_at_num[t],
                                  destination_num |-> dest]]
            /\ UNCHANGED finder
  /\ UNCHANGED <<reserved_nodes, reged_at_num, reversed, navigation_tasks, cur_path, driver,
                 attributions>>
  /\ PrintWaiting(reservation_dirty, TRUE)

\* REGISTER_LOCATION.  The code takes any train and any node; the operator says
\* where a stopped train stands, which is no place that another train holds.
RegisterLocation(t, n) ==
  /\ <<t, n>> \in Registrations
  /\ states[t] = "IDLE"
  /\ reserved_nodes[n] \in {NoTrain, t}
  /\ reged_at_num' = [reged_at_num EXCEPT ![t] = n]
  /\ reserved_nodes' = Reserved(Unreserved(reserved_nodes, Nodes, t, n), {n}, t)
  /\ UNCHANGED <<states, clients, should_hang, dest_num, reversed, navigation_tasks, cur_path,
                 pathfind_tasks, finder, driver, attributions, operator>>
  /\ PrintWaiting(TRUE, TRUE)

-----------------------------------------------------------------------------
(* The path workers *)

\* PATHFIND_WORKER: the worker gets the task that waits for it, or is parked.
PathfindWorker(t) ==
  /\ finder[t].at = "asking"
  /\ UNCHANGED <<states, reserved_nodes, clients, should_hang, reged_at_num, dest_num, reversed,
                 navigation_tasks, cur_path, driver, attributions, operator>>
  /\ IF states[t] = "PATHFINDING" /\ pathfind_tasks[t].is_valid
       THEN /\ finder' = [finder EXCEPT ![t] = Work(t, pathfind_tasks[t].source_num,
                                                    pathfind_tasks[t].destination_num)]
            /\ pathfind_tasks' = [pathfind_tasks EXCEPT ![t].is_valid = FALSE]
            /\ PrintWaiting(reservation_dirty, train_states_dirty)
       ELSE /\ finder' = [finder EXCEPT ![t].at = "parked"]
            /\ Continue(reservation_dirty, train_states_dirty)
            /\ UNCHANGED pathfind_tasks

Answered(result, plan) ==
  [at |-> "found", src |-> NoNode, dst |-> NoNode, blocked |-> {}, result |-> result,
   plan |-> plan]

\* The worker's two calls of dijkstra: without reservations, and with the ones it was
\* given (which may be out of date by now).
PathfindComputes(t) ==
  LET routes == {p \in Plans : p.src = finder[t].src /\ p.dst = finder[t].dst}
      free   == {p \in routes : p.nodes \cap finder[t].blocked = {}}
  IN  /\ finder[t].at = "working"
      /\ \/ /\ free # {}
            /\ \E p \in free :
                 finder' = [finder EXCEPT ![t] = Answered("FOUND_PATH", p.tasks)]
         \/ /\ free = {}
            /\ finder' = [finder EXCEPT ![t] =
                            Answered(IF routes = {} THEN "NO_PATH_AT_ALL"
                                     ELSE "NO_PATH_WITH_RESERVE", NoPlan)]
      /\ UNCHANGED <<server, printers, driver, attributions, operator>>

-----------------------------------------------------------------------------
(* Segments *)

\* process_next_task with process_straightpath_task: a reversal is carried out at
\* once; then the next segment is reserved and driven, or the search for a path is
\* restarted, or there is no segment left.  The record says what becomes of the train.
NextTask(t, tasks) ==
  LET flip  == Head(tasks).type = "NAVIGATION_REVERSE"
      at    == IF flip THEN Reverse[reged_at_num[t]] ELSE reged_at_num[t]
      rest  == IF flip THEN Tail(tasks) ELSE tasks
      path  == IF rest = <<>> THEN cur_path[t] ELSE Head(rest).path
      r     == Unreserved(reserved_nodes, Nodes, t, at)
      drive == rest # <<>> /\ CanReserve(r, path, t)
  IN  [kind  |-> IF rest = <<>> THEN "done" ELSE IF drive THEN "drive" ELSE "restart",
       flip  |-> flip,
       path  |-> path,
       at    |-> IF drive THEN path[Len(path)] ELSE at,
       left  |-> IF drive THEN Tail(rest) ELSE <<>>,
       nodes |-> IF drive THEN Reserved(r, Elements(path), t) ELSE r]

\* Seeded fault: the hanging client is cleared and not replied to.
HangingNobody(t) == {}

\* done_navigation's reply to a client that hangs.
Hanging(t) == IF should_hang[t] THEN {clients[t]} ELSE {}
HangsNoMore(t, c) ==
  /\ clients' = IF should_hang[t] THEN [c EXCEPT ![t] = NoOperator] ELSE c
  /\ should_hang' = [should_hang EXCEPT ![t] = FALSE]

\* The straight path worker w is parked, and the next of the tasks is processed; c
\* are the clients and W the operators that this handler has answered.
ProcessNext(t, tasks, c, W) ==
  LET o == NextTask(t, tasks)
      rd == RDirty(o.nodes # reserved_nodes \/ o.kind = "drive")
      td == train_states_dirty \/ o.flip
  IN  /\ reserved_nodes' = o.nodes
      /\ reged_at_num' = [reged_at_num EXCEPT ![t] = o.at]
      /\ reversed' = [reversed EXCEPT ![t] = IF o.flip THEN ~@ ELSE @]
      /\ cur_path' = [cur_path EXCEPT ![t] = o.path]
      /\ navigation_tasks' = [navigation_tasks EXCEPT ![t] = o.left]
      /\ driver' = [driver EXCEPT ![t] = IF o.kind = "drive" THEN [at |-> "driving", place |-> 1]
                                         ELSE [at |-> "parked", place |-> 0]]
      /\ states' = [states EXCEPT ![t] = CASE o.kind = "drive" -> "STRAIGHTPATHING"
                                           [] o.kind = "restart" -> "PATHFINDING"
                                           [] o.kind = "done" -> "IDLE"]
      /\ pathfind_tasks' =
           IF o.kind = "restart"
             THEN [pathfind_tasks EXCEPT ![t] = [is_valid |-> TRUE, source_num |-> o.at,
                                                 destination_num |-> dest_num[t]]]
             ELSE pathfind_tasks
      /\ IF o.kind = "done"
           THEN HangsNoMore(t, c) /\ Answer(W \cup Hanging(t))
           ELSE clients' = c /\ Answer(W) /\ UNCHANGED should_hang
      /\ UNCHANGED <<dest_num, attributions>>
      /\ IF o.kind = "restart" THEN Continue(rd, td) ELSE PrintWaiting(rd, td)

\* PATHFIND_WORKER_DONE, NO_PATH_AT_ALL, as the first answer to a request.  (Without a
\* client the handler goes on with a path of no length, to process a task that is not
\* there.  It has a client: a restarted search has found a path before, and finds one
\* again where the next segment starts, NavigationAssumption.)
PathfindNone(t) ==
  /\ finder[t].at = "found" /\ finder[t].result = "NO_PATH_AT_ALL" /\ clients[t] # NoOperator
  /\ finder' = [finder EXCEPT ![t] = Asking]
  /\ states' = [states EXCEPT ![t] = "IDLE"]
  /\ Answer({clients[t]})
  /\ UNCHANGED <<reserved_nodes, clients, should_hang, reged_at_num, dest_num, reversed,
                 navigation_tasks, cur_path, pathfind_tasks, driver, attributions>>
  /\ Continue(reservation_dirty, train_states_dirty)

\* Seeded fault: a client that hangs is cleared when there is a path.
StillClientsDropped(t) == [clients EXCEPT ![t] = NoOperator]

\* A client that does not hang is answered when there is a path.
NowAnswered(t) == IF clients[t] # NoOperator /\ ~should_hang[t] THEN {clients[t]} ELSE {}
StillClients(t) == IF should_hang[t] THEN clients ELSE [clients EXCEPT ![t] = NoOperator]

\* PATHFIND_WORKER_DONE, NO_PATH_WITH_RESERVE: the search is restarted.
PathfindBlocked(t) ==
  /\ finder[t].at = "found" /\ finder[t].result = "NO_PATH_WITH_RESERVE"
  /\ finder' = [finder EXCEPT ![t] = Asking]
  /\ Answer(NowAnswered(t)) /\ clients' = StillClients(t)
  /\ states' = [states EXCEPT ![t] = "PATHFINDING"]
  /\ navigation_tasks' = [navigation_tasks EXCEPT ![t] = <<>>]
  /\ pathfind_tasks' = [pathfind_tasks EXCEPT ![t] =
                          [is_valid |-> TRUE, source_num |-> reged_at_num[t],
                           destination_num |-> dest_num[t]]]
  /\ UNCHANGED <<reserved_nodes, should_hang, reged_at_num, dest_num, reversed, cur_path,
                 driver, attributions>>
  /\ Continue(reservation_dirty, train_states_dirty)

\* PATHFIND_WORKER_DONE, FOUND_PATH: the path is cut into tasks, and the first one is
\* processed if the straight path worker is parked.
PathfindFound(t) ==
  /\ finder[t].at = "found" /\ finder[t].result = "FOUND_PATH"
  /\ finder' = [finder EXCEPT ![t] = Asking]
  /\ IF driver[t].at = "parked"
       THEN ProcessNext(t, navigation_tasks[t] \o finder[t].plan, StillClients(t), NowAnswered(t))
       ELSE /\ navigation_tasks' = [navigation_tasks EXCEPT ![t] = @ \o finder[t].plan]
            /\ states' = [states EXCEPT ![t] = "STRAIGHTPATHING"]
            /\ Answer(NowAnswered(t)) /\ clients' = StillClients(t)
            /\ UNCHANGED <<reserved_nodes, should_hang, reged_at_num, dest_num, reversed,
                           cur_path, pathfind_tasks, driver, attributions>>
            /\ PrintWaiting(reservation_dirty, train_states_dirty)

-----------------------------------------------------------------------------
(* The straight path workers, the trains and the courier *)

\* STRAIGHTPATH_WORKER
StraightpathWorker(t) ==
  /\ driver[t].at = "asking"
  /\ IF states[t] = "STRAIGHTPATHING" /\ navigation_tasks[t] # <<>>
       THEN ProcessNext(t, navigation_tasks[t], clients, {}) /\ UNCHANGED finder
       ELSE /\ driver' = [driver EXCEPT ![t] = [at |-> "parked", place |-> 0]]
            /\ UNCHANGED <<server, finder, attributions, operator>>
            /\ Continue(reservation_dirty, train_states_dirty)

\* The train comes to the next node of its segment.  If there is a sensor that the
\* worker has subscribed to, an attribution is on its way, unless those before it
\* are still not delivered.
Drive(t) ==
  /\ driver[t].at = "driving" /\ driver[t].place < Len(Segment(t))
  /\ driver' = [driver EXCEPT ![t].place = @ + 1]
  /\ \/ UNCHANGED attributions
     \/ /\ Len(attributions) < MaxAttributions
        /\ attributions' = Append(attributions, [train |-> t, node |-> Segment(t)[driver'[t].place]])
  /\ UNCHANGED <<server, printers, finder, operator>>

\* STRAIGHTPATH_WORKER_DONE, when the train has stopped at the end of its segment.
StraightpathDone(t) ==
  /\ driver[t].at = "driving" /\ driver[t].place = Len(Segment(t))
  /\ Timely => \A i \in 1 .. Len(attributions) : attributions[i].train # t
  /\ driver' = [driver EXCEPT ![t] = [at |-> "asking", place |-> 0]]
  /\ IF navigation_tasks[t] = <<>>
       THEN /\ reserved_nodes' = Unreserved(reserved_nodes, Nodes, t, reged_at_num[t])
            /\ states' = [states EXCEPT ![t] = "IDLE"]
            /\ HangsNoMore(t, clients) /\ Answer(Hanging(t))
       ELSE UNCHANGED <<reserved_nodes, states, clients, should_hang, operator>>
  /\ UNCHANGED <<reged_at_num, dest_num, reversed, navigation_tasks, cur_path, pathfind_tasks,
                 finder, attributions>>
  /\ PrintWaiting(RDirty(reserved_nodes' # reserved_nodes), train_states_dirty)

\* NAVIGATIONSERVER_ATTRIBUTION_COURIER with the oldest attribution.
AttributionCourier ==
  /\ attributions # <<>>
  /\ LET t == Head(attributions).train
     IN  reserved_nodes' = Unreserved(reserved_nodes, UpTo(cur_path[t], Head(attributions).node),
                                      t, reged_at_num[t])
  /\ attributions' = Tail(attributions)
  /\ UNCHANGED <<states, clients, should_hang, reged_at_num, dest_num, reversed,
                 navigation_tasks, cur_path, pathfind_tasks, finder, driver, operator>>
  /\ PrintWaiting(RDirty(reserved_nodes' # reserved_nodes), train_states_dirty)

\* GET_RESERVATIONS and GET_TRAIN_STATE
GetReservations ==
  /\ "reservations" \in Printers /\ ~reservation_client
  /\ UNCHANGED <<server, finder, driver, attributions, operator>>
  /\ TellPrinters(reservation_dirty, train_states_dirty, TRUE, trainstate_print_client)

GetTrainState ==
  /\ "states" \in Printers /\ ~trainstate_print_client
  /\ UNCHANGED <<server, finder, driver, attributions, operator>>
  /\ TellPrinters(reservation_dirty, train_states_dirty, reservation_client, TRUE)

-----------------------------------------------------------------------------
PathWorkerSteps(t) ==
  \/ PathfindWorker(t) \/ PathfindComputes(t)
  \/ PathfindNone(t) \/ PathfindBlocked(t) \/ PathfindFound(t)

StraightpathWorkerSteps(t) == StraightpathWorker(t) \/ Drive(t) \/ StraightpathDone(t)

Next ==
  \/ \E t \in Trains :
       \/ \E w \in Operators : NavigationRefused(w, t)
       \/ \E w \in Operators, dest \in Nodes, hang \in BOOLEAN : NavigationRequest(w, t, dest, hang)
       \/ \E n \in Nodes : RegisterLocation(t, n)
       \/ PathWorkerSteps(t) \/ StraightpathWorkerSteps(t)
  \/ AttributionCourier
  \/ GetReservations \/ GetTrainState

\* The workers and the courier run, and trains arrive.
Fairness ==
  /\ WF_vars(AttributionCourier)
  /\ \A t \in Trains : WF_vars(PathWorkerSteps(t)) /\ WF_vars(StraightpathWorkerSteps(t))

Spec == Init /\ [][Next]_vars /\ Fairness

-----------------------------------------------------------------------------
(* Properties *)

\* The place where a train is registered (where it stands, or where its segment ends)
\* stays reserved for it, through reversals, restarted searches, finished journeys and
\* the freeing of what it has passed; and a piece of track is reserved as one, in both
\* directions.
HoldsPlace ==
  /\ \A t \in Trains : reged_at_num[t] # NoNode => reserved_nodes[reged_at_num[t]] = t
  /\ \A n \in Nodes : reserved_nodes[n] = reserved_nodes[Reverse[n]]

\* A moving train has reserved everything between it and the end of its segment, so
\* no other train is ever sent there (process_straightpath_task, and the freeing of
\* nodes by sensor attributions).
ReservedAhead ==
  \A t \in Trains : driver[t].at = "driving" =>
    \A i \in driver[t].place + 1 .. Len(Segment(t)) : reserved_nodes[Segment(t)[i]] = t

\* An operator that waits for an answer is remembered for a train that is under way,
\* and that journey's next events do answer it: it is told the outcome of the search,
\* or, if it asked to hang, the end of the journey (clients and should_hang).
NoClientForgotten ==
  \A w \in Operators : operator[w] = "waiting" =>
    \E t \in Trains : /\ clients[t] = w /\ states[t] # "IDLE"
                      /\ should_hang[t] \/ states[t] = "PATHFINDING"

\* The reservation printer's picture is out of date only while reservation_dirty says
\* so: no handler changes reserved_nodes without setting it, the ones that "continue"
\* past the printers included.
ReservationsDirty == outdated => reservation_dirty

\* A search that restart_pathfind has put down as wanted (is_valid) is taken up by the
\* train's path worker.
RestartedPathfindRuns ==
  \A t \in Trains : pathfind_tasks[t].is_valid ~> ~pathfind_tasks[t].is_valid

\* Every operator that sends a NAVIGATION_REQUEST gets an answer in the end, hanging or
\* not, and every train that is sent somewhere becomes idle again.
NavigationEnds ==
  /\ \A w \in Operators : operator[w] = "waiting" ~> operator[w] = "ready"
  /\ \A t \in Trains : states[t] # "IDLE" ~> states[t] = "IDLE"
=============================================================================
