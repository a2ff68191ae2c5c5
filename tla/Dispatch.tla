------------------------------ MODULE Dispatch ------------------------------
(***************************************************************************)
(* The dispatch server (src/user/dispatchserver.c), the part of the        *)
(* straight path workers that follows a train from sensor to sensor        *)
(* (src/user/straightpathworker.c), and the two couriers that bring the    *)
(* sensors in (sensorcourier.c) and the attributions on to the navigation  *)
(* server (attributioncourier.c).  What the train server gathers until the *)
(* sensor courier asks (TrainServer) is the set of sensors that came on.   *)
(***************************************************************************)
EXTENDS Integers, Sequences

CONSTANTS Trains,
          Sensors,      \* the sensors' numbers
          Paths,        \* Paths[t]: the sequences of sensors a train may be sent over
          Broken,       \* sensors that never come on
          NoTrain

ASSUME DispatchAssumption ==
  /\ Sensors \subseteq Nat /\ Broken \subseteq Sensors /\ NoTrain \notin Trains
  /\ \A t \in Trains : \A p \in Paths[t] :
       /\ p \in Seq(Sensors) /\ p # <<>>
       \* A segment passes no place twice (Navigation).
       /\ \A i, j \in 1 .. Len(p) : i # j => p[i] # p[j]
  \* Trains that move have reserved their paths (Navigation), so they share no sensor.
  /\ \A t, u \in Trains : t # u => \A p \in Paths[t], q \in Paths[u] :
       \A i \in 1 .. Len(p), j \in 1 .. Len(q) : p[i] # q[j]

VARIABLES
  subscribers,          \* the train each sensor is subscribed for
  subscription_changed,
  sensor_printer, subscribe_printer, attribution_courier,   \* whether they wait
  buffer_valid, buffer, \* attribution_courier_buffer: a set of pairs <<sensor, train>>
  panic,                \* whether a KASSERT has failed
  on,                   \* sensors that came on and that the sensor courier has not brought
  worker,               \* [at, path, i, last, short]: at is "idle", "moving", "waiting"
  position,             \* how many sensors of its path the train has passed
  carried,              \* the attributions the courier has with it: none or one set of them
  undelivered, overrun, \* history: attributions that have not reached the navigation
                        \* server, no longer kept up when some were thrown away; whether
                        \* some were
  late                  \* history: trains that got to a sensor before the news of the one
                        \* before had reached the dispatch server

server == <<subscribers, subscription_changed, sensor_printer, subscribe_printer,
            attribution_courier, buffer_valid, buffer, panic>>
history == <<undelivered, overrun, late>>
vars == <<server, on, worker, position, carried, history>>

Pool == SUBSET (Sensors \X Trains)

TypeOK ==
  /\ subscribers \in [Sensors -> Trains \cup {NoTrain}]
  /\ subscription_changed \in BOOLEAN
  /\ sensor_printer \in BOOLEAN /\ subscribe_printer \in BOOLEAN /\ attribution_courier \in BOOLEAN
  /\ buffer_valid \in BOOLEAN /\ buffer \in Pool
  /\ panic \in BOOLEAN
  /\ on \subseteq Sensors
  /\ worker \in [Trains -> [at : {"idle", "moving", "waiting"}, path : Seq(Sensors), i : Nat,
                            last : Nat, short : BOOLEAN]]
  /\ \A t \in Trains : worker[t].at # "idle" => worker[t].i \in 1 .. worker[t].last
  /\ position \in [Trains -> Nat]
  /\ \A t \in Trains : position[t] <= Len(worker[t].path)
  /\ carried \subseteq Pool
  /\ undelivered \in Pool /\ overrun \in BOOLEAN /\ late \subseteq Trains

Stopped == [at |-> "idle", path |-> <<>>, i |-> 0, last |-> 0, short |-> FALSE]

Init ==
  /\ subscribers = [s \in Sensors |-> NoTrain]
  /\ subscription_changed = FALSE
  /\ sensor_printer = FALSE /\ subscribe_printer = FALSE /\ attribution_courier = FALSE
  /\ buffer_valid = FALSE /\ buffer = {}
  /\ panic = FALSE
  /\ on = {}
  /\ worker = [t \in Trains |-> Stopped]
  /\ position = [t \in Trains |-> 0]
  /\ carried = {}
  /\ undelivered = {} /\ overrun = FALSE /\ late = {}

\* The end of the server's loop: changed and waiting are subscription_changed and
\* whether the printer waits.
PrintSubscriptions(changed, waiting) ==
  /\ subscription_changed' = (changed /\ ~waiting)
  /\ subscribe_printer' = (waiting /\ ~changed)

-----------------------------------------------------------------------------
(* The straight path workers and the trains *)

\* A train is sent over the path p with a stop to be timed from the sensor number
\* last; a short one from the first sensor, and then only that is subscribed to.  A
\* train that has to brake before its first sensor (stop_marker = -1) is left out: its
\* worker subscribes to nothing and times the stop at once.
Start(t, p, last, short) ==
  /\ worker[t].at = "idle" /\ p \in Paths[t] /\ last \in 1 .. Len(p) /\ (short => last = 1)
  /\ worker' = [worker EXCEPT ![t] = [at |-> "moving", path |-> p, i |-> 1, last |-> last,
                                      short |-> short]]
  /\ position' = [position EXCEPT ![t] = 0]
  /\ late' = late \ {t}
  /\ UNCHANGED <<server, on, carried, undelivered, overrun>>

\* The train comes to its next sensor.  (A worker that has been answered subscribes
\* again at once, compared with the time between sensors.)
Pass(t) ==
  LET p == worker[t].path
  IN  /\ worker[t].at = "waiting" /\ position[t] < Len(p)
      /\ position' = [position EXCEPT ![t] = @ + 1]
      /\ on' = on \cup ({p[position[t] + 1]} \ Broken)
      /\ late' = IF \E i \in 1 .. Len(p) : p[i] \in on THEN late \cup {t} ELSE late
      /\ UNCHANGED <<server, worker, carried, undelivered, overrun>>

\* Seeded fault: only the next sensor is subscribed to.
WantedOne(w) == {w.path[w.i]}

\* The sensors the worker subscribes to for its i-th: that and the next.
Wanted(w) == {w.path[w.i]} \cup (IF ~w.short /\ w.i < Len(w.path) THEN {w.path[w.i + 1]} ELSE {})

\* DISPATCHSERVER_SUBSCRIBE_SENSOR_LIST
Subscribe(t) ==
  /\ ~panic /\ worker[t].at = "moving"
  /\ worker' = [worker EXCEPT ![t].at = "waiting"]
  /\ IF \E s \in Wanted(worker[t]) : subscribers[s] # NoTrain
       THEN panic' = TRUE /\ UNCHANGED subscribers
       ELSE /\ subscribers' = [s \in Sensors |-> IF s \in Wanted(worker[t]) THEN t ELSE subscribers[s]]
            /\ UNCHANGED panic
  /\ PrintSubscriptions(TRUE, subscribe_printer)
  /\ UNCHANGED <<sensor_printer, attribution_courier, buffer_valid, buffer, on, position, carried,
                 undelivered, overrun, late>>

\* Seeded fault: a sensor that was passed over is not left out.
AnsweredNoSkip(w, s) ==
  IF w.i + 1 > w.last THEN Stopped ELSE [w EXCEPT !.at = "moving", !.i = w.i + 1]

\* The worker gets its answer, whose first sensor is s: if it is the second of the two,
\* the first was missed and is left out.  Behind the last sensor the stop is timed.
Answered(w, s) ==
  LET i == IF ~w.short /\ w.i < Len(w.path) /\ s = w.path[w.i + 1] THEN w.i + 2 ELSE w.i + 1
  IN  IF i > w.last THEN Stopped ELSE [w EXCEPT !.at = "moving", !.i = i]

-----------------------------------------------------------------------------
(* DISPATCHSERVER_SENSOR_UPDATE, which the sensor courier sends with what came on *)

Attributed(R) == {<<s, subscribers[s]>> : s \in {r \in R : subscribers[r] # NoTrain}}

\* Seeded fault: only the sensors that came on lose their subscriber.
ClearedOnlyTriggered(R) == [s \in Sensors |-> IF s \in R THEN NoTrain ELSE subscribers[s]]

\* Every sensor of the trains in R loses its subscriber.
Cleared(R) ==
  LET triggering == {a[2] : a \in Attributed(R)}
  IN  [s \in Sensors |-> IF subscribers[s] \in triggering THEN NoTrain ELSE subscribers[s]]

Least(S) == CHOOSE s \in S : \A r \in S : s <= r

\* Seeded fault: a buffer that is full is overwritten.
PassOnOverwrites(pool) ==
  /\ carried' = IF attribution_courier THEN {pool} ELSE carried
  /\ attribution_courier' = FALSE
  /\ buffer_valid' = ~attribution_courier
  /\ buffer' = IF attribution_courier THEN buffer ELSE pool
  /\ UNCHANGED overrun

\* The attributions go to the courier if it waits, else into the buffer, unless that is
\* still full ("Attribution courier couldn't keep up!").
PassOn(pool) ==
  IF buffer_valid
    THEN overrun' = TRUE /\ UNCHANGED <<carried, attribution_courier, buffer_valid, buffer>>
    ELSE /\ carried' = IF attribution_courier THEN {pool} ELSE carried
         /\ attribution_courier' = FALSE
         /\ buffer_valid' = ~attribution_courier
         /\ buffer' = IF attribution_courier THEN buffer ELSE pool
         /\ UNCHANGED overrun

SensorUpdate ==
  /\ ~panic /\ on # {}
  /\ on' = {}
  /\ subscribers' = Cleared(on)
  /\ worker' = [t \in Trains |->
       LET mine == {s \in on : subscribers[s] = t}
       IN  IF mine = {} THEN worker[t] ELSE Answered(worker[t], Least(mine))]
  /\ position' = [t \in Trains |-> IF worker'[t].at = "idle" THEN 0 ELSE position[t]]
  /\ sensor_printer' = FALSE
  /\ PassOn(Attributed(on))
  /\ undelivered' = IF overrun' THEN {} ELSE undelivered \cup Attributed(on)
  /\ PrintSubscriptions(subscription_changed \/ Attributed(on) # {}, subscribe_printer)
  /\ UNCHANGED <<panic, late>>

-----------------------------------------------------------------------------
(* The attribution courier and the printers *)

\* DISPATCHSERVER_ATTRIBUTION_COURIER
CourierAsks ==
  /\ ~panic /\ ~attribution_courier /\ carried = {}
  /\ IF buffer_valid
       THEN carried' = {buffer} /\ buffer_valid' = FALSE /\ UNCHANGED attribution_courier
       ELSE attribution_courier' = TRUE /\ UNCHANGED <<carried, buffer_valid>>
  /\ UNCHANGED <<subscribers, sensor_printer, buffer, panic, on, worker, position, undelivered,
                 overrun, late>>
  /\ PrintSubscriptions(subscription_changed, subscribe_printer)

\* The courier gives the attributions to the navigation server.
CourierGives ==
  /\ carried # {}
  /\ carried' = {}
  /\ undelivered' = undelivered \ UNION carried
  /\ UNCHANGED <<server, on, worker, position, overrun, late>>

\* DISPATCHSERVER_ATTRIBUTION_PRINT and DISPATCHSERVER_SUBSCRIPTION_PRINT
AttributionPrint ==
  /\ ~panic /\ ~sensor_printer
  /\ sensor_printer' = TRUE
  /\ UNCHANGED <<subscribers, attribution_courier, buffer_valid, buffer, panic, on, worker,
                 position, carried, undelivered, overrun, late>>
  /\ PrintSubscriptions(subscription_changed, subscribe_printer)

SubscriptionPrint ==
  /\ ~panic /\ ~subscribe_printer
  /\ UNCHANGED <<subscribers, sensor_printer, attribution_courier, buffer_valid, buffer, panic, on,
                 worker, position, carried, undelivered, overrun, late>>
  /\ PrintSubscriptions(subscription_changed, TRUE)

-----------------------------------------------------------------------------
Next ==
  \/ \E t \in Trains :
       \/ \E p \in Paths[t] : \E last \in 1 .. Len(p), short \in BOOLEAN : Start(t, p, last, short)
       \/ Pass(t) \/ Subscribe(t)
  \/ SensorUpdate \/ CourierAsks \/ CourierGives \/ AttributionPrint \/ SubscriptionPrint

\* A train that moves gets to its next sensor, and the tasks run.
Spec ==
  /\ Init /\ [][Next]_vars
  /\ WF_vars(SensorUpdate)
  /\ \A t \in Trains : WF_vars(Pass(t)) /\ WF_vars(Subscribe(t))

-----------------------------------------------------------------------------
\* "Only one task can subscribe to a sensor at a time": no assertion fails, because the
\* answer to a worker takes back all of its subscriptions, also of sensors not passed.  A
\* worker that waits can be woken: it is subscribed to a sensor; and one that does not wait
\* has left no subscription behind that would send it an answer later.
NoAssertionFails ==
  /\ ~panic
  /\ \A t \in Trains : worker[t].at = "waiting" <=> \E s \in Sensors : subscribers[s] = t

\* Attributions on their way to the navigation server are with the courier or in the
\* buffer, unless the dispatch server has said that the courier could not keep up.
AttributionsKept ==
  overrun \/ undelivered \subseteq (UNION carried) \cup (IF buffer_valid THEN buffer ELSE {})

\* The worker can follow a train over its path: no two sensors in a row are broken, nor
\* the only one that it subscribes to before a short stop.
Followed(w) ==
  /\ \A k \in 1 .. Len(w.path) - 1 : w.path[k] \notin Broken \/ w.path[k + 1] \notin Broken
  /\ w.short => w.path[1] \notin Broken

\* The worker calls send_branches twice before the train starts and once for each of the
\* i - 1 sensors it is done with, so that i + 1 stretches of switches are set: a train is
\* never beyond them, if the news of each sensor come before the train is at the next.
\* Only where a broken sensor kept the news from the worker is the train already at their
\* end, and the news of that are on their way.
SwitchesInTime ==
  \A t \in Trains : LET w == worker[t]
    IN  w.at # "idle" /\ t \notin late /\ Followed(w) =>
          \/ position[t] <= w.i
          \/ position[t] = w.i + 1 /\ w.path[w.i] \in Broken /\ w.path[w.i + 1] \in on

\* At whatever sensor the worker has to wait, one of those it subscribes to comes on.
\* Nothing else ends its wait: two sensors in a row that are broken, the last of the path
\* if the stop is timed from it, or the only one before a short stop, and the worker
\* waits for ever while its train runs on.
Stoppable(w) == \A k \in 1 .. w.last : Wanted([w EXCEPT !.i = k]) \cap (Sensors \ Broken) # {}

\* The worker of a train that is sent out gets to time its stop, also where sensors of the
\* path are broken, if it never has to wait for broken ones only (Stoppable), and if the
\* news of each sensor come before the train is at the next.
WorkersStop ==
  \A t \in Trains :
    worker[t].at # "idle" /\ Stoppable(worker[t]) ~> (worker[t].at = "idle" \/ t \in late)

\* docs/tc2/tc2.md:72: "Straightpathworker maintains the invariant that the train is
\* stopped before and after its navigation", here with no sensor broken: when the
\* train has passed all sensors of its path, the worker gets to time the stop.
WorkerStopsTrain == \A t \in Trains : worker[t].at # "idle" ~> worker[t].at = "idle"
=============================================================================
