---------------------------- MODULE DispatchProofs ----------------------------
(***************************************************************************)
(* Proofs, for all sets of trains, paths and broken sensors, of the safety *)
(* properties of Dispatch.                                                 *)
(***************************************************************************)
EXTENDS Dispatch, SequenceTheorems, TLAPS

\* A worker under way has one of the paths of its train before it, and waits for exactly
\* the sensors it has subscribed to.
WorkerPlaced(t) ==
  LET w == worker[t]
  IN  /\ w.at # "idle" => /\ w.path \in Paths[t] /\ w.last <= Len(w.path)
                          /\ w.short => w.last = 1
      /\ \A s \in Sensors : subscribers[s] = t <=> w.at = "waiting" /\ s \in Wanted(w)

\* A sensor that came on, with no news of it yet, was passed by a train whose worker waits.
NewsOfWaiting ==
  \A s \in on : \E t \in Trains : worker[t].at = "waiting" /\
    \E k \in 1 .. position[t] : s = worker[t].path[k]

\* If the news keep ahead of the train, there is news under way of the last sensor only,
\* and the worker is done with those it has heard of.
NewsInTime(t) ==
  LET w == worker[t]
  IN  w.at # "idle" /\ t \notin late =>
        /\ \A k \in 1 .. Len(w.path) : w.path[k] \in on => k = position[t]
        /\ Followed(w) => \A k \in 1 .. position[t] : w.path[k] \in Broken \cup on \/ k < w.i

\* The courier does not wait for attributions while it has some.
CourierBusy == attribution_courier => carried = {} /\ ~buffer_valid

Inv == /\ TypeOK /\ NoAssertionFails /\ SwitchesInTime /\ AttributionsKept
       /\ NewsOfWaiting /\ CourierBusy
       /\ \A t \in Trains : WorkerPlaced(t) /\ NewsInTime(t)

Workers == [at : {"idle", "moving", "waiting"}, path : Seq(Sensors), i : Nat, last : Nat,
            short : BOOLEAN]

\* What the parts of the invariant that are about workers and trains depend on.
tracking == <<subscribers, panic, on, worker, position, late>>
TrackingOK ==
  /\ NoAssertionFails /\ SwitchesInTime /\ NewsOfWaiting
  /\ \A t \in Trains : WorkerPlaced(t) /\ NewsInTime(t)

-----------------------------------------------------------------------------
LEMMA PathFacts ==
  ASSUME NEW t \in Trains, NEW p \in Paths[t]
  PROVE  /\ p \in Seq(Sensors) /\ Len(p) \in Nat /\ Len(p) >= 1
         /\ \A i \in 1 .. Len(p) : p[i] \in Sensors
         /\ \A i, j \in 1 .. Len(p) : p[i] = p[j] => i = j
BY DispatchAssumption

\* The paths of two trains have no sensor in common.
LEMMA PathsApart ==
  ASSUME NEW t \in Trains, NEW u \in Trains \ {t}, NEW p \in Paths[t], NEW q \in Paths[u],
         NEW i \in 1 .. Len(p), NEW j \in 1 .. Len(q)
  PROVE  p[i] # q[j]
BY DispatchAssumption

\* A worker under way: its place in the path, and the sensors it wants.
LEMMA WorkerFacts ==
  ASSUME TypeOK, NEW t \in Trains, WorkerPlaced(t), worker[t].at # "idle"
  PROVE  LET w == worker[t]
         IN  /\ w \in Workers /\ w.path \in Paths[t] /\ w.path \in Seq(Sensors)
             /\ w.i \in 1 .. Len(w.path) /\ w.i <= w.last /\ w.last <= Len(w.path)
             /\ w.short => w.last = 1 /\ w.i = 1
             /\ position[t] \in 0 .. Len(w.path)
             /\ Wanted(w) \subseteq Sensors
             /\ \A s \in Sensors : s \in Wanted(w) <=>
                  \/ s = w.path[w.i]
                  \/ ~w.short /\ w.i < Len(w.path) /\ s = w.path[w.i + 1]
<1> DEFINE w == worker[t]
<1>1. /\ w \in Workers /\ w.i \in 1 .. w.last /\ position[t] \in Nat
      /\ position[t] <= Len(w.path) /\ w.path \in Paths[t] /\ w.last <= Len(w.path) /\ (w.short => w.last = 1)
  BY DEF TypeOK, WorkerPlaced, Workers
<1>2. /\ w.path \in Seq(Sensors) /\ \A i \in 1 .. Len(w.path) : w.path[i] \in Sensors
      /\ w.i \in Nat /\ w.last \in Nat /\ Len(w.path) \in Nat
  BY <1>1, PathFacts DEF Workers
<1> HIDE DEF w
<1>3. w.i \in 1 .. Len(w.path) /\ w.i <= w.last /\ (w.short => w.i = 1)
  BY <1>1, <1>2
<1>4. w.i < Len(w.path) => w.i + 1 \in 1 .. Len(w.path)
  BY <1>2, <1>3
<1>5. /\ Wanted(w) \subseteq Sensors
      /\ \A s \in Sensors : s \in Wanted(w) <=>
           \/ s = w.path[w.i]
           \/ ~w.short /\ w.i < Len(w.path) /\ s = w.path[w.i + 1]
  <2>1. Wanted(w) = {w.path[w.i]} \cup
                      (IF ~w.short /\ w.i < Len(w.path) THEN {w.path[w.i + 1]} ELSE {})
    BY DEF Wanted
  <2>2. QED
    BY <1>2, <1>3, <1>4, <2>1
<1>6. QED
  BY <1>1, <1>2, <1>3, <1>5 DEF w

\* A sensor that a worker wants is on the path of its train, and of no other.
LEMMA WantedByOne ==
  ASSUME TypeOK, NEW t \in Trains, NEW u \in Trains \ {t}, WorkerPlaced(t), WorkerPlaced(u),
         worker[t].at # "idle", worker[u].at # "idle", NEW s \in Wanted(worker[t])
  PROVE  s \notin Wanted(worker[u])
<1>1. PICK i \in 1 .. Len(worker[t].path) : s = worker[t].path[i]
  BY WorkerFacts DEF Wanted
<1>2. s \in Wanted(worker[u]) => \E j \in 1 .. Len(worker[u].path) : s = worker[u].path[j]
  BY WorkerFacts DEF Wanted
<1>3. worker[t].path \in Paths[t] /\ worker[u].path \in Paths[u]
  BY WorkerFacts
<1>4. QED
  BY <1>1, <1>2, <1>3, PathsApart

LEMMA InitInv == Init => Inv
<1> SUFFICES ASSUME Init PROVE Inv
  OBVIOUS
<1> USE DispatchAssumption
<1>1. TypeOK
  <2>1. Stopped \in Workers /\ Stopped.at = "idle" /\ Stopped.path = <<>>
    BY DEF Stopped, Workers
  <2>2. worker \in [Trains -> Workers] /\ \A t \in Trains : worker[t] = Stopped
    BY <2>1 DEF Init
  <2>3. \A t \in Trains : position[t] <= Len(worker[t].path)
    <3> SUFFICES ASSUME NEW t \in Trains PROVE position[t] <= Len(worker[t].path)
      OBVIOUS
    <3>1. position[t] = 0
      BY DEF Init
    <3>2. Len(worker[t].path) = 0
      BY <2>1, <2>2
    <3>3. QED
      BY <3>1, <3>2
  <2>4. QED
    BY <2>1, <2>2, <2>3 DEF Init, TypeOK, Workers, Pool
<1>2. \A t \in Trains : worker[t].at = "idle"
  BY DEF Init, Stopped
<1>3. \A t \in Trains : WorkerPlaced(t) /\ NewsInTime(t)
  BY <1>2 DEF Init, WorkerPlaced, NewsInTime
<1>4. NoAssertionFails /\ SwitchesInTime
  BY <1>2 DEF Init, NoAssertionFails, SwitchesInTime
<1>5. AttributionsKept /\ NewsOfWaiting /\ CourierBusy
  BY DEF Init, AttributionsKept, NewsOfWaiting, CourierBusy
<1>6. QED
  BY <1>1, <1>3, <1>4, <1>5 DEF Inv

LEMMA TrackingKept == ASSUME Inv, UNCHANGED tracking PROVE TrackingOK'
BY DEF Inv, TrackingOK, tracking, NoAssertionFails, SwitchesInTime, NewsOfWaiting,
       WorkerPlaced, NewsInTime, Followed, Wanted

LEMMA StutterInv == ASSUME Inv, UNCHANGED vars PROVE Inv'
<1> USE DEF vars, server, history
<1>1. TrackingOK'
  BY TrackingKept DEF tracking
<1>2. TypeOK' /\ AttributionsKept' /\ CourierBusy'
  BY DEF Inv, TypeOK, AttributionsKept, CourierBusy
<1>3. QED
  BY <1>1, <1>2 DEF TrackingOK, Inv

LEMMA CourierAsksInv == ASSUME Inv, CourierAsks PROVE Inv'
<1>1. TrackingOK'
  BY TrackingKept DEF CourierAsks, tracking
<1>2. TypeOK'
  <2>1. buffer \in Pool /\ carried' \subseteq Pool
    BY DEF Inv, TypeOK, CourierAsks
  <2>2. QED
    BY <2>1 DEF Inv, TypeOK, CourierAsks, PrintSubscriptions
<1>3. AttributionsKept' /\ CourierBusy'
  <2>1. CASE overrun
    BY <2>1 DEF Inv, AttributionsKept, CourierBusy, CourierAsks
  <2>2. CASE ~overrun /\ buffer_valid
    <3>1. undelivered \subseteq (UNION carried) \cup buffer /\ carried = {} /\ ~attribution_courier
      BY <2>2 DEF Inv, AttributionsKept, CourierAsks
    <3>2. /\ undelivered' = undelivered /\ carried' = {buffer}
          /\ attribution_courier' = attribution_courier
      BY <2>2 DEF CourierAsks
    <3>3. UNION {buffer} = buffer /\ UNION {} = {}
      OBVIOUS
    <3>4. undelivered' \subseteq UNION carried'
      BY <3>1, <3>2, <3>3
    <3>5. QED
      BY <3>1, <3>2, <3>4 DEF AttributionsKept, CourierBusy
  <2>3. CASE ~overrun /\ ~buffer_valid
    BY <2>3 DEF Inv, AttributionsKept, CourierBusy, CourierAsks
  <2>4. QED
    BY <2>1, <2>2, <2>3
<1>4. QED
  BY <1>1, <1>2, <1>3 DEF TrackingOK, Inv

LEMMA CourierGivesInv == ASSUME Inv, CourierGives PROVE Inv'
<1> USE DEF server
<1>1. TrackingOK'
  BY TrackingKept DEF CourierGives, tracking
<1>2. TypeOK'
  BY DEF Inv, TypeOK, CourierGives, Pool
<1>3. AttributionsKept' /\ CourierBusy'
  BY DEF Inv, AttributionsKept, CourierBusy, CourierGives
<1>4. QED
  BY <1>1, <1>2, <1>3 DEF TrackingOK, Inv

LEMMA PrintersInv == ASSUME Inv, AttributionPrint \/ SubscriptionPrint PROVE Inv'
<1>1. TrackingOK'
  BY TrackingKept DEF AttributionPrint, SubscriptionPrint, tracking
<1>2. TypeOK'
  BY DEF Inv, TypeOK, AttributionPrint, SubscriptionPrint, PrintSubscriptions
<1>3. AttributionsKept' /\ CourierBusy'
  <2>1. UNCHANGED <<attribution_courier, buffer_valid, buffer, carried, undelivered, overrun>>
    BY DEF AttributionPrint, SubscriptionPrint
  <2>2. AttributionsKept'
    BY <2>1 DEF Inv, AttributionsKept
  <2>3. CourierBusy'
    BY <2>1 DEF Inv, CourierBusy
  <2>4. QED
    BY <2>2, <2>3
<1>4. QED
  BY <1>1, <1>2, <1>3 DEF TrackingOK, Inv

-----------------------------------------------------------------------------
(* The workers and the trains *)

\* There is no news of a train whose worker does not wait.
LEMMA NoNewsOfOthers ==
  ASSUME Inv, NEW t \in Trains, NEW p \in Paths[t], NEW k \in 1 .. Len(p), p[k] \in on
  PROVE  worker[t].at = "waiting"
<1>1. PICK u \in Trains : /\ worker[u].at = "waiting"
                          /\ \E m \in 1 .. position[u] : p[k] = worker[u].path[m]
  BY DEF Inv, NewsOfWaiting
<1>2. PICK m \in 1 .. position[u] : p[k] = worker[u].path[m]
  BY <1>1
<1>3. worker[u].path \in Paths[u] /\ m \in 1 .. Len(worker[u].path)
  <2>1. worker[u].path \in Paths[u] /\ position[u] \in 0 .. Len(worker[u].path)
        /\ Len(worker[u].path) \in Nat
    BY <1>1, WorkerFacts DEF Inv
  <2>2. QED
    BY <2>1
<1>4. u = t
  BY <1>2, <1>3, PathsApart
<1>5. QED
  BY <1>1, <1>4

LEMMA StartInv ==
  ASSUME Inv, NEW t \in Trains, NEW p \in Paths[t], NEW last \in 1 .. Len(p),
         NEW short \in BOOLEAN, Start(t, p, last, short)
  PROVE  Inv'
<1> USE DEF server
<1> DEFINE w == [at |-> "moving", path |-> p, i |-> 1, last |-> last, short |-> short]
<1>1. /\ worker[t].at = "idle" /\ (short => last = 1)
      /\ worker' = [worker EXCEPT ![t] = w] /\ position' = [position EXCEPT ![t] = 0]
      /\ late' = late \ {t}
      /\ UNCHANGED <<subscribers, subscription_changed, sensor_printer, subscribe_printer,
                     attribution_courier, buffer_valid, buffer, panic, on, carried,
                     undelivered, overrun>>
  BY DEF Start
<1>2. /\ p \in Seq(Sensors) /\ Len(p) \in Nat /\ Len(p) >= 1
      /\ \A i \in 1 .. Len(p) : p[i] \in Sensors
  BY PathFacts
<1>3. w \in Workers /\ w.at = "moving" /\ w.path = p /\ w.i = 1 /\ w.last = last
      /\ w.short = short
  BY <1>2 DEF Workers
<1> HIDE DEF w
<1>4. /\ worker' \in [Trains -> Workers] /\ worker'[t] = w
      /\ \A u \in Trains \ {t} : worker'[u] = worker[u] /\ position'[u] = position[u]
      /\ worker \in [Trains -> Workers]
  BY <1>1, <1>3 DEF Inv, TypeOK, Workers
<1>5. position' \in [Trains -> Nat] /\ position'[t] = 0
      /\ \A u \in Trains \ {t} : position'[u] = position[u]
  BY <1>1 DEF Inv, TypeOK
<1>6. TypeOK'
  <2>1. \A u \in Trains : worker'[u].at # "idle" => worker'[u].i \in 1 .. worker'[u].last
    <3>1. w.i \in 1 .. w.last
      BY <1>2, <1>3
    <3>2. QED
      BY <1>4, <3>1 DEF Inv, TypeOK
  <2>2. \A u \in Trains : position'[u] <= Len(worker'[u].path)
    <3>1. position'[t] <= Len(worker'[t].path)
      BY <1>2, <1>3, <1>4, <1>5
    <3>2. QED
      BY <1>4, <1>5, <3>1 DEF Inv, TypeOK
  <2>3. (late \subseteq Trains)'
    BY <1>1 DEF Inv, TypeOK
  <2>4. QED
    BY <1>1, <1>4, <1>5, <2>1, <2>2, <2>3 DEF Inv, TypeOK, Workers
<1>7. \A u \in Trains : WorkerPlaced(u)'
  <2>1. WorkerPlaced(t)'
    BY <1>1, <1>2, <1>3, <1>4 DEF Inv, WorkerPlaced
  <2>2. ASSUME NEW u \in Trains \ {t} PROVE WorkerPlaced(u)'
    BY <1>1, <1>4 DEF Inv, WorkerPlaced, Wanted
  <2>3. QED
    BY <2>1, <2>2
<1>8. \A k \in 1 .. Len(p) : p[k] \notin on
  BY <1>1, NoNewsOfOthers
<1>9. \A u \in Trains : NewsInTime(u)'
  <2>1. NewsInTime(t)'
    BY <1>1, <1>3, <1>4, <1>5, <1>8 DEF NewsInTime
  <2>2. ASSUME NEW u \in Trains \ {t} PROVE NewsInTime(u)'
    BY <1>1, <1>4, <1>5 DEF Inv, NewsInTime, Followed
  <2>3. QED
    BY <2>1, <2>2
<1>10. NoAssertionFails'
  <2>1. \A u \in Trains : (worker'[u].at = "waiting") = (worker[u].at = "waiting")
    BY <1>1, <1>3, <1>4
  <2>2. QED
    BY <1>1, <2>1 DEF Inv, NoAssertionFails
<1>11. SwitchesInTime'
  <2>1. position'[t] <= worker'[t].i
    BY <1>3, <1>4, <1>5
  <2>2. QED
    BY <1>1, <1>4, <1>5, <2>1 DEF Inv, SwitchesInTime, Followed
<1>12. NewsOfWaiting'
  <2>1. \A u \in Trains : worker[u].at = "waiting" => u # t
    BY <1>1
  <2>2. QED
    BY <1>1, <1>4, <1>5, <2>1 DEF Inv, NewsOfWaiting
<1>13. AttributionsKept' /\ CourierBusy'
  BY <1>1 DEF Inv, AttributionsKept, CourierBusy
<1>14. QED
  BY <1>6, <1>7, <1>9, <1>10, <1>11, <1>12, <1>13 DEF Inv

LEMMA SubscribeInv == ASSUME Inv, NEW t \in Trains, Subscribe(t) PROVE Inv'
<1> DEFINE w == worker[t]
           v == [w EXCEPT !.at = "waiting"]
<1>1. w.at = "moving" /\ TypeOK /\ WorkerPlaced(t)
  BY DEF Subscribe, Inv
<1>2. /\ w \in Workers /\ w.path \in Paths[t] /\ w.path \in Seq(Sensors)
      /\ w.i \in 1 .. Len(w.path) /\ w.i <= w.last /\ w.last <= Len(w.path)
      /\ w.short => w.last = 1 /\ w.i = 1
      /\ Wanted(w) \subseteq Sensors
  BY <1>1, WorkerFacts
<1>3. /\ v \in Workers /\ v.at = "waiting" /\ v.path = w.path /\ v.i = w.i /\ v.last = w.last
      /\ v.short = w.short
  BY <1>2 DEF Workers
<1>4. Wanted(v) = Wanted(w)
  BY <1>3 DEF Wanted
<1>5. \A s \in Wanted(w) : subscribers[s] = NoTrain
  <2> SUFFICES ASSUME NEW s \in Wanted(w), NEW u \in Trains, subscribers[s] = u PROVE FALSE
    BY <1>1, <1>2 DEF TypeOK
  <2>1. s \in Sensors /\ worker[u].at = "waiting" /\ s \in Wanted(worker[u])
    BY <1>2 DEF Inv, WorkerPlaced
  <2>2. u # t
    BY <1>1, <2>1
  <2>3. QED
    BY <1>1, <2>1, <2>2, WantedByOne DEF Inv
<1>6. /\ worker' = [worker EXCEPT ![t] = v]
      /\ subscribers' = [s \in Sensors |-> IF s \in Wanted(w) THEN t ELSE subscribers[s]]
      /\ UNCHANGED <<panic, sensor_printer, attribution_courier, buffer_valid, buffer, on,
                     position, carried, undelivered, overrun, late>>
  <2>1. worker' = [worker EXCEPT ![t] = v]
    BY <1>1 DEF Subscribe, TypeOK
  <2>2. QED
    BY <1>5, <2>1 DEF Subscribe
<1> HIDE DEF v
<1>7. /\ worker' \in [Trains -> Workers] /\ worker'[t] = v
      /\ \A u \in Trains \ {t} : worker'[u] = worker[u]
  <2>1. worker \in [Trains -> Workers]
    BY <1>1 DEF TypeOK, Workers
  <2>2. QED
    BY <1>3, <1>6, <2>1
<1>8. TypeOK'
  <2>1. (subscribers \in [Sensors -> Trains \cup {NoTrain}])'
    BY <1>1, <1>6 DEF TypeOK
  <2>2. \A u \in Trains : /\ worker'[u].at # "idle" => worker'[u].i \in 1 .. worker'[u].last
                          /\ position'[u] <= Len(worker'[u].path)
    BY <1>1, <1>3, <1>6, <1>7 DEF TypeOK
  <2>3. (subscription_changed \in BOOLEAN /\ subscribe_printer \in BOOLEAN)'
    BY <1>1 DEF Subscribe, PrintSubscriptions, TypeOK
  <2>4. QED
    BY <1>1, <1>6, <1>7, <2>1, <2>2, <2>3 DEF TypeOK, Workers
<1>9. \A u \in Trains : WorkerPlaced(u)'
  <2>1. WorkerPlaced(t)'
    <3>1. \A s \in Sensors : subscribers'[s] = t <=> s \in Wanted(w)
      BY <1>1, <1>6 DEF WorkerPlaced
    <3>2. QED
      BY <1>2, <1>3, <1>4, <1>7, <3>1 DEF WorkerPlaced
  <2>2. ASSUME NEW u \in Trains \ {t} PROVE WorkerPlaced(u)'
    <3>1. \A s \in Sensors : subscribers'[s] = u <=> subscribers[s] = u
      BY <1>5, <1>6, DispatchAssumption
    <3>2. WorkerPlaced(u)
      BY DEF Inv
    <3>3. QED
      BY <1>7, <3>1, <3>2 DEF WorkerPlaced, Wanted
  <2>3. QED
    BY <2>1, <2>2
<1>10. \A u \in Trains : NewsInTime(u)'
  <2>1. NewsInTime(t)'
    BY <1>1, <1>3, <1>6, <1>7 DEF Inv, NewsInTime, Followed
  <2>2. ASSUME NEW u \in Trains \ {t} PROVE NewsInTime(u)'
    BY <1>6, <1>7 DEF Inv, NewsInTime, Followed
  <2>3. QED
    BY <2>1, <2>2
<1>11. NoAssertionFails'
  <2>1. w.path[w.i] \in Wanted(w)
    BY DEF Wanted
  <2>2. \A u \in Trains : worker'[u].at = "waiting" <=> \E s \in Sensors : subscribers'[s] = u
    <3>1. \E s \in Sensors : subscribers'[s] = t
      BY <1>2, <1>6, <2>1
    <3>2. ASSUME NEW u \in Trains \ {t}
          PROVE  \A s \in Sensors : subscribers'[s] = u <=> subscribers[s] = u
      BY <1>5, <1>6, DispatchAssumption
    <3>3. QED
      BY <1>3, <1>7, <3>1, <3>2 DEF Inv, NoAssertionFails
  <2>3. QED
    BY <1>6, <2>2 DEF Inv, NoAssertionFails
<1>12. SwitchesInTime'
  <2>1. \A u \in Trains : /\ worker'[u].path = worker[u].path /\ worker'[u].i = worker[u].i
                          /\ worker'[u].short = worker[u].short
                          /\ worker'[u].at # "idle" => worker[u].at # "idle"
    BY <1>1, <1>3, <1>7
  <2>2. QED
    BY <1>6, <2>1 DEF Inv, SwitchesInTime, Followed
<1>13. NewsOfWaiting'
  <2>1. \A u \in Trains : /\ worker'[u].path = worker[u].path
                          /\ worker[u].at = "waiting" => worker'[u].at = "waiting"
    BY <1>1, <1>3, <1>7
  <2>2. QED
    BY <1>6, <2>1 DEF Inv, NewsOfWaiting
<1>14. AttributionsKept' /\ CourierBusy'
  BY <1>6 DEF Inv, AttributionsKept, CourierBusy
<1>15. QED
  BY <1>8, <1>9, <1>10, <1>11, <1>12, <1>13, <1>14 DEF Inv

LEMMA PassInv == ASSUME Inv, NEW t \in Trains, Pass(t) PROVE Inv'
<1> USE DEF server
<1> DEFINE w == worker[t]
           n == position[t] + 1
<1>1. w.at = "waiting" /\ TypeOK /\ WorkerPlaced(t)
  BY DEF Pass, Inv
<1>2. /\ w \in Workers /\ w.path \in Paths[t] /\ w.path \in Seq(Sensors)
      /\ w.i \in 1 .. Len(w.path) /\ (w.short => w.i = 1)
      /\ position[t] \in 0 .. Len(w.path) /\ Len(w.path) \in Nat
  BY <1>1, WorkerFacts
<1>3. /\ n \in 1 .. Len(w.path)
      /\ position' = [position EXCEPT ![t] = n]
      /\ on' = on \cup ({w.path[n]} \ Broken)
      /\ late' = IF \E i \in 1 .. Len(w.path) : w.path[i] \in on THEN late \cup {t} ELSE late
      /\ UNCHANGED <<subscribers, subscription_changed, sensor_printer, subscribe_printer,
                     attribution_courier, buffer_valid, buffer, panic, worker, carried,
                     undelivered, overrun>>
  BY <1>2 DEF Pass
<1>4. /\ position' \in [Trains -> Nat] /\ position'[t] = n
      /\ \A u \in Trains \ {t} : position'[u] = position[u]
      /\ \A u \in Trains : position[u] \in Nat
  BY <1>1, <1>3 DEF TypeOK
<1>5. /\ w.path[n] \in Sensors
      /\ \A i, j \in 1 .. Len(w.path) : w.path[i] = w.path[j] => i = j
  BY <1>2, <1>3, PathFacts
<1>6. ASSUME NEW u \in Trains \ {t}, worker[u].at # "idle", NEW k \in 1 .. Len(worker[u].path)
      PROVE  worker[u].path[k] \in on' <=> worker[u].path[k] \in on
  <2>1. worker[u].path \in Paths[u]
    BY <1>6 DEF Inv, WorkerPlaced
  <2>2. worker[u].path[k] # w.path[n]
    BY <1>2, <1>3, <2>1, PathsApart
  <2>3. QED
    BY <1>3, <2>2
<1>7. \A u \in Trains \ {t} : u \in late' <=> u \in late
  BY <1>3
<1>8. t \notin late' => t \notin late /\ \A k \in 1 .. Len(w.path) : w.path[k] \notin on
  BY <1>3
<1>9. TypeOK'
  <2>1. (on \subseteq Sensors /\ late \subseteq Trains)'
    BY <1>1, <1>3, <1>5 DEF TypeOK
  <2>2. \A u \in Trains : position'[u] <= Len(worker[u].path)
    BY <1>1, <1>3, <1>4 DEF TypeOK
  <2>3. QED
    BY <1>1, <1>3, <1>4, <2>1, <2>2 DEF TypeOK
<1>10. \A u \in Trains : WorkerPlaced(u)'
  BY <1>3 DEF Inv, WorkerPlaced, Wanted
<1>11. \A u \in Trains : NewsInTime(u)'
  <2>1. NewsInTime(t)'
    <3> SUFFICES ASSUME t \notin late'
                 PROVE  /\ \A k \in 1 .. Len(w.path) : w.path[k] \in on' => k = n
                        /\ Followed(w) =>
                             \A k \in 1 .. n : w.path[k] \in Broken \cup on' \/ k < w.i
      BY <1>3, <1>4 DEF NewsInTime, Followed
    <3>1. \A k \in 1 .. Len(w.path) : w.path[k] \in on' => k = n
      BY <1>3, <1>5, <1>8
    <3>2. ASSUME Followed(w), NEW k \in 1 .. n
          PROVE  w.path[k] \in Broken \cup on' \/ k < w.i
      <4>1. CASE k = n
        BY <1>3, <4>1
      <4>2. CASE k # n
        <5>1. k \in 1 .. position[t]
          BY <1>4, <4>2
        <5>2. w.path[k] \in Broken \cup on \/ k < w.i
          BY <1>1, <1>8, <3>2, <5>1 DEF Inv, NewsInTime
        <5>3. QED
          BY <1>3, <5>2
      <4>3. QED
        BY <4>1, <4>2
    <3>3. QED
      BY <3>1, <3>2
  <2>2. ASSUME NEW u \in Trains \ {t} PROVE NewsInTime(u)'
    <3> SUFFICES ASSUME worker[u].at # "idle", u \notin late
                 PROVE  /\ \A k \in 1 .. Len(worker[u].path) :
                             worker[u].path[k] \in on' => k = position[u]
                        /\ Followed(worker[u]) => \A k \in 1 .. position[u] :
                             worker[u].path[k] \in Broken \cup on' \/ k < worker[u].i
      BY <1>3, <1>4, <1>7 DEF NewsInTime, Followed
    <3>1. NewsInTime(u)
      BY DEF Inv
    <3>2. on \subseteq on'
      BY <1>3
    <3>3. QED
      BY <1>6, <3>1, <3>2 DEF NewsInTime
  <2>3. QED
    BY <2>1, <2>2
<1>12. NoAssertionFails'
  BY <1>3 DEF Inv, NoAssertionFails
<1>13. SwitchesInTime'
  <2>1. ASSUME t \notin late', Followed(w)
        PROVE  n <= w.i \/ (n = w.i + 1 /\ w.path[w.i] \in Broken /\ w.path[w.i + 1] \in on')
    <3>1. /\ t \notin late
          /\ \A k \in 1 .. Len(w.path) : w.path[k] \notin on
      BY <1>8, <2>1
    <3>2. position[t] <= w.i
      <4>1. position[t] = w.i + 1 => w.i + 1 \in 1 .. Len(w.path)
        BY <1>2
      <4>2. QED
        BY <1>1, <2>1, <3>1, <4>1 DEF Inv, SwitchesInTime
    <3>3. CASE position[t] = w.i
      <4>1. w.path[w.i] \in Broken
        <5>1. w.path[w.i] \in Broken \cup on \/ w.i < w.i
          <6>1. w.i \in 1 .. position[t]
            BY <1>2, <3>3
          <6>2. QED
            BY <1>1, <2>1, <3>1, <6>1 DEF Inv, NewsInTime
        <5>2. QED
          BY <1>2, <3>1, <5>1
      <4>2. w.path[w.i + 1] \notin Broken
        <5>1. w.i \in 1 .. Len(w.path) - 1
          BY <1>2, <1>3, <3>3
        <5>2. QED
          BY <2>1, <4>1, <5>1 DEF Followed
      <4>3. QED
        BY <1>3, <3>3, <4>1, <4>2
    <3>4. CASE position[t] < w.i
      BY <1>2, <3>4
    <3>5. QED
      BY <1>2, <3>2, <3>3, <3>4
  <2>2. ASSUME NEW u \in Trains \ {t}, worker[u].at # "idle", u \notin late, Followed(worker[u])
        PROVE  \/ position[u] <= worker[u].i
               \/ /\ position[u] = worker[u].i + 1
                  /\ worker[u].path[worker[u].i] \in Broken
                  /\ worker[u].path[worker[u].i + 1] \in on'
    BY <1>3, <2>2 DEF Inv, SwitchesInTime
  <2>3. QED
    BY <1>3, <1>4, <1>7, <2>1, <2>2 DEF SwitchesInTime, Followed
<1>14. NewsOfWaiting'
  <2> SUFFICES ASSUME NEW s \in on'
               PROVE  \E u \in Trains : worker[u].at = "waiting" /\
                        \E k \in 1 .. position'[u] : s = worker[u].path[k]
    BY <1>3 DEF NewsOfWaiting
  <2>1. CASE s \in on
    <3>1. PICK u \in Trains : /\ worker[u].at = "waiting"
                              /\ \E k \in 1 .. position[u] : s = worker[u].path[k]
      BY <2>1 DEF Inv, NewsOfWaiting
    <3>2. position'[u] >= position[u]
      BY <1>4
    <3>3. QED
      BY <1>4, <3>1, <3>2
  <2>2. CASE s = w.path[n]
    <3>1. n \in 1 .. position'[t]
      BY <1>3, <1>4
    <3>2. QED
      BY <1>1, <2>2, <3>1
  <2>3. QED
    BY <1>3, <2>1, <2>2
<1>15. AttributionsKept' /\ CourierBusy'
  BY <1>3 DEF Inv, AttributionsKept, CourierBusy
<1>16. QED
  BY <1>9, <1>10, <1>11, <1>12, <1>13, <1>14, <1>15 DEF Inv

\* The subscribed sensors of the train t that the news bring.
Mine(t) == {s \in on : subscribers[s] = t}

\* How the worker of a train goes on: it gets to time its stop, or it turns to one of the
\* next two sensors.
LEMMA AnsweredFacts ==
  ASSUME TypeOK, NEW t \in Trains, WorkerPlaced(t), worker[t].at # "idle", NEW s
  PROVE  LET w == worker[t]
             v == Answered(w, s)
         IN  \/ v = Stopped
             \/ /\ v \in Workers /\ v.at = "moving" /\ v.path = w.path /\ v.last = w.last
                /\ v.short = w.short
                /\ v.i \in {w.i + 1, w.i + 2} /\ v.i <= w.last
                /\ (~w.short /\ w.i < Len(w.path) /\ s = w.path[w.i + 1]) => v.i = w.i + 2
<1> DEFINE w == worker[t]
           i == IF ~w.short /\ w.i < Len(w.path) /\ s = w.path[w.i + 1] THEN w.i + 2 ELSE w.i + 1
           v == [w EXCEPT !.at = "moving", !.i = i]
<1>1. w \in Workers /\ w.i \in Nat /\ w.last \in Nat
  BY WorkerFacts DEF Workers
<1>2. i \in {w.i + 1, w.i + 2} /\ i \in Nat
      /\ ((~w.short /\ w.i < Len(w.path) /\ s = w.path[w.i + 1]) => i = w.i + 2)
  BY <1>1
<1>3. Answered(w, s) = IF i > w.last THEN Stopped ELSE v
  BY DEF Answered
<1> HIDE DEF i
<1>4. /\ v \in Workers /\ v.at = "moving" /\ v.i = i /\ v.path = w.path /\ v.last = w.last
      /\ v.short = w.short
  <2> HIDE DEF w
  <2> DEFINE v1 == [w EXCEPT !.at = "moving"]
  <2>1. /\ v1 \in Workers /\ v1.at = "moving" /\ v1.path = w.path /\ v1.last = w.last
        /\ v1.short = w.short
    BY <1>1 DEF Workers
  <2>2. v = [v1 EXCEPT !.i = i]
    OBVIOUS
  <2> HIDE DEF v1
  <2> DEFINE v2 == [v1 EXCEPT !.i = i]
  <2>3. /\ v2 \in Workers /\ v2.at = "moving" /\ v2.i = i /\ v2.path = w.path
        /\ v2.last = w.last /\ v2.short = w.short
    BY <1>2, <2>1 DEF Workers
  <2>4. QED
    BY <2>2, <2>3
<1> HIDE DEF v
<1>5. CASE i > w.last
  BY <1>3, <1>5
<1>6. CASE ~(i > w.last)
  <2>1. i <= w.last
    BY <1>1, <1>2, <1>6
  <2>2. Answered(w, s) = v
    BY <1>3, <1>6
  <2>3. QED
    BY <1>2, <1>4, <2>1, <2>2
<1>7. QED
  BY <1>5, <1>6

\* A train that the news do not concern keeps its subscriptions; the others lose all.
LEMMA UpdateSubscribers ==
  ASSUME Inv, SensorUpdate, NEW t \in Trains
  PROVE  /\ Mine(t) = {} => \A s \in Sensors : subscribers'[s] = t <=> subscribers[s] = t
         /\ Mine(t) # {} => \A s \in Sensors : subscribers'[s] # t
<1>1. on \subseteq Sensors /\ t # NoTrain
  BY DispatchAssumption DEF Inv, TypeOK
<1> DEFINE triggering == {a[2] : a \in Attributed(on)}
<1>2. t \in triggering <=> Mine(t) # {}
  <2> DEFINE R == {r \in on : subscribers[r] # NoTrain}
  <2> DEFINE A == Attributed(on)
             Pair(s) == <<s, subscribers[s]>>
  <2>1. A = {Pair(s) : s \in R}
    BY DEF Attributed
  <2>2. \A s \in R : Pair(s)[2] = subscribers[s]
    OBVIOUS
  <2>3. t \in triggering <=> \E a \in A : t = a[2]
    BY DEF A
  <2> HIDE DEF A, Pair, triggering
  <2>4. (\A s \in R : Pair(s) \in A) /\ (\A a \in A : \E s \in R : a = Pair(s))
    BY <2>1
  <2>5. t \in triggering <=> \E s \in R : t = subscribers[s]
    BY <2>2, <2>3, <2>4
  <2>6. QED
    BY <1>1, <2>5 DEF Mine
<1>3. subscribers' = [s \in Sensors |-> IF subscribers[s] \in triggering THEN NoTrain
                                                                        ELSE subscribers[s]]
  BY DEF SensorUpdate, Cleared
<1> HIDE DEF triggering
<1>4. QED
  BY <1>1, <1>2, <1>3

\* A train whose news keep ahead of it: what came on is the last sensor it passed, and if
\* its worker is behind, the worker hears of it.
LEMMA NewsReachWorker ==
  ASSUME Inv, NEW t \in Trains, worker[t].at # "idle", t \notin late
  PROVE  LET w == worker[t]
         IN  /\ \A s \in Mine(t) : \/ s = w.path[w.i] /\ position[t] = w.i
                                   \/ /\ ~w.short /\ w.i < Len(w.path)
                                      /\ s = w.path[w.i + 1] /\ position[t] = w.i + 1
             /\ Followed(w) /\ Mine(t) = {} =>
                  /\ position[t] <= w.i
                  /\ \A k \in 1 .. position[t] : w.path[k] \in Broken \/ k < w.i
<1> DEFINE w == worker[t]
<1>1. TypeOK /\ WorkerPlaced(t) /\ NewsInTime(t) /\ SwitchesInTime /\ on \subseteq Sensors
  BY DEF Inv, TypeOK
<1>2. /\ w.path \in Paths[t]
      /\ w.i \in 1 .. Len(w.path) /\ (w.short => w.i = 1)
      /\ position[t] \in 0 .. Len(w.path) /\ Len(w.path) \in Nat
      /\ \A s \in Sensors : s \in Wanted(w) <=>
                  \/ s = w.path[w.i]
                  \/ ~w.short /\ w.i < Len(w.path) /\ s = w.path[w.i + 1]
  BY <1>1, WorkerFacts
<1>3. \A k \in 1 .. Len(w.path) : w.path[k] \in on => k = position[t]
  BY <1>1 DEF NewsInTime
<1>4. \A k \in 1 .. Len(w.path) : w.path[k] \in on => w.at = "waiting"
  BY <1>2, NoNewsOfOthers
<1>5. \A s \in Mine(t) : s \in Sensors /\ s \in on /\ s \in Wanted(w)
  BY <1>1 DEF Mine, WorkerPlaced
<1>6. \A s \in Wanted(w) : s \in on => s \in Mine(t)
  BY <1>1, <1>2, <1>4, WorkerFacts DEF Mine, WorkerPlaced
<1>7. Followed(w) => \A k \in 1 .. position[t] : w.path[k] \in Broken \cup on \/ k < w.i
  BY <1>1 DEF NewsInTime
<1>8. Followed(w) => \/ position[t] <= w.i
                     \/ position[t] = w.i + 1 /\ w.path[w.i] \in Broken /\ w.path[w.i + 1] \in on
  BY <1>1 DEF SwitchesInTime
<1>9. w.path[w.i] \in Wanted(w)
      /\ (~w.short /\ w.i < Len(w.path) => w.path[w.i + 1] \in Wanted(w))
  BY DEF Wanted
<1>10. Followed(w) /\ w.short => w.path[1] \notin Broken
  BY DEF Followed
<1> HIDE DEF w
<1>11. ASSUME NEW s \in Mine(t)
       PROVE  \/ s = w.path[w.i] /\ position[t] = w.i
              \/ /\ ~w.short /\ w.i < Len(w.path)
                 /\ s = w.path[w.i + 1] /\ position[t] = w.i + 1
  <2>1. s \in on /\ (\/ s = w.path[w.i]
                     \/ ~w.short /\ w.i < Len(w.path) /\ s = w.path[w.i + 1])
    BY <1>2, <1>5
  <2>2. QED
    BY <1>2, <1>3, <2>1
<1>12. ASSUME Followed(w), Mine(t) = {}
       PROVE  /\ position[t] <= w.i
              /\ \A k \in 1 .. position[t] : w.path[k] \in Broken \/ k < w.i
  <2>1. position[t] <= w.i
    <3> SUFFICES ASSUME position[t] = w.i + 1, w.path[w.i] \in Broken, w.path[w.i + 1] \in on
                 PROVE  FALSE
      BY <1>8, <1>12
    <3>1. ~w.short /\ w.i < Len(w.path)
      BY <1>2, <1>10, <1>12
    <3>2. QED
      BY <1>6, <1>9, <1>12, <3>1
  <2>2. ASSUME NEW k \in 1 .. position[t], w.path[k] \notin Broken, ~(k < w.i) PROVE FALSE
    <3>1. k = w.i
      BY <1>2, <2>1, <2>2
    <3>2. w.path[k] \in on
      BY <1>7, <1>12, <2>2
    <3>3. QED
      BY <1>6, <1>9, <1>12, <3>1, <3>2
  <2>3. QED
    BY <2>1, <2>2
<1>13. QED
  BY <1>11, <1>12 DEF w

\* The worker that the news concern, if they keep ahead of its train: it turns to a sensor
\* that the train has not passed yet.
LEMMA WorkerAhead ==
  ASSUME Inv, NEW t \in Trains, t \notin late, Mine(t) # {},
         Answered(worker[t], Least(Mine(t))) # Stopped
  PROVE  position[t] < Answered(worker[t], Least(Mine(t))).i
<1> DEFINE w == worker[t]
<1>1. TypeOK /\ WorkerPlaced(t) /\ on \subseteq Sensors /\ Sensors \subseteq Nat
  BY DispatchAssumption DEF Inv, TypeOK
<1>2. w.at # "idle"
  BY <1>1 DEF Mine, WorkerPlaced
<1>3. PICK s \in Mine(t) : TRUE
  OBVIOUS
<1>4. /\ \A r \in Mine(t) : \/ r = w.path[w.i] /\ position[t] = w.i
                            \/ /\ ~w.short /\ w.i < Len(w.path)
                               /\ r = w.path[w.i + 1] /\ position[t] = w.i + 1
      /\ w.i \in Nat
  BY <1>1, <1>2, NewsReachWorker, WorkerFacts
<1>5. Mine(t) = {s} /\ s \in Nat
  BY <1>1, <1>3, <1>4 DEF Mine
<1>6. Least(Mine(t)) = s
  BY <1>5 DEF Least
<1> DEFINE v == Answered(w, s)
<1>7. /\ v.i \in {w.i + 1, w.i + 2}
      /\ (~w.short /\ w.i < Len(w.path) /\ s = w.path[w.i + 1]) => v.i = w.i + 2
  BY <1>1, <1>2, <1>6, AnsweredFacts
<1> HIDE DEF v, w
<1>8. position[t] < v.i
  BY <1>3, <1>4, <1>7
<1>9. QED
  BY <1>6, <1>8 DEF v, w

LEMMA SensorUpdateInv == ASSUME Inv, SensorUpdate PROVE Inv'
<1>1. TypeOK /\ \A t \in Trains : WorkerPlaced(t)
  BY DEF Inv
<1> DEFINE Next1(t) == IF Mine(t) = {} THEN worker[t] ELSE Answered(worker[t], Least(Mine(t)))
<1>2. /\ on' = {} /\ sensor_printer' = FALSE
      /\ worker' = [t \in Trains |-> Next1(t)]
      /\ position' = [t \in Trains |-> IF worker'[t].at = "idle" THEN 0 ELSE position[t]]
      /\ undelivered' = IF overrun' THEN {} ELSE undelivered \cup Attributed(on)
      /\ UNCHANGED <<panic, late>>
  BY DEF SensorUpdate, Mine
<1>3. \A t \in Trains : worker'[t] = Next1(t)
                        /\ position'[t] = IF worker'[t].at = "idle" THEN 0 ELSE position[t]
  BY <1>2
<1>4. Stopped \in Workers /\ Stopped.at = "idle" /\ Len(Stopped.path) = 0
  BY DEF Stopped, Workers
<1>5. ASSUME NEW t \in Trains, Mine(t) # {} PROVE worker[t].at = "waiting"
  BY <1>1, <1>5 DEF Mine, WorkerPlaced, TypeOK
\* A worker either stays, stops, or moves on.
<1>6. ASSUME NEW t \in Trains
      PROVE  \/ Mine(t) = {} /\ worker'[t] = worker[t]
             \/ Mine(t) # {} /\ worker'[t] = Stopped
             \/ /\ Mine(t) # {} /\ worker[t].at = "waiting"
                /\ worker'[t] \in Workers /\ worker'[t].at = "moving"
                /\ worker'[t].path = worker[t].path /\ worker'[t].last = worker[t].last
                /\ worker'[t].short = worker[t].short
                /\ worker'[t].i \in {worker[t].i + 1, worker[t].i + 2}
                /\ worker'[t].i <= worker[t].last
                /\ t \notin late => position[t] < worker'[t].i
  <2>1. CASE Mine(t) = {}
    BY <1>3, <2>1
  <2>2. CASE Mine(t) # {}
    <3>1. worker'[t] = Answered(worker[t], Least(Mine(t))) /\ worker[t].at = "waiting"
      BY <1>3, <1>5, <2>2
    <3>2. t \notin late /\ worker'[t] # Stopped => position[t] < worker'[t].i
      BY <2>2, <3>1, WorkerAhead
    <3>3. worker[t].at # "idle"
      BY <3>1
    <3>4. QED
      BY <1>1, <2>2, <3>1, <3>2, <3>3, AnsweredFacts
  <2>3. QED
    BY <2>1, <2>2
<1> HIDE DEF Next1
<1>8. TypeOK'
  <2>1. worker' \in [Trains -> Workers]
    <3>1. \A t \in Trains : worker'[t] \in Workers
      BY <1>1, <1>4, <1>6 DEF TypeOK, Workers
    <3>2. QED
      BY <1>2, <1>3, <3>1
  <2>2. \A t \in Trains : worker'[t].at # "idle" => worker'[t].i \in 1 .. worker'[t].last
    <3> SUFFICES ASSUME NEW t \in Trains, worker'[t].at # "idle"
                 PROVE  worker'[t].i \in 1 .. worker'[t].last
      OBVIOUS
    <3>1. worker[t].at # "idle" => worker[t].i \in 1 .. worker[t].last /\ worker[t].last \in Nat
      BY <1>1 DEF TypeOK
    <3>2. QED
      BY <1>4, <1>6, <3>1
  <2>3. position' \in [Trains -> Nat] /\ \A t \in Trains : position'[t] <= Len(worker'[t].path)
    <3>1. ASSUME NEW t \in Trains
          PROVE  position'[t] \in Nat /\ position'[t] <= Len(worker'[t].path)
      <4>1. position[t] \in Nat /\ position[t] <= Len(worker[t].path)
            /\ Len(worker[t].path) \in Nat
        <5>1. worker[t].path \in Seq(Sensors)
          BY <1>1 DEF TypeOK
        <5>2. QED
          BY <1>1, <5>1 DEF TypeOK
      <4>2. QED
        BY <1>3, <1>4, <1>6, <4>1
    <3>2. QED
      BY <1>2, <3>1
  <2>4. subscribers' \in [Sensors -> Trains \cup {NoTrain}]
    BY <1>1 DEF TypeOK, SensorUpdate, Cleared
  <2>5. Attributed(on) \in Pool
    BY <1>1 DEF Attributed, Pool, TypeOK
  <2>6. /\ undelivered' \in Pool /\ late' \subseteq Trains /\ on' \subseteq Sensors
        /\ panic' \in BOOLEAN /\ sensor_printer' \in BOOLEAN
    BY <1>1, <1>2, <2>5 DEF TypeOK, Pool
  <2>7. subscription_changed' \in BOOLEAN /\ subscribe_printer' \in BOOLEAN
    BY DEF SensorUpdate, PrintSubscriptions
  <2>8. /\ carried' \subseteq Pool /\ attribution_courier' \in BOOLEAN
        /\ buffer_valid' \in BOOLEAN /\ buffer' \in Pool /\ overrun' \in BOOLEAN
    BY <1>1, <2>5 DEF TypeOK, SensorUpdate, PassOn
  <2>9. QED
    BY <2>1, <2>2, <2>3, <2>4, <2>6, <2>7, <2>8 DEF TypeOK, Workers
<1>9. \A t \in Trains : WorkerPlaced(t)'
  <2> SUFFICES ASSUME NEW t \in Trains PROVE WorkerPlaced(t)'
    OBVIOUS
  <2>1. CASE Mine(t) = {}
    BY <1>1, <1>6, <2>1, UpdateSubscribers DEF WorkerPlaced, Wanted
  <2>2. CASE Mine(t) # {}
    <3>1. \A s \in Sensors : subscribers'[s] # t
      BY <2>2, UpdateSubscribers
    <3>2. WorkerPlaced(t) /\ worker[t].at = "waiting"
      BY <1>1, <1>5, <2>2
    <3>3. worker'[t].at # "waiting"
      BY <1>4, <1>6, <2>2
    <3>4. worker'[t].at # "idle" => /\ worker'[t].path \in Paths[t]
                                    /\ worker'[t].last <= Len(worker'[t].path)
                                    /\ worker'[t].short => worker'[t].last = 1
      BY <1>4, <1>6, <2>2, <3>2 DEF WorkerPlaced
    <3>5. QED
      BY <3>1, <3>3, <3>4 DEF WorkerPlaced
  <2>3. QED
    BY <2>1, <2>2
<1>10. NoAssertionFails'
  <2>1. ASSUME NEW t \in Trains
        PROVE  worker'[t].at = "waiting" <=> \E s \in Sensors : subscribers'[s] = t
    <3>1. CASE Mine(t) = {}
      BY <1>6, <3>1, UpdateSubscribers DEF Inv, NoAssertionFails
    <3>2. CASE Mine(t) # {}
      BY <1>4, <1>6, <3>2, UpdateSubscribers
    <3>3. QED
      BY <3>1, <3>2
  <2>2. QED
    BY <1>2, <2>1 DEF Inv, NoAssertionFails
\* Where the news keep ahead of a train that can be followed, the worker is not behind it.
<1>11. ASSUME NEW t \in Trains, worker'[t].at # "idle", t \notin late, Followed(worker'[t])
       PROVE  /\ position'[t] = position[t] /\ position[t] <= worker'[t].i
              /\ \A k \in 1 .. position[t] :
                   worker'[t].path[k] \in Broken \/ k < worker'[t].i
  <2>1. position'[t] = position[t]
    BY <1>3, <1>11
  <2>2. CASE Mine(t) = {}
    BY <1>6, <1>11, <2>1, <2>2, NewsReachWorker
  <2>3. CASE Mine(t) # {}
    <3>1. position[t] < worker'[t].i /\ position[t] \in Nat /\ worker'[t].i \in Nat
      <4>1. worker[t].i \in Nat /\ position[t] \in Nat
        BY <1>1 DEF TypeOK
      <4>2. QED
        BY <1>4, <1>6, <1>11, <2>3, <4>1
    <3>2. QED
      BY <2>1, <3>1
  <2>4. QED
    BY <2>2, <2>3
<1>12. \A t \in Trains : NewsInTime(t)'
  <2> SUFFICES ASSUME NEW t \in Trains, worker'[t].at # "idle", t \notin late
               PROVE  /\ \A k \in 1 .. Len(worker'[t].path) :
                           worker'[t].path[k] \in on' => k = position'[t]
                      /\ Followed(worker'[t]) => \A k \in 1 .. position'[t] :
                           worker'[t].path[k] \in Broken \cup on' \/ k < worker'[t].i
    BY <1>2 DEF NewsInTime, Followed
  <2>1. Followed(worker'[t]) => \A k \in 1 .. position'[t] :
                           worker'[t].path[k] \in Broken \cup on' \/ k < worker'[t].i
    BY <1>11
  <2>2. QED
    BY <1>2, <2>1
<1>13. SwitchesInTime'
  BY <1>2, <1>11 DEF SwitchesInTime, Followed
<1>14. NewsOfWaiting'
  BY <1>2 DEF NewsOfWaiting
<1>15. AttributionsKept' /\ CourierBusy'
  <2>1. CASE buffer_valid
    BY <2>1 DEF Inv, SensorUpdate, PassOn, AttributionsKept, CourierBusy
  <2>2. CASE ~buffer_valid
    <3> DEFINE pool == Attributed(on)
    <3>1. /\ carried' = IF attribution_courier THEN {pool} ELSE carried
          /\ attribution_courier' = FALSE /\ overrun' = overrun
          /\ buffer_valid' = ~attribution_courier
          /\ buffer' = IF attribution_courier THEN buffer ELSE pool
      BY <2>2 DEF SensorUpdate, PassOn
    <3>2. attribution_courier => carried = {}
      BY DEF Inv, CourierBusy
    <3>3. overrun \/ undelivered \subseteq UNION carried
      BY <2>2 DEF Inv, AttributionsKept
    <3>4. UNION {pool} = pool /\ UNION {} = {}
      OBVIOUS
    <3> HIDE DEF pool
    <3>5. overrun' \/ undelivered' = undelivered \cup pool
      BY <1>2 DEF pool
    <3>6. CASE attribution_courier
      BY <3>1, <3>2, <3>3, <3>4, <3>5, <3>6 DEF AttributionsKept, CourierBusy
    <3>7. CASE ~attribution_courier
      <4>1. buffer' = pool /\ carried' = carried
        BY <3>1, <3>7
      <4>2. buffer_valid' = TRUE
        BY <3>1, <3>7, Zenon
      <4>3. QED
        BY <3>1, <3>3, <3>5, <4>1, <4>2 DEF AttributionsKept, CourierBusy
    <3>8. QED
      BY <3>6, <3>7
  <2>3. QED
    BY <2>1, <2>2
<1>16. QED
  BY <1>8, <1>9, <1>10, <1>12, <1>13, <1>14, <1>15 DEF Inv

-----------------------------------------------------------------------------
LEMMA NextInv == Inv /\ [Next]_vars => Inv'
<1> SUFFICES ASSUME Inv, [Next]_vars PROVE Inv'
  OBVIOUS
<1>1. ASSUME NEW t \in Trains, NEW p \in Paths[t], NEW last \in 1 .. Len(p),
             NEW short \in BOOLEAN, Start(t, p, last, short)
      PROVE  Inv'
  BY <1>1, StartInv
<1>2. ASSUME NEW t \in Trains, Pass(t) PROVE Inv'
  BY <1>2, PassInv
<1>3. ASSUME NEW t \in Trains, Subscribe(t) PROVE Inv'
  BY <1>3, SubscribeInv
<1>4. CASE SensorUpdate
  BY <1>4, SensorUpdateInv
<1>5. CASE CourierAsks
  BY <1>5, CourierAsksInv
<1>6. CASE CourierGives
  BY <1>6, CourierGivesInv
<1>7. CASE AttributionPrint \/ SubscriptionPrint
  BY <1>7, PrintersInv
<1>8. CASE UNCHANGED vars
  BY <1>8, StutterInv
<1>9. QED
  BY <1>1, <1>2, <1>3, <1>4, <1>5, <1>6, <1>7, <1>8 DEF Next

LEMMA SpecInv == Spec => []Inv
<1>1. QED
  BY InitInv, NextInv, PTL DEF Spec

\* The variables keep their types: a worker under way has a sensor of its path before it
\* that is not behind the one the stop is timed from (straightpathworker.c).
THEOREM DispatchTypeCorrect == Spec => []TypeOK
<1>1. Inv => TypeOK
  BY DEF Inv
<1>2. QED
  BY <1>1, SpecInv, PTL

\* For any number of trains on paths that share no sensor, the KASSERT of the dispatch
\* server that a sensor has one subscriber does not fail, and exactly the workers that
\* wait have a subscription that will wake them.
THEOREM SubscriptionsMatch == Spec => []NoAssertionFails
<1>1. Inv => NoAssertionFails
  BY DEF Inv
<1>2. QED
  BY <1>1, SpecInv, PTL

\* A train never gets beyond the stretch of switches that its straight path worker has set,
\* on a path of any length on which no two sensors in a row are broken, as long as the news
\* of each sensor are read before the train is at the next.
THEOREM SwitchesAhead == Spec => []SwitchesInTime
<1>1. Inv => SwitchesInTime
  BY DEF Inv
<1>2. QED
  BY <1>1, SpecInv, PTL

\* The one buffer and the courier lose no attribution without the message that the courier
\* could not keep up.
THEOREM AttributionsNotLost == Spec => []AttributionsKept
<1>1. Inv => AttributionsKept
  BY DEF Inv
<1>2. QED
  BY <1>1, SpecInv, PTL
=============================================================================
