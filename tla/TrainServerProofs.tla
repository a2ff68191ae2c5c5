-------------------------- MODULE TrainServerProofs --------------------------
(***************************************************************************)
(* Proofs, for all sets of trains, switches and sensors, all sizes of the  *)
(* pool of commands and all times, of the safety properties of TrainServer.*)
(***************************************************************************)
EXTENDS TrainServer, FiniteSetTheorems, FunctionTheorems, SequenceTheorems, TLAPS

Workers == [at : {"idle", "asking", "command", "poll", "delay"}, time : 0 .. MaxTime + 1,
            cmd : Commands]
Tracks == [switch : [Switches -> {0, 1, Unknown}], coil : BOOLEAN]

\* The command that the worker has fetched and not sent yet.
Held(cmd) == worker.at = "command" /\ worker.cmd = cmd

\* While a solenoid is on or about to be switched on, one of the commands that turn it off
\* is still to come; and behind each switch's command in time there is one.
OffsFollow ==
  panic \/
    /\ track.coil \/ (worker.at = "command" /\ worker.cmd.type = "SWITCH") =>
         Held(Off) \/ \E i \in DOMAIN tasks : tasks[i].cmd = Off
    /\ \A i \in DOMAIN tasks : tasks[i].cmd.type = "SWITCH" =>
         \E j \in DOMAIN tasks : tasks[j].cmd = Off /\ tasks[i].time < tasks[j].time

\* Switch s stands as d, or a command to set it so is on its way.
Towards(s, d) == \/ \E i \in DOMAIN tasks : tasks[i].cmd = SwitchCmd(s, d)
                 \/ Held(SwitchCmd(s, d))
                 \/ ~OnTheWay(s) /\ track.switch[s] = d

Opposite(d, e) == (d = Unknown /\ e = Unknown) \/ (d \in {0, 1} /\ e = 1 - d)

\* The switches of a crossing not only stand but are also sent opposite ways.
PairsOpposite ==
  panic \/ \A s \in Switches \ entangled : Partner[s] # NoSwitch =>
    \A d, e \in {0, 1, Unknown} : Towards(s, d) /\ Towards(Partner[s], e) => Opposite(d, e)

\* The worker's time is not ahead of the clock.
AskedInPast == worker.at = "asking" => worker.time <= clock

Inv == TypeOK /\ OffsFollow /\ PairsOpposite /\ AskedInPast /\ NoSensorMissed

-----------------------------------------------------------------------------
LEMMA CommandFacts ==
  /\ Off \in Commands /\ Off.type = "OFF"
  /\ \A t \in Trains, d \in {0, 1, 15} :
       SpeedCmd(t, d) \in Commands /\ SpeedCmd(t, d).type = "SPEED"
  /\ \A s, d : /\ SwitchCmd(s, d).type = "SWITCH" /\ SwitchCmd(s, d).target = s
               /\ SwitchCmd(s, d).data = d
  /\ \A s \in Switches, d \in {0, 1} : SwitchCmd(s, d) \in Commands
  /\ \A c \in Commands : c.type = "SWITCH" =>
       /\ c.target \in Switches /\ c.data \in {0, 1} /\ c = SwitchCmd(c.target, c.data)
  /\ \A c \in Commands : c.type \in {"SPEED", "SWITCH", "OFF"} /\ (c.type = "OFF" => c = Off)
<1>1. Off \in Commands /\ Off.type = "OFF"
  BY DEF Off, Commands
<1>2. ASSUME NEW t \in Trains, NEW d \in {0, 1, 15}
      PROVE  SpeedCmd(t, d) \in Commands /\ SpeedCmd(t, d).type = "SPEED"
  BY DEF SpeedCmd, Commands
<1>3. \A s, d : /\ SwitchCmd(s, d).type = "SWITCH" /\ SwitchCmd(s, d).target = s
                /\ SwitchCmd(s, d).data = d
  BY DEF SwitchCmd
<1>4. \A s \in Switches, d \in {0, 1} : SwitchCmd(s, d) \in Commands
  BY DEF SwitchCmd, Commands
<1>5. ASSUME NEW c \in Commands, c.type = "SWITCH"
      PROVE  c.target \in Switches /\ c.data \in {0, 1} /\ c = SwitchCmd(c.target, c.data)
  BY <1>5 DEF SwitchCmd, Commands
<1>6. ASSUME NEW c \in Commands
      PROVE  c.type \in {"SPEED", "SWITCH", "OFF"} /\ (c.type = "OFF" => c = Off)
  BY DEF Commands, Off
<1>7. QED
  BY <1>1, <1>2, <1>3, <1>4, <1>5, <1>6

\* There are as many different elements in a set as it has.
LEMMA InjectionExists ==
  ASSUME NEW S, IsFiniteSet(S), NEW n \in Nat, n <= Cardinality(S)
  PROVE  Injection(1 .. n, S) # {}
<1>1. PICK m \in Nat : ExistsBijection(1 .. m, S)
  BY FS_NatBijection
<1>2. PICK b \in Bijection(1 .. m, S) : TRUE
  BY <1>1 DEF ExistsBijection
<1>3. Cardinality(S) = m
  <2>1. IsFiniteSet(1 .. m) /\ Cardinality(1 .. m) = m
    BY FS_Interval
  <2>2. QED
    BY <1>1, <2>1, FS_Bijection
<1>4. /\ b \in [1 .. m -> S] /\ \A j, k \in 1 .. m : b[j] = b[k] => j = k
  BY <1>2 DEF Bijection, Injection, IsInjective
<1> DEFINE f == [k \in 1 .. n |-> b[k]]
<1>5. \A k \in 1 .. n : k \in 1 .. m
  BY <1>3
<1>6. f \in [1 .. n -> S]
  BY <1>4, <1>5
<1>7. \A j, k \in 1 .. n : f[j] = f[k] => j = k
  BY <1>4, <1>5
<1> HIDE DEF f
<1>8. IsInjective(f)
  BY <1>6, <1>7 DEF IsInjective
<1>9. QED
  BY <1>6, <1>8 DEF Injection

\* build_task: if no KASSERT fails, the old commands stay, and the new ones are added.
LEMMA BuildFacts ==
  ASSUME TypeOK, ~panic, NEW new \in Seq(Task), Build(new)
  PROVE  \/ panic' = TRUE /\ tasks' = tasks
         \/ /\ panic' = FALSE
            /\ DOMAIN tasks \subseteq DOMAIN tasks' /\ DOMAIN tasks' \subseteq Slots
            /\ \A i \in DOMAIN tasks : tasks'[i] = tasks[i]
            /\ \A i \in DOMAIN tasks' \ DOMAIN tasks : \E k \in 1 .. Len(new) : tasks'[i] = new[k]
            /\ \A k \in 1 .. Len(new) : \E i \in DOMAIN tasks' : tasks'[i] = new[k]
<1> DEFINE free == Slots \ DOMAIN tasks
           n == Len(new)
           slot == CHOOSE f \in Injection(DOMAIN new, free) : TRUE
           index(i) == CHOOSE k \in DOMAIN new : slot[k] = i
<1>1. n \in Nat /\ DOMAIN new = 1 .. n
  OBVIOUS
<1>2. CASE Cardinality(free) < n
  BY <1>1, <1>2 DEF Build
<1>3. CASE ~(Cardinality(free) < n)
  <2>1. IsFiniteSet(free) /\ Cardinality(free) \in Nat
    <3>1. IsFiniteSet(Slots)
      BY FS_Interval, TrainServerAssumption DEF Slots
    <3>2. QED
      BY <3>1, FS_Subset, FS_CardinalityType
  <2>2. Injection(DOMAIN new, free) # {}
    <3> HIDE DEF free, n
    <3>1. QED
      BY <1>1, <1>3, <2>1, InjectionExists
  <2>3. slot \in [1 .. n -> free] /\ \A j, k \in 1 .. n : slot[j] = slot[k] => j = k
    <3>1. slot \in Injection(DOMAIN new, free)
      BY <2>2
    <3> HIDE DEF slot
    <3>2. QED
      BY <1>1, <3>1 DEF Injection, IsInjective
  <2>4. /\ tasks' = [i \in DOMAIN tasks \cup Range(slot) |->
                       IF i \in DOMAIN tasks THEN tasks[i] ELSE new[index(i)]]
        /\ panic' = panic
    BY <1>3, Zenon DEF Build
  <2> HIDE DEF slot
  <2>5. Range(slot) \subseteq free /\ \A k \in 1 .. n : slot[k] \in Range(slot)
    BY <2>3 DEF Range
  <2>6. \A i \in Range(slot) : index(i) \in 1 .. n /\ slot[index(i)] = i
    <3>1. \A i \in Range(slot) : \E k \in 1 .. n : slot[k] = i
      BY <2>3 DEF Range
    <3>2. QED
      BY <1>1, <3>1
  <2> HIDE DEF index
  <2>7. ASSUME NEW k \in 1 .. n PROVE slot[k] \in DOMAIN tasks' /\ tasks'[slot[k]] = new[k]
    <3>1. slot[k] \in Range(slot) /\ slot[k] \notin DOMAIN tasks
      BY <2>5
    <3>2. index(slot[k]) = k
      BY <2>3, <2>6, <3>1
    <3>3. QED
      BY <2>4, <3>1, <3>2
  <2>8. \A i \in DOMAIN tasks' \ DOMAIN tasks : \E k \in 1 .. n : tasks'[i] = new[k]
    BY <2>4, <2>6
  <2>9. QED
    BY <1>1, <2>4, <2>5, <2>7, <2>8 DEF TypeOK
<1>4. QED
  BY <1>2, <1>3

\* The end of the server's loop.
LEMMA DeliverFacts ==
  ASSUME NEW es \in SUBSET Sensors, NEW sd \in BOOLEAN, NEW sw \in BOOLEAN,
         NEW missed \in SUBSET es, missed # {} => sd, DeliverSensors(es, sd, sw, missed)
  PROVE  /\ NoSensorMissed'
         /\ event_sensors' \subseteq Sensors /\ unseen' \subseteq Sensors
         /\ sensor_dirty' \in BOOLEAN /\ sensor_waiting' \in BOOLEAN
<1>1. CASE sd /\ sw
  BY <1>1 DEF DeliverSensors, NoSensorMissed
<1>2. CASE ~sd \/ ~sw
  <2>1. /\ event_sensors' = es /\ unseen' = missed
        /\ sensor_dirty' = (sd /\ ~sw) /\ sensor_waiting' = (sw /\ ~sd)
    BY <1>2 DEF DeliverSensors
  <2>2. QED
    BY <1>2, <2>1 DEF NoSensorMissed
<1>3. QED
  BY <1>1, <1>2

LEMMA NoNewsFacts ==
  ASSUME TypeOK, NoSensorMissed, DeliverSensors(event_sensors, sensor_dirty, sensor_waiting, unseen)
  PROVE  /\ NoSensorMissed'
         /\ event_sensors' \subseteq Sensors /\ unseen' \subseteq Sensors
         /\ sensor_dirty' \in BOOLEAN /\ sensor_waiting' \in BOOLEAN
<1>1. /\ event_sensors \in SUBSET Sensors /\ sensor_dirty \in BOOLEAN /\ sensor_waiting \in BOOLEAN
      /\ unseen \in SUBSET event_sensors /\ (unseen # {} => sensor_dirty)
  BY DEF TypeOK, NoSensorMissed
<1>2. QED
  BY <1>1, DeliverFacts

\* A step that gives no switch a new way to go leaves the pairs opposite.
LEMMA PairsKept ==
  ASSUME PairsOpposite, UNCHANGED <<panic, entangled>>,
         \A s \in Switches, d \in {0, 1, Unknown} : Towards(s, d)' => Towards(s, d)
  PROVE  PairsOpposite'
<1>1. \A s \in Switches : Partner[s] # NoSwitch => Partner[s] \in Switches
  BY TrainServerAssumption
<1>2. QED
  BY <1>1 DEF PairsOpposite

\* What OffsFollow, PairsOpposite and AskedInPast depend on, but for the worker.
commands == <<tasks, panic, track, entangled>>

\* A step of the worker between other things than commands.
LEMMA CommandsKept ==
  ASSUME Inv, UNCHANGED commands, worker.at # "command", worker'.at # "command"
  PROVE  OffsFollow' /\ PairsOpposite'
<1> USE DEF commands
<1>1. OffsFollow'
  BY DEF Inv, OffsFollow, Held
<1>2. \A s \in Switches, d \in {0, 1, Unknown} : Towards(s, d)' => Towards(s, d)
  BY DEF Towards, Held, OnTheWay
<1>3. QED
  BY <1>1, <1>2, PairsKept DEF Inv

\* A step that is not the worker's and that adds no command.
LEMMA WorkerKept ==
  ASSUME Inv, UNCHANGED <<commands, worker>>
  PROVE  OffsFollow' /\ PairsOpposite'
<1> USE DEF commands
<1>1. OffsFollow'
  BY DEF Inv, OffsFollow, Held
<1>2. \A s \in Switches, d \in {0, 1, Unknown} : Towards(s, d)' => Towards(s, d)
  BY DEF Towards, Held, OnTheWay
<1>3. QED
  BY <1>1, <1>2, PairsKept DEF Inv

LEMMA InitInv == Init => Inv
<1> SUFFICES ASSUME Init PROVE Inv
  OBVIOUS
<1> USE TrainServerAssumption
<1>1. DOMAIN tasks = {}
  BY DEF Init
<1>2. worker \in Workers /\ worker.at = "idle"
  <2>1. 0 \in 0 .. MaxTime + 1
    OBVIOUS
  <2>2. QED
    BY <2>1, CommandFacts DEF Init, Workers
<1>3. track \in Tracks /\ track.coil = FALSE /\ \A s \in Switches : track.switch[s] = Unknown
  BY DEF Init, Tracks
<1>4. TypeOK
  <2>1. event_branch \in [Switches -> {0, 1, Unknown}]
    BY DEF Init
  <2>2. 0 \in 0 .. MaxTime /\ 0 \in 0 .. MaxRequests
    OBVIOUS
  <2>3. QED
    BY <1>1, <1>2, <1>3, <2>1, <2>2 DEF Init, TypeOK, Workers, Tracks
<1>5. OffsFollow /\ AskedInPast /\ NoSensorMissed
  BY <1>1, <1>2, <1>3 DEF Init, OffsFollow, AskedInPast, NoSensorMissed
<1>6. PairsOpposite
  <2>1. \A s \in Switches, d \in {0, 1, Unknown} : Towards(s, d) => d = Unknown
    BY <1>1, <1>2, <1>3 DEF Towards, Held
  <2>2. QED
    BY <2>1 DEF PairsOpposite, Opposite
<1>7. QED
  BY <1>4, <1>5, <1>6 DEF Inv

-----------------------------------------------------------------------------
(* The worker *)

LEMMA WorkerAsksInv == ASSUME Inv, WorkerAsks PROVE Inv'
<1> USE DEF server
<1>1. /\ worker \in Workers /\ clock \in 0 .. MaxTime /\ worker.at = "idle"
      /\ worker' = [worker EXCEPT !.at = "asking", !.time = clock]
  BY DEF Inv, TypeOK, WorkerAsks, Workers
<1>2. worker' \in Workers /\ worker'.at = "asking" /\ worker'.time = clock
  <2>1. clock \in 0 .. MaxTime + 1
    BY <1>1, TrainServerAssumption
  <2> DEFINE v == [worker EXCEPT !.at = "asking"]
  <2>2. v \in Workers /\ v.at = "asking"
    BY <1>1 DEF Workers
  <2>3. worker' = [v EXCEPT !.time = clock]
    BY <1>1
  <2> HIDE DEF v
  <2>4. QED
    BY <2>1, <2>2, <2>3 DEF Workers
<1>3. TypeOK'
  BY <1>2 DEF Inv, TypeOK, WorkerAsks, Workers
<1>4. AskedInPast' /\ NoSensorMissed'
  BY <1>1, <1>2 DEF Inv, AskedInPast, NoSensorMissed, WorkerAsks
<1>5. QED
  BY <1>1, <1>2, <1>3, <1>4, CommandsKept DEF Inv, WorkerAsks, commands

LEMMA WorkerDelayedInv == ASSUME Inv, WorkerDelayed PROVE Inv'
<1> USE DEF server
<1>1. worker \in Workers /\ worker.at = "delay" /\ worker' = [worker EXCEPT !.at = "idle"]
  BY DEF Inv, TypeOK, WorkerDelayed, Workers
<1>2. worker' \in Workers /\ worker'.at = "idle"
  BY <1>1 DEF Workers
<1>3. TypeOK'
  BY <1>2 DEF Inv, TypeOK, WorkerDelayed, Workers
<1>4. AskedInPast' /\ NoSensorMissed'
  BY <1>1, <1>2 DEF Inv, AskedInPast, NoSensorMissed, WorkerDelayed
<1>5. QED
  BY <1>1, <1>2, <1>3, <1>4, CommandsKept DEF Inv, WorkerDelayed, commands

LEMMA GiveOtherInv == ASSUME Inv, GiveOther PROVE Inv'
<1>1. worker \in Workers /\ worker.at = "asking" /\ clock + 1 \in 0 .. MaxTime + 1
  BY TrainServerAssumption DEF Inv, TypeOK, GiveOther, Workers
<1>2. worker' \in Workers /\ worker'.at \in {"poll", "delay"}
  <2>1. CASE worker' = [worker EXCEPT !.at = "poll"]
    BY <1>1, <2>1 DEF Workers
  <2>2. CASE worker' = [worker EXCEPT !.at = "delay", !.time = clock + 1]
    BY <1>1, <2>2 DEF Workers
  <2>3. QED
    BY <2>1, <2>2 DEF GiveOther
<1>3. /\ NoSensorMissed' /\ event_sensors' \subseteq Sensors /\ unseen' \subseteq Sensors
      /\ sensor_dirty' \in BOOLEAN /\ sensor_waiting' \in BOOLEAN
  BY NoNewsFacts DEF Inv, GiveOther, NoNews
<1>4. branch_dirty' \in BOOLEAN /\ branch_waiting' \in BOOLEAN
  BY DEF GiveOther, NoNews, DeliverBranches
<1>5. TypeOK'
  BY <1>2, <1>3, <1>4 DEF Inv, TypeOK, GiveOther, NoNews, Workers
<1>6. AskedInPast'
  BY <1>2 DEF AskedInPast
<1>7. QED
  BY <1>1, <1>2, <1>3, <1>5, <1>6, CommandsKept DEF Inv, GiveOther, commands

LEMMA WorkerSensorInv ==
  ASSUME Inv, NEW reading \in SUBSET Sensors, WorkerSensor(reading) PROVE Inv'
<1>1. worker \in Workers /\ worker.at = "poll" /\ worker' = [worker EXCEPT !.at = "idle"]
  BY DEF Inv, TypeOK, WorkerSensor, Workers
<1>2. worker' \in Workers /\ worker'.at = "idle"
  BY <1>1 DEF Workers
<1> DEFINE es == CameOn(event_sensors, reading \ sensors)
           sd == sensor_dirty \/ es # {}
           missed == unseen \cup (reading \ sensors)
<1>3. /\ NoSensorMissed' /\ event_sensors' \subseteq Sensors /\ unseen' \subseteq Sensors
      /\ sensor_dirty' \in BOOLEAN /\ sensor_waiting' \in BOOLEAN
  <2>1. es \in SUBSET Sensors /\ sd \in BOOLEAN /\ sensor_waiting \in BOOLEAN
    BY DEF Inv, TypeOK, CameOn
  <2>2. missed \in SUBSET es /\ (missed # {} => sd)
    BY DEF Inv, NoSensorMissed, CameOn
  <2>3. DeliverSensors(es, sd, sensor_waiting, missed)
    BY DEF WorkerSensor
  <2> HIDE DEF es, sd, missed
  <2>4. QED
    BY <2>1, <2>2, <2>3, DeliverFacts
<1>4. branch_dirty' \in BOOLEAN /\ branch_waiting' \in BOOLEAN
  BY DEF WorkerSensor, DeliverBranches
<1>5. TypeOK'
  BY <1>2, <1>3, <1>4 DEF Inv, TypeOK, WorkerSensor, Workers
<1>6. AskedInPast'
  BY <1>2 DEF AskedInPast
<1>7. QED
  BY <1>1, <1>2, <1>3, <1>5, <1>6, CommandsKept DEF Inv, WorkerSensor, commands

LEMMA GiveCommandInv == ASSUME Inv, NEW i \in Slots, GiveCommand(i) PROVE Inv'
<1> DEFINE c == tasks[i].cmd
<1>1. /\ worker.at = "asking" /\ i \in DOMAIN tasks /\ worker \in Workers
      /\ \A j \in DOMAIN tasks : tasks[i].time <= tasks[j].time
      /\ tasks[i] \in Task /\ c \in Commands
      /\ worker' = [worker EXCEPT !.at = "command", !.cmd = c]
      /\ tasks' = [j \in DOMAIN tasks \ {i} |-> tasks[j]]
      /\ UNCHANGED <<sensors, panic, clock, track, requests, entangled>>
  BY DEF Inv, TypeOK, GiveCommand, Workers, Task
<1>2. worker' \in Workers /\ worker'.at = "command" /\ worker'.cmd = c
  <2> HIDE DEF c
  <2> DEFINE v == [worker EXCEPT !.at = "command"]
  <2>1. v \in Workers /\ v.at = "command"
    BY <1>1 DEF Workers
  <2>2. worker' = [v EXCEPT !.cmd = c]
    BY <1>1
  <2> HIDE DEF v
  <2>3. QED
    BY <1>1, <2>1, <2>2 DEF Workers
<1>3. /\ DOMAIN tasks' = DOMAIN tasks \ {i}
      /\ \A j \in DOMAIN tasks' : tasks'[j] = tasks[j]
  BY <1>1
<1>4. /\ NoSensorMissed' /\ event_sensors' \subseteq Sensors /\ unseen' \subseteq Sensors
      /\ sensor_dirty' \in BOOLEAN /\ sensor_waiting' \in BOOLEAN
  BY NoNewsFacts DEF Inv, GiveCommand
<1>5. TypeOK'
  <2>1. branch_dirty' \in BOOLEAN /\ branch_waiting' \in BOOLEAN
    BY DEF GiveCommand, DeliverBranches
  <2>2. event_branch' \in [Switches -> {0, 1, Unknown}]
    <3>1. event_branch \in [Switches -> {0, 1, Unknown}]
      BY DEF Inv, TypeOK
    <3>2. CASE c.type = "SWITCH"
      BY <1>1, <3>1, <3>2, CommandFacts DEF GiveCommand
    <3>3. CASE c.type # "SWITCH"
      BY <3>1, <3>3 DEF GiveCommand
    <3>4. QED
      BY <3>2, <3>3
  <2>3. QED
    BY <1>1, <1>2, <1>3, <1>4, <2>1, <2>2 DEF Inv, TypeOK, Workers
<1>6. AskedInPast'
  BY <1>2 DEF AskedInPast
<1>7. OffsFollow'
  <2> SUFFICES ASSUME ~panic
               PROVE  /\ track.coil \/ c.type = "SWITCH" =>
                           c = Off \/ \E j \in DOMAIN tasks' : tasks'[j].cmd = Off
                      /\ \A k \in DOMAIN tasks' : tasks'[k].cmd.type = "SWITCH" =>
                           \E j \in DOMAIN tasks' : tasks'[j].cmd = Off
                                                    /\ tasks'[k].time < tasks'[j].time
    BY <1>1, <1>2 DEF OffsFollow, Held
  <2>1. /\ track.coil => \E j \in DOMAIN tasks : tasks[j].cmd = Off
        /\ \A k \in DOMAIN tasks : tasks[k].cmd.type = "SWITCH" =>
             \E j \in DOMAIN tasks : tasks[j].cmd = Off /\ tasks[k].time < tasks[j].time
    BY <1>1 DEF Inv, OffsFollow, Held
  <2>2. \A k \in DOMAIN tasks : tasks[k].time \in Nat
    BY DEF Inv, TypeOK, Task
  <2>3. ASSUME NEW k \in DOMAIN tasks, tasks[k].cmd.type = "SWITCH"
        PROVE  \E j \in DOMAIN tasks' : tasks'[j].cmd = Off /\ tasks[k].time < tasks'[j].time
    <3>1. PICK j \in DOMAIN tasks : tasks[j].cmd = Off /\ tasks[k].time < tasks[j].time
      BY <2>1, <2>3
    <3>2. j # i
      BY <1>1, <2>2, <3>1
    <3>3. j \in DOMAIN tasks' /\ tasks'[j] = tasks[j]
      BY <1>3, <3>1, <3>2
    <3>4. QED
      BY <3>1, <3>3
  <2>4. CASE c.type = "SWITCH"
    BY <1>1, <1>3, <2>3, <2>4
  <2>5. CASE c.type # "SWITCH"
    BY <1>1, <1>3, <2>1, <2>3, <2>5
  <2>6. QED
    BY <2>4, <2>5
<1>8. PairsOpposite'
  <2>1. ASSUME NEW s \in Switches, NEW d \in {0, 1, Unknown}, Towards(s, d)'
        PROVE  Towards(s, d)
    <3>1. OnTheWay(s) => OnTheWay(s)'
      BY <1>1, <1>2, <1>3 DEF OnTheWay
    <3>2. Held(SwitchCmd(s, d))' => c = SwitchCmd(s, d)
      BY <1>2 DEF Held, SwitchCmd
    <3>3. (\E j \in DOMAIN tasks' : tasks'[j].cmd = SwitchCmd(s, d)) =>
             \E j \in DOMAIN tasks : tasks[j].cmd = SwitchCmd(s, d)
      BY <1>3
    <3>4. SwitchCmd(s, d)' = SwitchCmd(s, d)
      BY DEF SwitchCmd
    <3>5. QED
      BY <1>1, <2>1, <3>1, <3>2, <3>3, <3>4 DEF Towards
  <2>2. QED
    BY <1>1, <2>1, PairsKept DEF Inv
<1>9. QED
  BY <1>4, <1>5, <1>6, <1>7, <1>8 DEF Inv

LEMMA WorkerSendsInv == ASSUME Inv, WorkerSends PROVE Inv'
<1> USE DEF server
<1> DEFINE c == worker.cmd
<1>1. /\ worker.at = "command" /\ worker \in Workers /\ c \in Commands
      /\ worker' = [worker EXCEPT !.at = "idle", !.cmd = Off]
      /\ track \in Tracks
      /\ UNCHANGED <<tasks, panic, entangled>>
  BY DEF Inv, TypeOK, WorkerSends, Workers, Tracks
<1>2. worker' \in Workers /\ worker'.at = "idle"
  <2> DEFINE v == [worker EXCEPT !.at = "idle"]
  <2>1. v \in Workers /\ v.at = "idle"
    BY <1>1 DEF Workers
  <2>2. worker' = [v EXCEPT !.cmd = Off]
    BY <1>1
  <2> HIDE DEF v
  <2>3. QED
    BY <2>1, <2>2, CommandFacts DEF Workers
<1>3. \/ /\ c.type = "SWITCH"
         /\ track' = [switch |-> [track.switch EXCEPT ![c.target] = c.data], coil |-> TRUE]
      \/ /\ c.type = "OFF" /\ c = Off
         /\ track' = [track EXCEPT !.coil = FALSE]
      \/ c.type = "SPEED" /\ track' = track
  BY <1>1, CommandFacts DEF WorkerSends
<1>4. /\ track' \in Tracks
      /\ track'.coil => c.type = "SWITCH" \/ (track.coil /\ c # Off)
      /\ c.type # "SWITCH" => track'.switch = track.switch
      /\ c.type = "SWITCH" =>
           track'.switch[c.target] = c.data
           /\ \A s \in Switches \ {c.target} : track'.switch[s] = track.switch[s]
  <2> HIDE DEF c
  <2>1. CASE /\ c.type = "SWITCH"
             /\ track' = [switch |-> [track.switch EXCEPT ![c.target] = c.data], coil |-> TRUE]
    <3> DEFINE sw == [track.switch EXCEPT ![c.target] = c.data]
    <3>1. c.target \in Switches /\ c.data \in {0, 1}
      BY <1>1, <2>1, CommandFacts
    <3>2. /\ sw \in [Switches -> {0, 1, Unknown}] /\ sw[c.target] = c.data
          /\ \A s \in Switches \ {c.target} : sw[s] = track.switch[s]
      BY <1>1, <3>1 DEF Tracks
    <3>3. track' = [switch |-> sw, coil |-> TRUE]
      BY <2>1
    <3> HIDE DEF sw
    <3>4. track' \in Tracks /\ track'.switch = sw
      BY <3>2, <3>3 DEF Tracks
    <3>5. QED
      BY <2>1, <3>2, <3>4
  <2>2. CASE c.type = "OFF" /\ track' = [track EXCEPT !.coil = FALSE]
    BY <1>1, <2>2 DEF Tracks
  <2>3. CASE c.type = "SPEED" /\ track' = track
    <3>1. c # Off
      BY <2>3, CommandFacts
    <3>2. QED
      BY <1>1, <2>3, <3>1
  <2>4. QED
    BY <1>3, <2>1, <2>2, <2>3
<1>5. TypeOK'
  BY <1>2, <1>4 DEF Inv, TypeOK, WorkerSends, Workers, Tracks
<1>6. AskedInPast' /\ NoSensorMissed'
  BY <1>2 DEF Inv, AskedInPast, NoSensorMissed, WorkerSends
<1>7. OffsFollow'
  <2>1. c.type = "SWITCH" => c # Off
    BY CommandFacts
  <2>2. QED
    BY <1>1, <1>2, <1>4, <2>1 DEF Inv, OffsFollow, Held
<1>8. PairsOpposite'
  <2>1. ASSUME NEW s \in Switches, NEW d \in {0, 1, Unknown}, Towards(s, d)'
        PROVE  Towards(s, d)
    <3>1. SwitchCmd(s, d)' = SwitchCmd(s, d) /\ ~Held(SwitchCmd(s, d))'
      BY <1>2 DEF SwitchCmd, Held
    <3>2. CASE \E j \in DOMAIN tasks : tasks[j].cmd = SwitchCmd(s, d)
      BY <3>2 DEF Towards
    <3>3. CASE ~OnTheWay(s)' /\ track'.switch[s] = d
      <4>1. CASE c.type = "SWITCH" /\ c.target = s
        <5>1. c = SwitchCmd(s, d)
          BY <1>1, <1>4, <3>3, <4>1, CommandFacts
        <5>2. QED
          BY <1>1, <5>1 DEF Towards, Held
      <4>2. CASE ~(c.type = "SWITCH" /\ c.target = s)
        <5>1. ~OnTheWay(s)
          BY <1>1, <3>3, <4>2 DEF OnTheWay
        <5>2. track.switch[s] = d
          BY <1>4, <3>3, <4>2
        <5>3. QED
          BY <5>1, <5>2 DEF Towards
      <4>3. QED
        BY <4>1, <4>2
    <3>4. QED
      BY <1>1, <2>1, <3>1, <3>2, <3>3 DEF Towards
  <2>2. QED
    BY <1>1, <2>1, PairsKept DEF Inv
<1>9. QED
  BY <1>5, <1>6, <1>7, <1>8 DEF Inv

-----------------------------------------------------------------------------
(* The others *)

LEMMA SensorEventInv == ASSUME Inv, SensorEvent PROVE Inv'
<1>1. /\ NoSensorMissed' /\ event_sensors' \subseteq Sensors /\ unseen' \subseteq Sensors
      /\ sensor_dirty' \in BOOLEAN /\ sensor_waiting' \in BOOLEAN
  <2>1. /\ event_sensors \in SUBSET Sensors /\ sensor_dirty \in BOOLEAN
        /\ unseen \in SUBSET event_sensors /\ (unseen # {} => sensor_dirty)
    BY DEF Inv, TypeOK, NoSensorMissed
  <2> DEFINE waiting == TRUE
  <2>2. DeliverSensors(event_sensors, sensor_dirty, waiting, unseen) /\ waiting \in BOOLEAN
    BY DEF SensorEvent
  <2> HIDE DEF waiting
  <2>3. QED
    BY <2>1, <2>2, DeliverFacts
<1>2. TypeOK'
  <2>1. branch_dirty' \in BOOLEAN /\ branch_waiting' \in BOOLEAN
    BY DEF SensorEvent, DeliverBranches
  <2>2. QED
    BY <1>1, <2>1 DEF Inv, TypeOK, SensorEvent
<1>3. AskedInPast'
  BY DEF Inv, AskedInPast, SensorEvent
<1>4. QED
  BY <1>1, <1>2, <1>3, WorkerKept DEF Inv, SensorEvent, commands

LEMMA BranchEventInv == ASSUME Inv, BranchEvent PROVE Inv'
<1>1. /\ NoSensorMissed' /\ event_sensors' \subseteq Sensors /\ unseen' \subseteq Sensors
      /\ sensor_dirty' \in BOOLEAN /\ sensor_waiting' \in BOOLEAN
  BY NoNewsFacts DEF Inv, BranchEvent
<1>2. TypeOK'
  <2>1. branch_dirty' \in BOOLEAN /\ branch_waiting' \in BOOLEAN
    BY DEF BranchEvent, DeliverBranches
  <2>2. QED
    BY <1>1, <2>1 DEF Inv, TypeOK, BranchEvent
<1>3. AskedInPast'
  BY DEF Inv, AskedInPast, BranchEvent
<1>4. QED
  BY <1>1, <1>2, <1>3, WorkerKept DEF Inv, BranchEvent, commands

LEMMA TickInv == ASSUME Inv, Tick PROVE Inv'
<1> USE DEF server
<1>1. clock \in 0 .. MaxTime /\ clock' = clock + 1 /\ clock' \in 0 .. MaxTime
  BY TrainServerAssumption DEF Inv, TypeOK, Tick
<1>2. TypeOK' /\ NoSensorMissed'
  BY <1>1 DEF Inv, TypeOK, NoSensorMissed, Tick
<1>3. AskedInPast'
  BY <1>1, TrainServerAssumption DEF Inv, TypeOK, AskedInPast, Tick
<1>4. QED
  BY <1>2, <1>3, WorkerKept DEF Inv, Tick, commands

LEMMA StutterInv == ASSUME Inv, UNCHANGED vars PROVE Inv'
<1> USE DEF vars, server
<1>1. TypeOK' /\ NoSensorMissed' /\ AskedInPast'
  BY DEF Inv, TypeOK, NoSensorMissed, AskedInPast
<1>2. QED
  BY <1>1, WorkerKept DEF Inv, commands

-----------------------------------------------------------------------------
(* Requests for commands *)

\* What all requests keep that add, behind each switch's command, one to turn the
\* solenoids off.
LEMMA RequestFacts ==
  ASSUME Inv, NEW new \in Seq(Task), Request(new), entangled' \subseteq Switches,
         \A k \in 1 .. Len(new) : new[k].cmd.type = "SWITCH" =>
           \E m \in 1 .. Len(new) : new[m].cmd = Off /\ new[k].time < new[m].time
  PROVE  /\ TypeOK' /\ OffsFollow' /\ AskedInPast' /\ NoSensorMissed'
         /\ panic' \/ /\ ~panic /\ ~panic'
                      /\ \A i \in DOMAIN tasks : i \in DOMAIN tasks' /\ tasks'[i] = tasks[i]
                      /\ \A i \in DOMAIN tasks' :
                           \/ i \in DOMAIN tasks /\ tasks'[i] = tasks[i]
                           \/ \E k \in 1 .. Len(new) : tasks'[i] = new[k]
                      /\ \A k \in 1 .. Len(new) : \E i \in DOMAIN tasks' : tasks'[i] = new[k]
<1>1. /\ ~panic /\ requests < MaxRequests /\ requests' = requests + 1
      /\ Build(new)
      /\ UNCHANGED <<clock, worker, track, sensors, event_branch>>
      /\ DeliverSensors(event_sensors, sensor_dirty, sensor_waiting, unseen)
      /\ DeliverBranches(branch_dirty, branch_waiting)
  BY DEF Request, NoNews
<1>2. /\ NoSensorMissed' /\ event_sensors' \subseteq Sensors /\ unseen' \subseteq Sensors
      /\ sensor_dirty' \in BOOLEAN /\ sensor_waiting' \in BOOLEAN
  BY <1>1, NoNewsFacts DEF Inv
<1>3. branch_dirty' \in BOOLEAN /\ branch_waiting' \in BOOLEAN
  BY <1>1 DEF DeliverBranches
<1>4. requests' \in 0 .. MaxRequests
  BY <1>1, TrainServerAssumption DEF Inv, TypeOK
<1>5. AskedInPast'
  BY <1>1 DEF Inv, AskedInPast
<1>6. \A k \in 1 .. Len(new) : new[k] \in Task
  OBVIOUS
<1>7. \/ panic' = TRUE /\ tasks' = tasks
      \/ /\ panic' = FALSE
         /\ DOMAIN tasks \subseteq DOMAIN tasks' /\ DOMAIN tasks' \subseteq Slots
         /\ \A i \in DOMAIN tasks : tasks'[i] = tasks[i]
         /\ \A i \in DOMAIN tasks' \ DOMAIN tasks : \E k \in 1 .. Len(new) : tasks'[i] = new[k]
         /\ \A k \in 1 .. Len(new) : \E i \in DOMAIN tasks' : tasks'[i] = new[k]
  BY <1>1, BuildFacts DEF Inv
<1>8. /\ DOMAIN tasks' \subseteq Slots /\ \A i \in DOMAIN tasks' : tasks'[i] \in Task
      /\ panic' \in BOOLEAN
  BY <1>6, <1>7 DEF Inv, TypeOK
<1>9. TypeOK'
  BY <1>1, <1>2, <1>3, <1>4, <1>8 DEF Inv, TypeOK
<1>10. CASE panic' = TRUE
  BY <1>2, <1>5, <1>9, <1>10 DEF OffsFollow
<1>11. CASE panic' = FALSE
  <2>1. /\ \A i \in DOMAIN tasks : i \in DOMAIN tasks' /\ tasks'[i] = tasks[i]
        /\ \A i \in DOMAIN tasks' :
             \/ i \in DOMAIN tasks /\ tasks'[i] = tasks[i]
             \/ \E k \in 1 .. Len(new) : tasks'[i] = new[k]
        /\ \A k \in 1 .. Len(new) : \E i \in DOMAIN tasks' : tasks'[i] = new[k]
    BY <1>7, <1>11
  <2>2. /\ track.coil \/ (worker.at = "command" /\ worker.cmd.type = "SWITCH") =>
             Held(Off) \/ \E i \in DOMAIN tasks : tasks[i].cmd = Off
        /\ \A i \in DOMAIN tasks : tasks[i].cmd.type = "SWITCH" =>
             \E j \in DOMAIN tasks : tasks[j].cmd = Off /\ tasks[i].time < tasks[j].time
    BY <1>1 DEF Inv, OffsFollow
  <2>3. track'.coil \/ (worker'.at = "command" /\ worker'.cmd.type = "SWITCH") =>
             Held(Off)' \/ \E i \in DOMAIN tasks' : tasks'[i].cmd = Off
    BY <1>1, <2>1, <2>2 DEF Held, Off
  <2>4. ASSUME NEW i \in DOMAIN tasks', tasks'[i].cmd.type = "SWITCH"
        PROVE  \E j \in DOMAIN tasks' : tasks'[j].cmd = Off /\ tasks'[i].time < tasks'[j].time
    <3>1. CASE i \in DOMAIN tasks /\ tasks'[i] = tasks[i]
      <4>1. PICK j \in DOMAIN tasks : tasks[j].cmd = Off /\ tasks[i].time < tasks[j].time
        BY <2>2, <2>4, <3>1
      <4>2. QED
        BY <2>1, <3>1, <4>1
    <3>2. CASE \E k \in 1 .. Len(new) : tasks'[i] = new[k]
      <4>1. PICK k \in 1 .. Len(new) : tasks'[i] = new[k]
        BY <3>2
      <4>2. PICK m \in 1 .. Len(new) : new[m].cmd = Off /\ new[k].time < new[m].time
        BY <2>4, <4>1
      <4>3. PICK j \in DOMAIN tasks' : tasks'[j] = new[m]
        BY <2>1
      <4>4. QED
        BY <4>1, <4>2, <4>3
    <3>3. QED
      BY <2>1, <3>1, <3>2
  <2>5. Off' = Off
    BY DEF Off
  <2>6. OffsFollow'
    BY <2>3, <2>4, <2>5 DEF OffsFollow
  <2>7. QED
    BY <1>1, <1>2, <1>5, <1>9, <1>11, <2>1, <2>6
<1>12. QED
  BY <1>7, <1>10, <1>11

\* A request for nothing that sets switch s.
LEMMA TowardsKept ==
  ASSUME NEW new \in Seq(Task), NEW s \in Switches, NEW d \in {0, 1, Unknown},
         UNCHANGED <<worker, track>>,
         \A i \in DOMAIN tasks : i \in DOMAIN tasks' /\ tasks'[i] = tasks[i],
         \A i \in DOMAIN tasks' : \/ i \in DOMAIN tasks /\ tasks'[i] = tasks[i]
                                  \/ \E k \in 1 .. Len(new) : tasks'[i] = new[k],
         \A k \in 1 .. Len(new) : ~(new[k].cmd.type = "SWITCH" /\ new[k].cmd.target = s),
         Towards(s, d)'
  PROVE  Towards(s, d)
<1>1. SwitchCmd(s, d)' = SwitchCmd(s, d)
  BY DEF SwitchCmd
<1>2. (Held(SwitchCmd(s, d)) \equiv Held(SwitchCmd(s, d))') /\ (OnTheWay(s) => OnTheWay(s)')
  BY <1>1 DEF Held, OnTheWay
<1>3. (\E i \in DOMAIN tasks' : tasks'[i].cmd = SwitchCmd(s, d)) =>
         \E i \in DOMAIN tasks : tasks[i].cmd = SwitchCmd(s, d)
  BY CommandFacts
<1>4. QED
  BY <1>1, <1>2, <1>3 DEF Towards

LEMMA SpeedInv ==
  ASSUME Inv, NEW new \in Seq(Task), Request(new), UNCHANGED entangled,
         \A k \in 1 .. Len(new) : new[k].cmd.type = "SPEED"
  PROVE  Inv'
<1>1. entangled' \subseteq Switches
  BY DEF Inv, TypeOK
<1>2. \A k \in 1 .. Len(new) : new[k].cmd.type # "SWITCH"
  OBVIOUS
<1>3. /\ TypeOK' /\ OffsFollow' /\ AskedInPast' /\ NoSensorMissed'
      /\ panic' \/ /\ ~panic /\ ~panic'
                   /\ \A i \in DOMAIN tasks : i \in DOMAIN tasks' /\ tasks'[i] = tasks[i]
                   /\ \A i \in DOMAIN tasks' :
                        \/ i \in DOMAIN tasks /\ tasks'[i] = tasks[i]
                        \/ \E k \in 1 .. Len(new) : tasks'[i] = new[k]
  BY <1>1, <1>2, RequestFacts
<1>4. UNCHANGED <<worker, track>>
  BY DEF Request
<1>5. CASE panic'
  BY <1>3, <1>5 DEF PairsOpposite, Inv
<1>6. CASE ~panic'
  <2>1. \A s \in Switches, d \in {0, 1, Unknown} : Towards(s, d)' => Towards(s, d)
    BY <1>2, <1>3, <1>4, <1>6, TowardsKept
  <2>2. panic' = panic
    BY <1>3, <1>6 DEF Inv, TypeOK
  <2>3. QED
    BY <1>3, <2>1, <2>2, PairsKept DEF Inv
<1>7. QED
  BY <1>5, <1>6

\* The commands of a SWITCH request.
LEMMA SwitchTasksFacts ==
  ASSUME NEW s \in Switches, NEW d \in {0, 1}, NEW time \in Nat
  PROVE  LET new == SwitchTasks(s, d, time)
         IN  /\ new \in Seq(Task)
             /\ \A k \in 1 .. Len(new) :
                  \/ new[k].cmd = Off \/ new[k].cmd = SwitchCmd(s, d)
                  \/ Partner[s] # NoSwitch /\ new[k].cmd = SwitchCmd(Partner[s], 1 - d)
             /\ \A k \in 1 .. Len(new) : new[k].cmd.type = "SWITCH" =>
                  \E m \in 1 .. Len(new) : new[m].cmd = Off /\ new[k].time < new[m].time
             /\ \E k \in 1 .. Len(new) : new[k].cmd = SwitchCmd(s, d)
             /\ Partner[s] # NoSwitch =>
                  \E k \in 1 .. Len(new) : new[k].cmd = SwitchCmd(Partner[s], 1 - d)
<1>1. SwitchTime \in Nat /\ SwitchTime > 0
  BY TrainServerAssumption
<1> DEFINE c == SwitchCmd(s, d)
           e == SwitchCmd(Partner[s], 1 - d)
<1>2. /\ c \in Commands /\ Off \in Commands /\ Off.type # "SWITCH"
      /\ Partner[s] # NoSwitch => e \in Commands
  <2>1. Partner[s] # NoSwitch => Partner[s] \in Switches
    BY TrainServerAssumption
  <2>2. 1 - d \in {0, 1}
    OBVIOUS
  <2>3. QED
    BY <2>1, <2>2, CommandFacts
<1> DEFINE T(i, cmd) == At(time + i * SwitchTime, cmd)
<1>3. \A cmd \in Commands : At(time, cmd) \in Task /\ At(time, cmd).cmd = cmd
        /\ At(time, cmd).time = time
  BY DEF At, Task
<1>4. \A cmd \in Commands : LET a == At(time + SwitchTime, cmd)
        IN  a \in Task /\ a.cmd = cmd /\ a.time = time + SwitchTime
  BY <1>1 DEF At, Task
<1>5. \A cmd \in Commands : LET a == At(time + 2 * SwitchTime, cmd)
        IN  a \in Task /\ a.cmd = cmd /\ a.time = time + 2 * SwitchTime
  BY <1>1 DEF At, Task
<1> HIDE DEF c, e
<1>6. CASE Partner[s] = NoSwitch
  <2> DEFINE x == At(time, c)
             y == At(time + SwitchTime, Off)
             new == <<x, y>>
  <2>1. x \in Task /\ x.cmd = c /\ y \in Task /\ y.cmd = Off /\ x.time < y.time
    BY <1>1, <1>2, <1>3, <1>4
  <2>2. SwitchTasks(s, d, time) = new
    BY <1>6 DEF SwitchTasks, c
  <2> HIDE DEF x, y
  <2>3. new \in Seq(Task) /\ Len(new) = 2 /\ new[1] = x /\ new[2] = y /\ 1 .. 2 = {1, 2}
    BY <2>1
  <2> HIDE DEF new
  <2>4. QED
    BY <1>2, <1>6, <2>1, <2>2, <2>3 DEF c
<1>7. CASE Partner[s] # NoSwitch
  <2> DEFINE x == At(time, c)
             y == At(time + SwitchTime, e)
             z == At(time + 2 * SwitchTime, Off)
             new == <<x, y, z>>
  <2>1. /\ x \in Task /\ x.cmd = c /\ y \in Task /\ y.cmd = e /\ z \in Task /\ z.cmd = Off
        /\ x.time < z.time /\ y.time < z.time
    BY <1>1, <1>2, <1>3, <1>4, <1>5, <1>7
  <2>2. SwitchTasks(s, d, time) = new
    BY <1>7 DEF SwitchTasks, c, e
  <2> HIDE DEF x, y, z
  <2>3. /\ new \in Seq(Task) /\ Len(new) = 3 /\ new[1] = x /\ new[2] = y /\ new[3] = z
        /\ 1 .. 3 = {1, 2, 3}
    BY <2>1
  <2> HIDE DEF new
  <2>4. QED
    BY <1>2, <1>7, <2>1, <2>2, <2>3 DEF c, e
<1>8. QED
  BY <1>6, <1>7

LEMMA SwitchInv ==
  ASSUME Inv, NEW s \in Switches, NEW d \in {0, 1}, NEW time \in Times, Switch(s, d, time)
  PROVE  Inv'
<1> DEFINE new == SwitchTasks(s, d, time)
           way(r) == IF r = s THEN d ELSE 1 - d
<1>1. time \in Nat
  BY TrainServerAssumption DEF Times, Inv, TypeOK
<1>2. /\ new \in Seq(Task)
      /\ \A k \in 1 .. Len(new) :
           \/ new[k].cmd = Off \/ new[k].cmd = SwitchCmd(s, d)
           \/ Partner[s] # NoSwitch /\ new[k].cmd = SwitchCmd(Partner[s], 1 - d)
      /\ \A k \in 1 .. Len(new) : new[k].cmd.type = "SWITCH" =>
           \E m \in 1 .. Len(new) : new[m].cmd = Off /\ new[k].time < new[m].time
      /\ \E k \in 1 .. Len(new) : new[k].cmd = SwitchCmd(s, d)
      /\ Partner[s] # NoSwitch =>
           \E k \in 1 .. Len(new) : new[k].cmd = SwitchCmd(Partner[s], 1 - d)
  BY <1>1, SwitchTasksFacts
<1>3. /\ Request(new) /\ UNCHANGED <<worker, track>>
      /\ entangled' = IF \E p \in Pair(s) : OnTheWay(p) THEN entangled \cup Pair(s)
                      ELSE entangled \ Pair(s)
  BY DEF Switch, Request
<1>4. \A r \in Switches : Partner[r] # NoSwitch =>
        Partner[r] \in Switches /\ Partner[r] # r /\ Partner[Partner[r]] = r
  BY TrainServerAssumption
<1>5. Pair(s) \subseteq Switches
  BY <1>4, TrainServerAssumption DEF Pair
<1>6. entangled' \subseteq Switches
  BY <1>3, <1>5 DEF Inv, TypeOK
<1> HIDE DEF new
<1>7. /\ TypeOK' /\ OffsFollow' /\ AskedInPast' /\ NoSensorMissed'
      /\ panic' \/ /\ ~panic /\ ~panic'
                   /\ \A i \in DOMAIN tasks : i \in DOMAIN tasks' /\ tasks'[i] = tasks[i]
                   /\ \A i \in DOMAIN tasks' :
                        \/ i \in DOMAIN tasks /\ tasks'[i] = tasks[i]
                        \/ \E k \in 1 .. Len(new) : tasks'[i] = new[k]
                   /\ \A k \in 1 .. Len(new) : \E i \in DOMAIN tasks' : tasks'[i] = new[k]
  BY <1>2, <1>3, <1>6, RequestFacts
<1>8. CASE panic'
  BY <1>7, <1>8 DEF PairsOpposite, Inv
<1>9. CASE ~panic'
  \* Only the switch and its partner are set by the new commands.
  <2>1. ASSUME NEW r \in Switches, r \notin Pair(s), NEW x \in {0, 1, Unknown}, Towards(r, x)'
        PROVE  Towards(r, x)
    <3>1. \A k \in 1 .. Len(new) : ~(new[k].cmd.type = "SWITCH" /\ new[k].cmd.target = r)
      <4>1. r # s /\ (Partner[s] # NoSwitch => r # Partner[s])
        BY <2>1, TrainServerAssumption DEF Pair
      <4>2. QED
        BY <1>2, <4>1, CommandFacts
    <3>2. QED
      BY <1>2, <1>3, <1>7, <1>9, <2>1, <3>1, TowardsKept
  \* If no other commands are under way to the pair, the new ones decide where it turns.
  <2>2. ASSUME NEW r \in Pair(s), \A p \in Pair(s) : ~OnTheWay(p),
               NEW x \in {0, 1, Unknown}, Towards(r, x)'
        PROVE  x = way(r)
    <3>1. r \in Switches /\ (r = s \/ (Partner[s] # NoSwitch /\ r = Partner[s] /\ r # s))
      BY <1>4, <1>5 DEF Pair
    <3>2. ~OnTheWay(r)
      BY <2>2
    <3>3. SwitchCmd(r, x)' = SwitchCmd(r, x)
      BY DEF SwitchCmd
    <3>4. OnTheWay(r)'
      <4>1. PICK k \in 1 .. Len(new) : new[k].cmd = SwitchCmd(r, way(r))
        BY <1>2, <3>1
      <4>2. PICK i \in DOMAIN tasks' : tasks'[i] = new[k]
        BY <1>7, <1>9
      <4>3. new[k].cmd.type = "SWITCH" /\ new[k].cmd.target = r
        BY <4>1, CommandFacts
      <4>4. QED
        BY <4>2, <4>3 DEF OnTheWay
    <3>5. ~Held(SwitchCmd(r, x))'
      BY <1>3, <3>2, <3>3, CommandFacts DEF Held, OnTheWay
    <3>6. PICK i \in DOMAIN tasks' : tasks'[i].cmd = SwitchCmd(r, x)
      BY <2>2, <3>3, <3>4, <3>5 DEF Towards
    <3>7. ~(i \in DOMAIN tasks /\ tasks'[i] = tasks[i])
      BY <3>2, <3>6, CommandFacts DEF OnTheWay
    <3>8. PICK k \in 1 .. Len(new) : new[k].cmd = SwitchCmd(r, x)
      BY <1>7, <1>9, <3>6, <3>7
    <3>9. new[k].cmd.type = "SWITCH" /\ new[k].cmd.target = r /\ new[k].cmd.data = x
      BY <3>8, CommandFacts
    <3>10. \/ r = s /\ x = d
           \/ Partner[s] # NoSwitch /\ r = Partner[s] /\ x = 1 - d
      BY <1>2, <3>9, CommandFacts
    <3>11. Partner[s] # NoSwitch => Partner[s] # s
      BY <1>4
    <3>12. QED
      BY <3>10, <3>11
  <2>3. ASSUME NEW r \in Switches, r \notin entangled', Partner[r] # NoSwitch,
               NEW x \in {0, 1, Unknown}, NEW y \in {0, 1, Unknown},
               Towards(r, x)', Towards(Partner[r], y)'
        PROVE  Opposite(x, y)
    <3>1. Partner[r] \in Switches /\ Partner[r] # r /\ Partner[Partner[r]] = r
      BY <1>4, <2>3
    <3>2. CASE r \notin Pair(s)
      <4>1. Partner[r] \notin Pair(s)
        <5>1. r # s /\ r # Partner[s]
          BY <3>2, TrainServerAssumption DEF Pair
        <5>2. Partner[r] # s /\ (Partner[s] # NoSwitch => Partner[r] # Partner[s])
          BY <1>4, <3>1, <5>1
        <5>3. QED
          BY <2>3, <5>2 DEF Pair
      <4>2. Towards(r, x) /\ Towards(Partner[r], y)
        BY <2>1, <2>3, <3>1, <3>2, <4>1
      <4>3. r \notin entangled
        BY <1>3, <2>3, <3>2
      <4>4. QED
        BY <1>7, <1>9, <2>3, <4>2, <4>3 DEF Inv, PairsOpposite
    <3>3. CASE r \in Pair(s)
      <4>1. \A p \in Pair(s) : ~OnTheWay(p)
        BY <1>3, <2>3, <3>3
      <4>2. Partner[r] \in Pair(s) /\ (r = s \/ Partner[r] = s)
        BY <1>4, <2>3, <3>1, <3>3, TrainServerAssumption DEF Pair
      <4>3. x = way(r) /\ y = way(Partner[r])
        BY <2>2, <2>3, <3>3, <4>1, <4>2
      <4>4. QED
        BY <3>1, <4>2, <4>3 DEF Opposite
    <3>4. QED
      BY <3>2, <3>3
  <2>4. QED
    BY <1>7, <2>3 DEF Inv, PairsOpposite, Opposite
<1>10. QED
  BY <1>8, <1>9

-----------------------------------------------------------------------------
LEMMA NextInv == Inv /\ [Next]_vars => Inv'
<1> SUFFICES ASSUME Inv, [Next]_vars PROVE Inv'
  OBVIOUS
<1>1. \A time \in Times : time \in Nat
  BY TrainServerAssumption DEF Times, Inv, TypeOK
<1>2. ASSUME NEW t \in Trains, NEW time \in Times, Speed(t, 0, time) PROVE Inv'
  <2> DEFINE x == At(time, SpeedCmd(t, 0))
             new == <<x>>
  <2>1. x \in Task /\ x.cmd.type = "SPEED"
    BY <1>1, CommandFacts DEF At, Task
  <2>2. Request(new) /\ UNCHANGED entangled
    BY <1>2 DEF Speed
  <2> HIDE DEF x
  <2>3. new \in Seq(Task) /\ \A k \in 1 .. Len(new) : new[k].cmd.type = "SPEED"
    BY <2>1
  <2> HIDE DEF new
  <2>4. QED
    BY <2>2, <2>3, SpeedInv
<1>3. ASSUME NEW t \in Trains, NEW time \in Times, Reverse(t, 1, time) PROVE Inv'
  <2> DEFINE x == At(time, SpeedCmd(t, 0))
             y == At(time + StopTime, SpeedCmd(t, 15))
             z == At(time + FlipTime, SpeedCmd(t, 1))
             new == <<x, y, z>>
  <2>1. /\ x \in Task /\ x.cmd.type = "SPEED" /\ y \in Task /\ y.cmd.type = "SPEED"
        /\ z \in Task /\ z.cmd.type = "SPEED"
    <3>1. time + StopTime \in Nat /\ time + FlipTime \in Nat
      BY <1>1, TrainServerAssumption
    <3>2. QED
      BY <1>1, <3>1, CommandFacts DEF At, Task
  <2>2. Request(new) /\ UNCHANGED entangled
    BY <1>3 DEF Reverse
  <2> HIDE DEF x, y, z
  <2>3. new \in Seq(Task) /\ \A k \in 1 .. Len(new) : new[k].cmd.type = "SPEED"
    BY <2>1
  <2> HIDE DEF new
  <2>4. QED
    BY <2>2, <2>3, SpeedInv
<1>4. ASSUME NEW s \in Switches, NEW d \in {0, 1}, NEW time \in Times, Switch(s, d, time)
      PROVE  Inv'
  BY <1>4, SwitchInv
<1>5. CASE Worker
  BY <1>5, WorkerAsksInv, GiveCommandInv, GiveOtherInv, WorkerSendsInv, WorkerDelayedInv,
     WorkerSensorInv DEF Worker
<1>6. CASE SensorEvent \/ BranchEvent \/ Tick
  BY <1>6, SensorEventInv, BranchEventInv, TickInv
<1>7. CASE UNCHANGED vars
  BY <1>7, StutterInv
<1>8. QED
  BY <1>2, <1>3, <1>4, <1>5, <1>6, <1>7 DEF Next

LEMMA SpecInv == Spec => []Inv
<1>1. QED
  BY InitInv, NextInv, PTL DEF Spec

\* The variables of the train server, its worker and the track keep their types.
THEOREM TrainServerTypeCorrect == Spec => []TypeOK
<1>1. Inv => TypeOK
  BY DEF Inv
<1>2. QED
  BY <1>1, SpecInv, PTL

\* However many SWITCH requests are mixed, for whatever times, behind every command that
\* switches a solenoid on comes one that switches the solenoids off: heap_peek gives none
\* out before an earlier one.
THEOREM SolenoidsSwitchedOff == Spec => []SolenoidsOff
<1>1. Inv => SolenoidsOff
  BY DEF Inv, OffsFollow, SolenoidsOff, Held
<1>2. QED
  BY <1>1, SpecInv, PTL

\* No sensor that came on is lost between the polls and the sensor courier, because
\* event.sensors gathers them until they have been sent.
THEOREM SensorsGathered == Spec => []NoSensorMissed
<1>1. Inv => NoSensorMissed
  BY DEF Inv
<1>2. QED
  BY <1>1, SpecInv, PTL

\* The two switches of a crossing end up opposite, in whatever order the heap gives out
\* their commands, unless one was asked for while commands for the pair were waiting.
THEOREM CrossingsKeptOpposite == Spec => []CrossingsOpposite
<1>1. Inv => CrossingsOpposite
  <2> SUFFICES ASSUME Inv, NEW s \in Switches, Partner[s] # NoSwitch, s \notin entangled, ~panic,
                      track.switch[s] # Unknown, \A p \in Pair(s) : ~OnTheWay(p)
               PROVE  track.switch[s] # track.switch[Partner[s]]
    BY DEF CrossingsOpposite
  <2>1. Partner[s] \in Switches /\ s \in Pair(s) /\ Partner[s] \in Pair(s)
    BY TrainServerAssumption DEF Pair
  <2>2. track.switch[s] \in {0, 1, Unknown} /\ track.switch[Partner[s]] \in {0, 1, Unknown}
    BY <2>1 DEF Inv, TypeOK
  <2>3. Towards(s, track.switch[s]) /\ Towards(Partner[s], track.switch[Partner[s]])
    BY <2>1 DEF Towards
  <2>4. Opposite(track.switch[s], track.switch[Partner[s]])
    BY <2>2, <2>3 DEF Inv, PairsOpposite
  <2>5. QED
    BY <2>2, <2>4 DEF Opposite
<1>2. QED
  BY <1>1, SpecInv, PTL

\* A command leaves the heap only once the clock has reached its time, although the
\* server compares it with a time that the worker read earlier.
THEOREM CommandsNotEarly == Spec => NotEarly
<1> DEFINE Late == \A i \in DOMAIN tasks : i \notin DOMAIN tasks' => clock >= tasks[i].time
<1>1. Inv /\ [Next]_vars => [Late]_vars
  <2> SUFFICES ASSUME Inv, Next, NEW i \in DOMAIN tasks, i \notin DOMAIN tasks'
               PROVE  clock >= tasks[i].time
    OBVIOUS
  <2>1. ASSUME NEW new, Build(new), ~panic PROVE FALSE
    BY <2>1 DEF Build
  <2>2. Worker
    <3>1. ~(SensorEvent \/ BranchEvent \/ Tick)
      BY DEF SensorEvent, BranchEvent, Tick, server
    <3>2. QED
      BY <2>1, <3>1 DEF Next, Speed, Reverse, Switch, Request
  <2>3. PICK j \in Slots : GiveCommand(j)
    BY <2>2 DEF Worker, WorkerAsks, GiveOther, WorkerSends, WorkerDelayed, WorkerSensor, server
  <2>4. i = j /\ worker.time >= tasks[i].time /\ worker.at = "asking"
    BY <2>3 DEF GiveCommand, Due
  <2>5. worker.time <= clock
    BY <2>4 DEF Inv, AskedInPast
  <2>6. /\ worker.time \in Nat /\ clock \in Nat /\ tasks[i].time \in Nat
    BY TrainServerAssumption DEF Inv, TypeOK, Task
  <2>7. QED
    BY <2>4, <2>5, <2>6
<1>2. QED
  BY <1>1, SpecInv, PTL DEF Spec, NotEarly
=============================================================================
