----------------------------- MODULE TrainServer -----------------------------
(***************************************************************************)
(* The train server and its worker (src/user/trainserver.c): commands are  *)
(* kept until their time comes, the worker fetches them and sends them to  *)
(* the track, polls the sensors when there is time for it, and the server  *)
(* passes sensors that came on, and switches that were thrown, to the      *)
(* tasks that wait for them.                                               *)
(*                                                                         *)
(* The heap of commands is the set of the tasks in use, of which one with  *)
(* the least time is taken (TimeHeap implements that); a request and its   *)
(* handling are one step.                                                  *)
(***************************************************************************)
EXTENDS Integers, Sequences, FiniteSets, Functions

CONSTANTS Trains,
          Switches, Partner,   \* Partner[s]: 154 for 153 and so on, NoSwitch for the others
          Sensors,
          MAX_TRAIN_CMDS,
          SwitchTime,          \* 20: from a switch to its partner, or to the solenoids off
          StopTime, FlipTime,  \* 500 and 510: from the stop to the reversal and to the speed
          PollTime,            \* 7: what a poll of the sensors takes, at most
          MaxTime,             \* bound: the last instant of the model
          MaxRequests,         \* bound: requests for commands
          NoSwitch

ASSUME TrainServerAssumption ==
  /\ Partner \in [Switches -> Switches \cup {NoSwitch}] /\ NoSwitch \notin Switches
  /\ \A s \in Switches : Partner[s] # NoSwitch => Partner[s] # s /\ Partner[Partner[s]] = s
  /\ {MAX_TRAIN_CMDS, SwitchTime, StopTime, FlipTime, PollTime, MaxTime, MaxRequests} \subseteq Nat
  /\ SwitchTime > 0

Slots == 1 .. MAX_TRAIN_CMDS

\* What a command tells the track: a train's speed (15: reverse), a switch (0 straight,
\* 1 curved), or all solenoids off (byte 32).
Commands == [type : {"SPEED"}, target : Trains, data : {0, 1, 15}]
              \cup [type : {"SWITCH"}, target : Switches, data : {0, 1}]
              \cup {[type |-> "OFF", target |-> NoSwitch, data |-> 0]}

Unknown == 2    \* the initial value of event.branch_a and event.branch_b

VARIABLES
  tasks,            \* the tasks in use: a function from their slots
  sensors,          \* the last reading
  event_sensors, sensor_dirty, sensor_waiting,
  event_branch, branch_dirty, branch_waiting,
  panic,            \* whether build_task's KASSERT has failed
  clock,            \* the clock server's ticks
  worker,           \* [at, time, cmd]: at is "idle", "asking", "command", "poll", "delay"
  track,            \* [switch, coil]: how the switches stand; whether a solenoid is on
  requests,         \* the number of requests for commands
  unseen,           \* history: sensors that came on since the sensor courier was told
  entangled         \* history: switches asked for while their pair had commands waiting

server == <<tasks, sensors, event_sensors, sensor_dirty, sensor_waiting, event_branch,
            branch_dirty, branch_waiting, panic>>
vars == <<server, clock, worker, track, requests, unseen, entangled>>

Task == [time : Nat, cmd : Commands]

TypeOK ==
  /\ DOMAIN tasks \subseteq Slots /\ \A i \in DOMAIN tasks : tasks[i] \in Task
  /\ sensors \subseteq Sensors /\ event_sensors \subseteq Sensors
  /\ sensor_dirty \in BOOLEAN /\ sensor_waiting \in BOOLEAN
  /\ event_branch \in [Switches -> {0, 1, Unknown}]
  /\ branch_dirty \in BOOLEAN /\ branch_waiting \in BOOLEAN
  /\ panic \in BOOLEAN
  /\ clock \in 0 .. MaxTime
  /\ worker \in [at : {"idle", "asking", "command", "poll", "delay"}, time : 0 .. MaxTime + 1,
                 cmd : Commands]
  /\ track \in [switch : [Switches -> {0, 1, Unknown}], coil : BOOLEAN]
  /\ requests \in 0 .. MaxRequests
  /\ unseen \subseteq Sensors /\ entangled \subseteq Switches

Off == [type |-> "OFF", target |-> NoSwitch, data |-> 0]

Init ==
  /\ tasks = [i \in {} |-> 0]
  /\ sensors = {} /\ event_sensors = {} /\ sensor_dirty = FALSE /\ sensor_waiting = FALSE
  /\ event_branch = [s \in Switches |-> Unknown] /\ branch_dirty = FALSE /\ branch_waiting = FALSE
  /\ panic = FALSE
  /\ clock = 0
  /\ worker = [at |-> "idle", time |-> 0, cmd |-> Off]
  /\ track = [switch |-> [s \in Switches |-> Unknown], coil |-> FALSE]
  /\ requests = 0
  /\ unseen = {} /\ entangled = {}

-----------------------------------------------------------------------------
(* The end of the server's loop: who waits for what is there gets it. *)

\* Seeded fault: the sensors that came on are not kept with those of earlier polls.
CameOnLast(old, new) == new

\* event.sensors[i] |= ...
CameOn(old, new) == old \cup new

\* The handler leaves es, sd and sw in event.sensors, sensor_dirty and sensor_waiting.
DeliverSensors(es, sd, sw, missed) ==
  /\ event_sensors' = IF sd /\ sw THEN {} ELSE es
  /\ sensor_dirty' = (sd /\ ~sw) /\ sensor_waiting' = (sw /\ ~sd)
  /\ unseen' = IF sd /\ sw THEN missed \ es ELSE missed

\* The same of branch_dirty and branch_waiting.
DeliverBranches(bd, bw) == branch_dirty' = (bd /\ ~bw) /\ branch_waiting' = (bw /\ ~bd)

NoNews ==
  /\ DeliverSensors(event_sensors, sensor_dirty, sensor_waiting, unseen)
  /\ DeliverBranches(branch_dirty, branch_waiting)
  /\ UNCHANGED <<sensors, event_branch>>

-----------------------------------------------------------------------------
(* Requests for commands *)

\* build_task and heap_add for each of new, a sequence of tasks, which get slots from
\* the free list.
Build(new) ==
  LET free == Slots \ DOMAIN tasks
      slot == CHOOSE f \in Injection(DOMAIN new, free) : TRUE
  IN  IF Cardinality(free) < Len(new)
        THEN panic' = TRUE /\ UNCHANGED tasks
        ELSE /\ tasks' = [i \in DOMAIN tasks \cup Range(slot) |->
                            IF i \in DOMAIN tasks THEN tasks[i]
                            ELSE new[CHOOSE k \in DOMAIN new : slot[k] = i]]
             /\ UNCHANGED panic

At(time, cmd) == [time |-> time, cmd |-> cmd]
SpeedCmd(t, d) == [type |-> "SPEED", target |-> t, data |-> d]
SwitchCmd(s, d) == [type |-> "SWITCH", target |-> s, data |-> d]

Request(new) ==
  /\ ~panic /\ requests < MaxRequests
  /\ requests' = requests + 1
  /\ Build(new)
  /\ NoNews
  /\ UNCHANGED <<clock, worker, track>>

\* SPEED and REVERSE at a time, now or later
Speed(t, d, time) == Request(<<At(time, SpeedCmd(t, d))>>) /\ UNCHANGED entangled

Reverse(t, d, time) ==
  /\ Request(<<At(time, SpeedCmd(t, 0)), At(time + StopTime, SpeedCmd(t, 15)),
               At(time + FlipTime, SpeedCmd(t, d))>>)
  /\ UNCHANGED entangled

\* Seeded faults: the solenoids are switched off with the switch, not after it; the
\* partner is set the same way.
SwitchTasksAtOnce(s, d, time) ==
  IF Partner[s] = NoSwitch
    THEN <<At(time, SwitchCmd(s, d)), At(time, Off)>>
    ELSE <<At(time, SwitchCmd(s, d)), At(time, SwitchCmd(Partner[s], 1 - d)), At(time, Off)>>

SwitchTasksSame(s, d, time) ==
  IF Partner[s] = NoSwitch
    THEN <<At(time, SwitchCmd(s, d)), At(time + SwitchTime, Off)>>
    ELSE <<At(time, SwitchCmd(s, d)), At(time + SwitchTime, SwitchCmd(Partner[s], d)),
           At(time + 2 * SwitchTime, Off)>>

\* The commands of a SWITCH request: the switch, then its partner the other way, then
\* the solenoids off.
SwitchTasks(s, d, time) ==
  IF Partner[s] = NoSwitch
    THEN <<At(time, SwitchCmd(s, d)), At(time + SwitchTime, Off)>>
    ELSE <<At(time, SwitchCmd(s, d)), At(time + SwitchTime, SwitchCmd(Partner[s], 1 - d)),
           At(time + 2 * SwitchTime, Off)>>

\* The commands that are on their way to switch s.
OnTheWay(s) ==
  \/ \E i \in DOMAIN tasks : tasks[i].cmd.type = "SWITCH" /\ tasks[i].cmd.target = s
  \/ worker.at = "command" /\ worker.cmd.type = "SWITCH" /\ worker.cmd.target = s

Pair(s) == {s, Partner[s]} \ {NoSwitch}

\* SWITCH
Switch(s, d, time) ==
  /\ Request(SwitchTasks(s, d, time))
  /\ entangled' = IF \E p \in Pair(s) : OnTheWay(p) THEN entangled \cup Pair(s)
                  ELSE entangled \ Pair(s)

-----------------------------------------------------------------------------
(* The worker *)

\* Seeded fault: the clock is read once, before the loop.
WorkerAsksOnce ==
  /\ worker.at = "idle"
  /\ worker' = [worker EXCEPT !.at = "asking"]
  /\ UNCHANGED <<server, clock, track, requests, unseen, entangled>>

\* It reads the clock and sends WORKER.
WorkerAsks ==
  /\ worker.at = "idle"
  /\ worker' = [worker EXCEPT !.at = "asking", !.time = clock]
  /\ UNCHANGED <<server, clock, track, requests, unseen, entangled>>

\* Seeded fault: commands may go out as early as a poll would take.
DueEarly(i) == worker.time + PollTime >= tasks[i].time

\* The test of time in WORKER.
Due(i) == worker.time >= tasks[i].time

\* WORKER: task i, which heap_peek returned, is due.
GiveCommand(i) ==
  /\ ~panic /\ worker.at = "asking"
  /\ i \in DOMAIN tasks /\ \A j \in DOMAIN tasks : tasks[i].time <= tasks[j].time
  /\ Due(i)
  /\ worker' = [worker EXCEPT !.at = "command", !.cmd = tasks[i].cmd]
  /\ tasks' = [j \in DOMAIN tasks \ {i} |-> tasks[j]]
  /\ LET isBranch == tasks[i].cmd.type = "SWITCH"
     IN  /\ event_branch' = IF isBranch THEN [event_branch EXCEPT ![tasks[i].cmd.target] = tasks[i].cmd.data]
                            ELSE event_branch
         /\ DeliverBranches(branch_dirty \/ isBranch, branch_waiting)
  /\ DeliverSensors(event_sensors, sensor_dirty, sensor_waiting, unseen)
  /\ UNCHANGED <<sensors, panic, clock, track, requests, entangled>>

\* WORKER: no command is due; the sensors are polled if no command will be due before
\* the answer is there.  (The track has been chosen, which_track.)
GiveOther ==
  /\ ~panic /\ worker.at = "asking"
  /\ \A j \in DOMAIN tasks : ~Due(j)
  /\ worker' = IF \A j \in DOMAIN tasks : worker.time + PollTime < tasks[j].time
                 THEN [worker EXCEPT !.at = "poll"]
                 ELSE [worker EXCEPT !.at = "delay", !.time = clock + 1]
  /\ NoNews
  /\ UNCHANGED <<tasks, panic, clock, track, requests, entangled>>

\* The worker sends the command's bytes to the track.
WorkerSends ==
  /\ worker.at = "command"
  /\ worker' = [worker EXCEPT !.at = "idle", !.cmd = Off]
  /\ track' = CASE worker.cmd.type = "SWITCH" ->
                     [switch |-> [track.switch EXCEPT ![worker.cmd.target] = worker.cmd.data],
                      coil |-> TRUE]
                [] worker.cmd.type = "OFF" -> [track EXCEPT !.coil = FALSE]
                [] worker.cmd.type = "SPEED" -> track
  /\ UNCHANGED <<server, clock, requests, unseen, entangled>>

\* Delay(clock, 1) returns (also at the end of the model's time, where no tick follows).
WorkerDelayed ==
  /\ worker.at = "delay" /\ (clock >= worker.time \/ clock = MaxTime)
  /\ worker' = [worker EXCEPT !.at = "idle"]
  /\ UNCHANGED <<server, clock, track, requests, unseen, entangled>>

\* WORKER_SENSOR: the worker has polled the sensors, of which those in reading were on.
WorkerSensor(reading) ==
  /\ ~panic /\ worker.at = "poll"
  /\ worker' = [worker EXCEPT !.at = "idle"]
  /\ sensors' = reading
  /\ LET es == CameOn(event_sensors, reading \ sensors)
     IN  DeliverSensors(es, sensor_dirty \/ es # {}, sensor_waiting, unseen \cup (reading \ sensors))
  /\ DeliverBranches(branch_dirty, branch_waiting)
  /\ UNCHANGED <<tasks, event_branch, panic, clock, track, requests, entangled>>

-----------------------------------------------------------------------------
\* SENSOR_EVENT, of the sensor courier, and BRANCH_EVENT, of the switch printer
SensorEvent ==
  /\ ~panic /\ ~sensor_waiting
  /\ DeliverSensors(event_sensors, sensor_dirty, TRUE, unseen)
  /\ DeliverBranches(branch_dirty, branch_waiting)
  /\ UNCHANGED <<tasks, sensors, event_branch, panic, clock, worker, track, requests, entangled>>

BranchEvent ==
  /\ ~panic /\ ~branch_waiting
  /\ DeliverBranches(branch_dirty, TRUE)
  /\ DeliverSensors(event_sensors, sensor_dirty, sensor_waiting, unseen)
  /\ UNCHANGED <<tasks, sensors, event_branch, panic, clock, worker, track, requests, entangled>>

Tick ==
  /\ clock < MaxTime /\ clock' = clock + 1
  /\ UNCHANGED <<server, worker, track, requests, unseen, entangled>>

\* Commands are asked for at the present or a later time.
Times == clock .. MaxTime

Worker ==
  \/ WorkerAsks \/ (\E i \in Slots : GiveCommand(i)) \/ GiveOther \/ WorkerSends \/ WorkerDelayed
  \/ \E reading \in SUBSET Sensors : WorkerSensor(reading)

Next ==
  \/ \E t \in Trains, time \in Times : Speed(t, 0, time)
  \/ \E t \in Trains, time \in Times : Reverse(t, 1, time)
  \/ \E s \in Switches, d \in {0, 1}, time \in Times : Switch(s, d, time)
  \/ Worker \/ SensorEvent \/ BranchEvent \/ Tick

\* Time goes on, and the worker runs.
Spec == Init /\ [][Next]_vars /\ WF_vars(Tick) /\ WF_vars(Worker)

-----------------------------------------------------------------------------
\* No switch's solenoid stays on: while one is, the command that turns it off is still
\* to come, although commands of several requests are mixed and those of one time come
\* out of the heap in any order.
SolenoidsOff ==
  track.coil => \/ \E i \in DOMAIN tasks : tasks[i].cmd = Off
                \/ worker.at = "command" /\ worker.cmd = Off
                \/ panic

\* A command is not sent before its time, although the server trusts the time that the
\* worker read before it asked.
NotEarly == [][\A i \in DOMAIN tasks : i \notin DOMAIN tasks' => clock >= tasks[i].time]_vars

\* The sensor courier gets every sensor that came on between two polls, once it asks,
\* also if the sensor went off again before.
NoSensorMissed == unseen \subseteq event_sensors /\ (unseen # {} => sensor_dirty /\ ~sensor_waiting)

\* The two switches of a crossing do not end up the same way, unless one was asked for
\* while commands for the pair were still waiting.
CrossingsOpposite ==
  \A s \in Switches :
    /\ Partner[s] # NoSwitch /\ s \notin entangled /\ ~panic
    /\ track.switch[s] # Unknown
    /\ \A p \in Pair(s) : ~OnTheWay(p)
    => track.switch[s] # track.switch[Partner[s]]

\* Every command gets to the track, if its time comes within the model's: polls and
\* later commands do not hold it up for ever.
CommandsSent ==
  LET waiting == \E i \in DOMAIN tasks : tasks[i].time <= MaxTime
  IN  waiting /\ ~panic ~> ~waiting \/ panic
=============================================================================
