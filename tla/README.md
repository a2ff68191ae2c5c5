# The Polling Express in TLA+

The Polling Express is a microkernel for the TS-7200 (an EP9302 board) and the
train control program that runs on it: user tasks that talk by Send / Receive /
Reply, servers for time, the two serial lines, the trains, the routes and the
sensors, and a shell. This directory holds TLA+ models of its core, the TLC
configurations that check them on small instances, and TLAPS proofs. Paths
below are relative to `src/`.

    tlc -workers 2 -config Kernel.cfg MCKernel     # one run
    tlapm KernelProofs.tla                         # the proofs about the kernel;
                                                   # so for every module *Proofs.tla

`PROJECT.json` lists the components, the runs, the source lines each definition
translates (`map`), the hazards the properties are aimed at, for each property
a plausible bug that breaks it (`mutants`), and the disagreements found.

## 1. The system

### Parts and how they interact

```
 shell, printers                      shell.c, *printer.c
   |  navigate / register / print
   v
 navigation server <--- attribution courier <--- dispatch server
   ^          ^                                    ^         ^
   |          |                                    |         | sensors
 pathfind   straightpath worker ---- subscribe ----+   sensor courier
 workers      | speed, reverse, switches                     |
              v                                              |
            train server + worker  --------------------------+
              | Putc/Getc COM1           printf/done_print COM2
              v                              v
            uart 1 server + 2 notifiers    uart 2 tx / rx servers + notifiers
                     clock server + notifier, name server
 ------------------------------------------------------------- swi / irq
            kernel: scheduler, message passing, events
```

| part | state | operations | what is hard | what makes it correct |
|---|---|---|---|---|
| kernel (`src/main.c`, `src/kernel/task.c`) | descriptors, ready queue, send queues, `event_mapping`, `interrupt_tasks`, interrupt enables | 13 system calls, 1 interrupt handler | every order of calls and interrupts; error paths; a queue whose space is asserted | each live task is in exactly one place; no assertion fails; senders are served in order and none is overlooked; a parked task can be woken |
| ready queue (`task.c`), heap (`src/common/heap.c`) | array heap | add, pop | sift-down at the edge of the array, ties, a timer that reloads | priority queue; first come first served among equals |
| clock server | ticks, sorted list of sleepers, free list | tick, time, delay, delayUntil | ticks that are missed, delays of 0 and less, the last slot | woken at the first tick that is late enough, and never earlier; every call returns |
| UART 2 transmit | lock, waiting tasks, FIFO, notifier | Putc, release, half empty | a full FIFO, lock passed on while the notifier is parked | lines are not mixed, no character is lost, the notifier is never forgotten |
| UART 1 | lock, flags of the CTS protocol, two notifiers | Putc, Getc, release, interrupts | order of TX interrupt, CTS low, CTS high and AwaitEvent | one byte per CTS cycle; answers read in order; every call returns |
| navigation server | per train state machine, reservations, tasks of the journey, waiting operators | register, navigate, worker requests and answers, attributions, printers | answers that were computed against old reservations, restarts, attributions that arrive late | a train holds the track it is on and going to; no operator is forgotten; the printers' pictures are fresh or marked dirty |
| train server | heap of timed commands, sensors, switches | speed, reverse, switch, worker, couriers | mixed commands of several requests, a worker whose time is old | commands not early, never lost; solenoids off; edges of sensors not missed |
| dispatch server, straight path worker | one subscriber per sensor, attribution buffer | subscribe, sensor update, couriers | several sensors in one update, broken sensors, a slow courier | its assertions; a waiting worker is subscribed; attributions kept; the train is stopped |
| circular buffer (`src/common/circularbuffer.c`) | array, head, tail, count | push, aggressive push, pop, copy, clear | head = tail both when full and when empty | a bounded queue |
| UART 2 receive | one waiting task, notifier, FIFO | Getc, interrupts | the FIFO is read on the notifier's word; the notifier is let go blindly | keys in order, none read from an empty FIFO; Getc returns |
| name server, start-up (`nameserver.c`, `user.c`, `shell_init`) | hash table; what every task does before its loop | RegisterAs, WhoIs, Create | collisions; look-ups before the registration, busy waiting under priorities | a look-up answers with the task of that name; every task gets to its loop |
| path search, segments (`algorithms.c`, `track_data.c`, `navigationserver.c:46-217`) | distances, predecessors; buffer nodes | dijkstra, cutting into segments | broken switches, ties, turns; nodes spliced in around reversals; arrays of fixed size | shortest; off reserved places; segments connected, drivable and within bounds |
| shell (`shell.c`) | input buffer, planned commands | keys, Enter | text left in the buffer, planning mode, a full line | what is executed is what the user has seen and entered |
| printers, train motion model, context switch, `printf` | | | | section 6 |

### Hazards

The list in `PROJECT.json` is ordered by part. The main kinds are
*interleaving* (tasks of equal priority, notifiers and interrupts), *stale
state* (a route computed against old reservations; a time read before a
request), *ordering* (CTS edges, attributions against the end of a segment),
*protocol sequences* (Reply to the wrong task, restart of a search whose worker
is parked), *resource bounds* (delay slots, lock queue, commands, FIFO) and
*numeric edges* (sentinels, timer reload, tids at the end of the array). Nothing
is persisted and messages are not lost, so there is no crash recovery and no
unreliable delivery.

## 2. The modules

Every server is modelled as it is scheduled: a request is queued in the
server's `want_send` list (`mailbox`) or, where the order of the queue does not
matter to the properties, handled in the step in which it is made; the whole
body of the server's loop is one step, because a server that has received a
message shares no memory with anybody, and what its replies set free can only
queue further requests. Variables keep the names of the code. Variables marked
"history" record what the program does not, for a property to refer to.

**Kernel**. One step is one trip through the loop of `kmain` after `run_user` returns: interrupts are off in
the kernel, so the trip is atomic. `cur` is the task that runs; `Dispatch(t)` is
`pop_ready_queue`; each system call is one action per outcome (for instance
`SendToReceiver`, `SendQueued`, `SendInvalid`, `SendWild`). The user programs are
arbitrary: the running task may make any call with any tid, priority and event id,
valid or not, in the constants. Only idle has a fixed program. `Interrupt` is the
branch for an interrupt, with its chain of tests. `mode` says why the machine
stopped, if it did: a `KASSERT` (`NobodyHome`, `DoubleAwait`), an index outside
`backing[]` or `event_mapping[]` (`WildTcb`, `WildEvent`), or a `swi` inside the kernel
(`KernelSwi`, see the findings). What an index outside an array reads is not modelled
further, nor are the stacks, whose space is asserted. `DoubleAwait` is up to the users: the
kernel cannot keep two tasks from awaiting one event. The
ready queue is a set here, with `count` kept as the code keeps it.

**BoundedQueue**, **CircularBuffer**. The promise is a sequence of at most
`capacity` items; the implementation is the array with its two pointers, which
are indices here.

**PriorityQueue**, **ReadyQueue**, **TimeHeap**. `PriorityQueue` is the promise:
a bag of elements of which a minimal one is taken. `ReadyQueue` is the heap of
`task.c` with `added_time` from a timer that counts down from `TIMER3LOAD` and
reloads; `TimeHeap` is `heap.c` with `LARGE` for the sentinel `0x00FFFFFF`. Both
refine `PriorityQueue` (`ImplementsPriorityQueue`). A loop that sifts is a function from
the number of its rounds to the array and the slot it has come to, and a round of it
(`Rise`, `Sink`) is an operator. **Heaps** puts the two side by side: the kernel's and the
train server's share no data. The modules that use these structures take the promise:
sequences for circular buffers, sets with a choice of a minimal element for heaps.

**ClockServer**: `TimerWakes`/`TimerMissed` are the kernel's timer interrupt with
and without a waiting notifier, `Serve` the loop of the server for every type
of request, with insertion into the sorted list and the free list.

**Uart2Tx**: `Serve` is the loop of `uart_com2_tx_server`; `Putc` and
`ReleaseUartLock` are a task's `printf(COM2, ...)` and its `done_print`; `Transmit`
empties the FIFO and `TransmitInterrupt` is the half-empty interrupt.

**Uart2Rx**: the same for input: `Press` puts a key in the FIFO, `Getc` is the
shell's call, `Serve` the loop of `uart_com2_rx_server`.

**Uart1**: the server and both notifiers, the part of the kernel that collects
`UART1_TX` and `CTS` flags, and the controller, which drops CTS for each byte
it gets and raises it again. A task runs a program of "put", "ask", "get" and "release" over
and over; `ProgramFits` is what `task_train_worker` does of that: a question is followed by
the reads of its answer, all of them, and a release comes at the end, if at all.

**SerialLines**: the three servers of `uartserver.c` side by side. They share no data, so a
step of one leaves the variables of the others alone; what they share in the program is the
kernel, which each has in its mailbox and, for the runs, in its fairness. `LinesSpec` is
what the theorems are about.

**Navigation**: all requests of the navigation server, with the two kinds of
workers. A journey (`Plans`) is a sequence of straight segments and reversals;
the cutting of a shortest path into segments is a parameter here. `Drive` moves
a train along its segment and creates the attribution that the courier brings
later. Offsets, lengths and speeds are left out, and an answer "no path" to a search that no
operator waits for: the code would start a segment of length 0 then, but from where a
segment of a journey starts there is a way to its end (`NavigationAssumption`), and a search
that is only blocked is restarted.

**Track**, **TrackData**, **StraightPath**, **PathSearch**. `Track` has what is computed from a track:
the buffer nodes behind each merge, the length of a path, and
`segments_fill_navigation_tasks`, iteration by iteration, with its look ahead of
one node. `TrackData` is the two tables of 144 nodes, without the names and the back
pointers of edges, and the switches `task_k4_init` marks as broken. `PathSearch` is
`dijkstra`, one round of its loop per step; the destination is not chosen before
the search, since it matters only in the round in which it comes up, so that one
behaviour answers for all destinations. `min_distance` is the set of the node it returns,
empty if all distances are INF, and `update_dist` says which distances a round changes; the
edges from a node are looked at one after the other, which leaves the least of their
lengths. A search by a train that reads outside the
arrays ends as `"outside"`. `StraightPath` is the list of switches that `process_path`
makes of a segment, how much of it a call of `send_branches` requests, and what the
train server makes of a request for a switch of a crossing. Recursion is written as
functions.

**Shell**: one step per key. `input` is the array, cell by cell, NULs included,
because what a refused line leaves in it is what matters. Words are single
characters with a `Kind`, and a command has one argument, valid or not. `shown`
is history: what a reader of the prompt would expect to be executed.

**Directory**, **NameServer**, **Startup**. `Directory` is what `README.md` promises of
RegisterAs and WhoIs; `NameServer` has the hash table, with the seven names of
the real servers as character codes and `hash_function` in 32 bits (two halves of
16, TLC's integers being signed). `Startup` has the calls of all 27 tasks from the
first instruction to the loop, `Script`, run under the priorities of the code: the
running task is the first of the highest priority, and `Interrupt` puts it at the end.
WhoIsBlock that fails is made again. Start-up and name server are one system.

**TrainServer**: requests with their follow-up commands (stop, reverse, speed;
switch, partner switch, solenoid off), the worker with its poll of the sensors,
and the two tasks that wait for events.

**Dispatch**: subscriptions, sensor updates, both couriers, and the loop of the
straight path worker over the sensors of its path. That switches are set in time is
shown in two halves: `SwitchesInTime` says that the calls of `send_branches` keep ahead
of the train, `SwitchesSet` (PathSearch) that so many calls are enough on both tracks.
That a request is in time is counted in sensors, since how long a train takes from
one to the next is the motion model's. A worker waits for two sensors of its path and for
nothing else: if both are broken, or the only one of a short stop or of the end of the path
is, it waits for ever while its train runs on (`src/user/straightpathworker.c:179-204`).
`Stoppable` says of a path that this cannot happen, and `WorkersStop` that the worker of
such a path ends. A train that brakes before its first sensor is left out: its worker waits
for none.

`MC*.tla` hold the instances; the same MC module serves several cfg files.
`MCStructures` checks the code that runs within one task (data structures, path search,
shell; `MCTracks` has the tracks) and
`MCSerial` the start-up and the three servers of `SerialLines`, in each
behaviour one of them, `subject`: the others do not move, so the state spaces add
up and are not multiplied. That leaves nothing out, as the servers share no variable: a
behaviour of `LinesSpec` is one of each server, and the properties are about one at a time.
`MCPaths` is the path search on track B alone.

## 3. The runs

Sizes are distinct states.

| run | states | what it shows |
|---|---|---|
| `kernel` | 112 thousand | 4 descriptors (idle, the first task, two created), two priorities, valid and invalid tids and events: the safety properties of the kernel, and that its loop ends when it should and only then |
| `structures` | 782 thousand | the heaps refine a priority queue, FIFO among equals while the timer has not reloaded; the circular buffer refines a bounded queue; shortest paths, and segments that lead to every destination of tracks A and B inside their arrays, their switches set in time; where the search of a reserved destination leaves its arrays; the shell executes what is seen |
| `clock` | 350 thousand | 3 clients: order and number of the sleepers, wake-up time, how long a delay lasts, every call returns |
| `serial` | 50 thousand | start-up gets every task to its loop, with the right tids; whole lines on the terminal, nothing lost; CTS protocol and answers in order on the train line; keys in order; every call returns |
| `navigation` | 455 thousand | 2 trains, 2 operators: reservations and waiting operators |
| `navigation_one` | 19 thousand | 1 train and both printers: reservation news; every journey ends and every operator is answered |
| `train_server` | 786 thousand | crossing and single switch, reversal: commands not early and not lost, solenoids off, sensor edges |
| `dispatch` | 338 thousand | 2 trains, a broken sensor, in the middle of a path or its last: subscriptions and attributions; switch requests stay ahead of the trains; a train is stopped where its worker never waits for broken sensors only |
| `kernel_errors` | | violation: error codes of Send, Reply and AwaitEvent |
| `navigation_restart` | | violation: a restarted search |
| `dispatch_both` | | violation: two sensors in one answer |
| `segments` | | violation: the segment of a path to A2 |

The last four check what a document or comment of the repository says and the
code does not do (section 5).

### Bounds

- *Kernel*: two tasks besides the first can wait for each other, queue at the
  same receiver and park on events; five descriptors give the same answer.
  Arguments are all tids from -1 to one past the first invalid one; one event id stands for
  all that are no event.
- *ReadyQueue*: five tasks fill three levels; `TIMER3LOAD = 1` with `MaxClock = 2`
  makes the timer reload in the middle of everything; tasks of one priority are symmetric. *TimeHeap*: six items, so
  that a node with one child and one with none are both met at the last level.
  *CircularBuffer*: three places, so that each pointer can be at the start, in the
  middle and at the end; two items tell orders apart.
- *PathSearch*: a small oval with a siding, with and without a stuck switch, from
  every node and with every set of places reserved, is compared with a reference
  that knows all ways (`Drives`). Tracks A and B, as they are, are searched from every
  sensor with nothing reserved, from A1 and A5 with each single place reserved, and from A1
  with each stretch, a place and the ones an edge away from it; every node that can be
  reached is a destination. One of the stretches is the spur of A5, B9 and B10, the only part of track A
  to which nothing leads. The reference is too large for them;
  what is checked of their paths does not need it.
- *Shell*: a line of 4 cells (20 in the code) with two token places (6) and two
  planned commands (10), over five characters: full lines, lines with as many
  blanks as tokens, refused lines longer and shorter than the next, and plans that overflow are all met.
- *ClockServer*: as many clients as `Slots`, so that the last slot is used; Delay
  of -1, 1 and 2 ticks; `MaxTicks` covers the longest delay, `MaxMissed` lets one
  tick be missed.
- *Uart2Tx*: lines (3) longer than half the FIFO (4 characters), three tasks so that the
  lock queue holds two. `Overtakes` is how many messages the server serves while
  its notifier, which has the same priority, is in the ready queue.
- *Uart2Rx*: a FIFO of 4 keys; keys are numbered up to 5, so that a lost, repeated or
  stale one shows. *Startup*: all tasks; three interrupts, each before any call
  (`MaxInterrupts`).
- *Uart1*: two-byte answers and commands; three tasks. `Prompt = TRUE` says that
  the notifier is back in `AwaitEvent` before the controller's CTS cycle is over
  (milliseconds against microseconds); section 5 says what happens without.
- *Navigation*: the track has a merge, a buffer node and reversals; two trains
  meet at one place. At most one attribution is on its way (`MaxAttributions`).
  `Timely` says that the courier delivers a sensor before the segment it belongs
  to is over. A train is registered only while it has no journey: that is the
  operator's discipline, the code does not ask for it.
- *TrainServer*: the times of the code (20, 500, 510, 7) scaled down in their order;
  two requests (`MaxRequests`) and three instants (`MaxTime`) let the commands of two
  requests mix; with `MAX_TRAIN_CMDS = 4` two requests can fill the table exactly and can also
  meet its assertion, which stops the machine (`panic`).
- *Dispatch*: paths of one to three sensors, with a stop timed from any of them, or a short
  one from the first. The history variable `late` holds the
  trains that reached a sensor before the news of the one before it was brought:
  the safety properties hold for them too, `WorkersStop` excuses them
  (section 5, `dispatch_both`).

### Fairness

Weak fairness throughout, and only of: tasks that can run (the kernel is
preemptive with fixed priorities, the servers are above their clients, and the
clients the kernel runs first block in their calls); interrupts that stay
pending; the hardware (the timer counts, the UART sends, the controller ends its CTS cycle);
and trains that were told to move reaching their next sensor. Calls by clients
are fair only in the serial servers, where a client in the middle of a print or a
transaction goes on with it: that holds the lock the others wait for. Sensors may be broken,
operators need not call, and no key need be pressed. In Startup the processor runs.

In `MCSerial` each conjunct of the fairness is the weak fairness of one action of
every part. Only one part moves in a behaviour, so the disjunction is fair just when
that part's action is, and the conjunction is the fairness each module states.

Deadlock is checked in Kernel, ClockServer and in `serial` (where the idle task runs at
the end of the start-up). The others may stop: the bound on time or requests is used
up, a search has ended, or everybody waits for an operator.

## 4. The proofs

The proofs about a component are in a module `<component>Proofs` of their own, those about
the terminal's two servers in `Uart2Proofs`, and those about code that runs within one task
(circular buffer, name server, shell, path search, heaps) in `StructuresProofs`. Each
rests on one inductive invariant, `Inv` (`IInv` for the kernel): `InitInv` is the base
case, each action has a lemma of its own, `NextInv` puts them together and `SpecInv` makes
the induction; the theorems are consequences. The larger invariants were checked by TLC on
the component's instance before they were proved.

| theorem | says |
|---|---|
| `TypeCorrect` | the kernel's data stay of their types, `free_tcb` included |
| `TasksInOnePlace` | a live task is in exactly one place |
| `ReadyQueueHasSpace` | `add_to_ready_queue`'s assertion holds |
| `InterruptTasksCounted` | `interrupt_tasks` is the number of parked tasks |
| `NoStrandedNotifier` | a parked task has the interrupts enabled that wake it |
| `KernelAssertionsHold` | the kernel's assertions about itself hold |
| `ReceiverMissesNobody` | nobody queues at a task that is blocked in Receive |
| `ReturnsClean` | the loop ends by itself exactly when nothing but idle can run again |
| `RendezvousHolds` | senders leave queues in order, and only to their receiver; only Reply releases a reply-blocked task |
| `BufferConsistent`, `BufferImplementsQueue` | the circular buffer implements a bounded queue |
| `SleepersSorted` | the clock server's list: in order, complete, nobody due in it, no node lost, no KASSERT if there are as many nodes as clients |
| `WokenAtTheInstant` | a sleeper is woken by the tick of its time (an action property) |
| `DelayTakesItsTime` | Delay(n) sees at least n - 1 timer interrupts, and one that sleeps n at most but for those that were missed (an action property) |
| `PlaceHeld` | a train has reserved the place where it is, in both directions |
| `WayReserved` | and, with a timely courier, all of its segment that is ahead |
| `NobodyForgotten` | a waiting operator is known to a train that will answer |
| `PrinterMarked` | the reservation printer's picture is fresh or marked |
| `SolenoidsSwitchedOff` | behind each solenoid that is on a command to switch it off is on its way |
| `SensorsGathered` | sensors seen by a poll are kept for the courier |
| `CrossingsKeptOpposite` | the switches of a crossing end up opposite |
| `CommandsNotEarly` | no command is given out before its time (an action property) |
| `SubscriptionsMatch` | the one-subscriber assertions hold; a worker waits exactly when it is subscribed |
| `SwitchesAhead` | switches are requested ahead of the train |
| `AttributionsNotLost` | attributions are kept or their loss is reported |
| `LinesLocked` | whoever waits for the terminal or the train line is queued once with what it wants kept; the notifiers are known |
| `PrintsNotMixed` | prints are whole and in order (an action property), and nothing is written into a full FIFO |
| `KeysRead` | keys reach the shell in order, each once (an action property) |
| `BytesWhenClear` | one byte per CTS cycle (an action property) |
| `RepliesToWaiting` | the train line's replies go to tasks that wait (an action property) |
| `AnswersRead` | bytes of an answer are read in order, if the notifiers are prompt (an action property) |
| `SearchIsShortest` | dijkstra finds a shortest way off the reserved places, or there is none |
| `HeapsImplementPriorityQueues` | both heaps implement a priority queue |
| `ReadyQueueIsFifo` | tasks of one priority leave the ready queue in order, between two reloads of TIMER3 (an action property) |
| `TableImplementsDirectory` | the hash table implements a directory |
| `SeenIsExecuted` | the shell executes what was seen |
| `Uart2TxTypeCorrect`, `Uart1TypeCorrect`, `ClockTypeCorrect`, `NavigationTypeCorrect`, `TrainServerTypeCorrect`, `DispatchTypeCorrect` | the servers' variables keep their types |

**Kernel** (`KernelAssumption`: at least two descriptors, idle and the first task, and
integer arguments). `IInv` is the conjunction of `TypeOK`, `OnePlace`, `QueueHasSpace`,
`InterruptCount`, `NobodyStranded`, `KernelAssertsHold`, `NoMissedSender`, `CleanReturn`,
`IdlePlace`, and that `mode` is not `NobodyHome`. It has to be one: that the count of the
ready queue stays below the number of descriptors needs that a task added to it is not
there yet, which needs that it is in exactly one place; that needs, for a task woken by an
interrupt, that it is parked on that event only; that `pop_ready_queue` finds a
task needs that idle is always running or ready (`IdlePlace`), since idle's only
call never blocks. `RendezvousHolds` has a further lemma on who changes a task's state
(`StateChange`).

**CircularBuffer** (`BufferAssumption`: a capacity but 0). The invariant is `TypeOK` with
`Consistent`: the head is where `count` steps from the tail lead, and what lies between are
items. Without it a push could overwrite an item that is still in the queue; with it,
lemmas about `Advance` and `At` say what each operation does to the contents, and each step
maps to the step of the same name of `BoundedQueue`.

**ClockServer** (`ClockAssumption`: finitely many clients, of which the notifier is none).
`SleepersInOrder` alone is not inductive. `MailboxOK` says that `want_send` holds one
message of each task at most and that its sender still waits: hence the client of a Delay
that is served is not in the list already, and a reply to a sleeper can only come from the
loop of TICK. `TicksBounded` keeps the tick on its way within the bound. `AskedOK` ties a
node to the request it stands for; the lower bound of `DelayTakesItsTime` is read off it, and
the upper one off `FreshOK`, a second invariant: no request is older than the tick that was
served last, and none behind a TICK in `want_send` older than that one. That the loop of
TICK takes exactly the nodes whose time is the new tick (`DueFacts`) follows from the order
and from nobody being due; that no assertion fails, from counting: the sleepers and the
client just served are different clients, so there are fewer sleepers than clients
(`SleepersCount`).

**Navigation** (`NavigationAssumption`). `HoldsPlace` needs `WorkersFit` (what the state of
a train says about its two workers: while it is `PATHFINDING` no worker drives it) and
`TasksLead` (what is left of a journey alternates between segments and reversals, and a
driven segment passes no place twice). `WayReserved` needs `AttributionsPassed` too: an
attribution is of a node the train has passed in the segment it is in, so that
`unreserve_path_src_up_to_node` frees nothing ahead. That is the hypothesis `Timely`: a
sensor of the segment before, delivered late, can free what is ahead, which is hazard and
not theorem. What the assumption asks of journeys, that segments and reversals alternate, that a segment
passes no place twice and that from its start there is a way to the destination, is what
`SegmentsLead` shows of those on the real tracks.

**TrainServer** (`TrainServerAssumption`: the times are natural numbers and `SwitchTime`,
20 ticks or 200 ms in the code, is not 0). `OffsFollow` strengthens `SolenoidsOff`: not only has a
solenoid that is on an OFF to come, but behind each switch command in the heap there is a
later OFF; since `heap_peek` gives out the earliest, the last command to go is an OFF.
`PairsOpposite` speaks of where a switch is sent and not only where it stands.
`AskedInPast`, that the worker's time is not ahead of the clock, is all `CommandsNotEarly`
needs.

**Dispatch** (`DispatchAssumption`: a path passes no sensor twice, and paths of different
trains share none; the first is shown of segments by `SegmentsLead`, the second is what
`PlaceHeld` and `WayReserved` say of trains that move). `WorkerPlaced` ties subscriptions to
the sensors a worker wants, `NewsInTime` says what a worker may not have heard of yet,
`NewsOfWaiting` and `CourierBusy` do the same for the sensor news and the courier.
`SwitchesInTime` has a hypothesis of its own, `Followed`: that no two sensors in a row are
broken, nor the only one of a short segment. The worker subscribes to two sensors, so
without it nothing wakes it.

The theorems about the serial servers are about `LinesSpec`, in which all three run. A step
of one is a stutter of the other two (`LinesSteps`), so each has an invariant of its own,
`OutputInv`, `LineInv` and `InputInv`, and the assumptions of one are not those of another:
only `LinesLocked`, which is about two of them, assumes `LinesAssumption`.

**Uart2Tx** (`Uart2TxAssumption`: fewer tasks than `lock_cb` has places; what the server can
write between the interrupt and its notifier's message, `Overtakes` characters, is less
than the half of the FIFO that the interrupt has found empty). What TX_GOOD writes without
asking finds room (`RoomLeft`): the characters written since the notifier woke are counted,
and while its message is in the queue there is room, or the server is owed a character by
an owner that has no message before it. `BufferedOK` says that the character kept of a task
is the one it prints next, and `WrittenLast` that only the owner is in the middle of a
print: from the two follows `PrintsNotMixed`. `MailboxOK` has one message of each task. That
`lock_cb` does not overflow follows from counting its elements, which are different tasks
and not the owner.

**Uart2Rx** (`Uart2RxAssumption`). `FifoOK`: the keys in the FIFO follow the last one that was
given out. The rest is needed to know that the FIFO is not empty when it is read on the
notifier's word: `KeyNotifierOK` (the notifier is under way only while the shell waits, its
first message excepted, and one that has been woken has been woken for a key that is still
there) and `KeyMailboxOK` (the notifier's message is before the shell's).

**Uart1** (`Uart1Assumption`: fewer tasks than places, and programs that fit the line,
`ProgramFits`; as they may be of any length, every finite order of commands and questions is
one of them). `LineOK` divides the CTS cycle: from the moment the notifier is released until
it has seen the interrupts it waits for, `can_send` is false, and behind that moment (woken,
sent, held) the register is empty, CTS is high and the controller takes bytes. `FlagsOK`
says of `uart1_tx_flag` that what has been seen is not enabled any more, and that both are
never seen without the notifier being woken. None of this needs promptness: a late notifier
stops the line, it does not send too early. `WaitingOK` ties the receive notifier to an
owner that waits for a byte, and what is kept in `send_buffer` to the call it belongs to.
`AnswerOK`, for `AnswersRead` only, says where the byte that is to be read next is: not yet
asked for, on its way, in the register or with the notifier, and that nothing else is on its
way. Without `Prompt` the register could be overwritten, so that theorem, and only that one,
assumes it.

**NameServer** (`SlotsDiffer`: no two names have the same slot, which TLC evaluates for the
seven names of the program and their real hash values; it need not be true of others).
`NSSpec` has calls by any tasks in any order; the calls of `Startup` are among them. The
theorem is not about `Startup` itself, whose scheduler is a `SelectSeq` over the ready tasks,
beyond the provers.

**Shell** (`ShellAssumption`). `LineOK`: unless the last line was refused, the cells behind
`input_length` are empty, so what is seen is what the tokenizer gets; and the last cell is
empty unless the line is full. `PlanOK`: in planning mode `command_cb` is the beginning of
what was shown, of which one command more than fits is remembered, so that a plan that
overflows is told from one that is just full.

**Loops**. The library's induction rule takes an operator, which the provers cannot
instantiate. `SetInduction` has it for a set of numbers, from the well-foundedness of the
natural numbers. With it `Iteration` shows that the rounds of a loop exist as a function,
and `Loop` that a loop that decreases a rank has come to rest after that many rounds. The
recursive functions of the model are shown to be these (`DrivesFacts`, `WalkFacts`, and in
the lemmas of the four sift loops), since a recursive definition says what its value is only
once a function of that kind is known to exist.

**PathSearch** (`SearchAssumption`: nodes are numbers, the edges of a node that is laid lead
to nodes that are laid, and their lengths are natural numbers; INF is the length of a broken
one). `Small`, which limits `ShortestFound` for the run, is any set of tracks in the
theorem, all of them included. The invariant has the two halves of Dijkstra's argument: no
marked node is farther than one that is not (`Settled`), and no edge from a marked node
makes a distance shorter (`Relaxed`). So a drive that ends at an unmarked node is at least
as long as the nearest of them (`DrivesAreLonger`, by induction over the number of edges).
`Lengths` says that each distance is that of a drive; `Joined` and `Trails` that `prev` leads
from each node that has been reached, through marked nodes, back to the source, in no more
steps than nodes are marked: that is why the walk back that `pathfind_worker` takes, and
which nothing bounds, ends (`PathFacts`). A node that is reserved gets a distance too; that
it is never marked keeps it off every path.

**Heaps** (`HeapsAssumption`: finitely many tasks and commands, priorities that are numbers,
times below `LARGE`). `HeapInv` and `ReadyInv` say that the first slots of the array hold the
entries, each once (`Holds`), and that no entry is above one it is beaten by (`InOrder`).
Inside the loops the order holds but for the entry that moves: `OrderAbove` lets it be too
low, `OrderBelow` too high, and both keep what is above the gap and below it in order. The
loops of the two files differ (`heap_pop` also moves an item that equals its child, and asks
for a child that does not exist; `top_down_heapify` takes the better of three), but each
round is a rise or a sink for the order of its file, and `UpLoop` and `DownLoop` are proved
for any order. For the ready queue the order depends on timestamps, and
`add_to_ready_queue` writes one: it is that of a task which is not in the queue, so the
order of the others stays (`ReadyAddStep`). `ReadyQueueIsFifo` needs one thing more, that a
queued task still has the timestamp of the moment when it was added.

Only model-checked: liveness, which is out of the prover's reach (`CallsReturn`,
`StartEnds`, `NavigationEnds` and the like); and `SegmentsLead`, `SwitchesSet` and
`StaysInBounds`, which are about tracks A and B as they are, their exceptions included, and
not true of every track: TLC goes through all that the runs ask of these tables.

## 5. Disagreements found

| run | the code | the text |
|---|---|---|
| `kernel_errors` | Send accepts the tid `MAX_NUM_TASKS` (`src/main.c:146`); Reply to a task that is not reply-blocked prints with system calls from inside the kernel (`src/main.c:202`); AwaitEvent uses an event id unchecked and loses the caller (`src/main.c:217`) | `README.md:96-98`, `128-130` and `180-182` document the return values -1, -2 and -1 |
| `navigation_restart` | a restarted search is not given to a parked worker (`src/user/navigationserver.c:663`) | `src/user/navigationserver.c:339`: "should redo pathfinding" |
| `segments` | at the end of a path the look ahead reads a zero, node A1; if the path ends at A2, that is its reverse, and a reversal is made of it (`src/user/navigationserver.c:165`) | `docs/tc2/tc2.md:72` |
| `dispatch_both` | of two sensors in one answer the worker sees the first only (`src/user/straightpathworker.c:199`) | `docs/tc2/tc2.md:72` |

Also met while modelling, and not runs of their own:

- after TIMER3 reloads (every 2.35 hours), tasks that become ready overtake older ones
  of the same priority; `docs/k4/k4.md:312` says first in, first out. `ReadyQueueFifo`
  is stated for a period without a reload, and proved for it.
- `heap_pop` takes `0x00FFFFFF` for the time of a missing child, so items later than
  that (46.6 hours of ticks) are lost. `HeapAssumption` keeps times below it.
- DelayUntil a negative instant returns the time; `README.md:239-241` documents -2.
- CTS changes that come before the notifier is in AwaitEvent are forgotten, because
  AwaitEvent clears the flags (`src/main.c:230`); `docs/k4/k4.md:71` describes the
  cycle without that condition. In Uart1 it is the constant `Prompt`.
- on track A the way back from behind the merge of switch 155 goes over switch 156
  against the direction it is stuck in, so a journey that reverses there cannot be driven
  (`src/user/navigationserver.c:139-148`); `SegmentsLead` excepts these paths (`BufferOneWay`) and
  those to A2 (`MisreadEnd`), and holds for all others. Paths to nodes behind broken switches are not found.
- a segment that ends behind the middle of a crossing (a NODE_EXIT behind switches 153-156)
  needs both of its switches straight, but the train server sets the partner of every
  requested switch the other way (`src/user/trainserver.c:138-166`), so the second request
  undoes the first; `SwitchesSet` excepts these segments (`Middle`) and holds for all others.
- `min_distance` returns `track[-1]` when no node is left (`src/user/algorithms.c:61`), which
  happens if the destination is reserved and every other node that is not can be reached. On
  track B the four unused entries keep the search from it. On track A it is the spur with A5,
  A6, B9 and B10, which leads to everything and to which nothing leads: a search that starts
  on it, or one while other trains have reserved all of it, leaves the array (`NodesLeft`).
- a straight path worker whose subscribed sensors are all broken waits for ever, and its train
  is not stopped (`src/user/straightpathworker.c:179-204`; `Stoppable` in Dispatch).
- the shell leaves the text of a refused line, and of every `plan`, in its buffer, and the
  next line is written over it: after a refused `tr 24 20` the line `tr 24 1` sets
  speed 10 (`src/user/shell.c:261`). A line of 20 characters takes no key any more, not even
  Enter or backspace (`:81`); a line of six blanks overruns the token array (`:70`); `mock` with an unknown node
  prints the name of `track[-1]` (`:407`).
- UART 2's receive server remembers one task (`src/user/uartserver.c:308`):
  `docs/k4/k4.md:69` assumes one, and the shell is the only one.
- the start of a segment changes a train's state without notice to the train-state
  printer (`src/user/navigationserver.c:355`); `docs/tc2/tc2.md:67-68` says it is told.

## 6. What is not modelled

The train motion model (`neutron.c`, `magic_numbers.c`) is calibration data, correct or
not against real trains. The context switch is assembly, whose effect Kernel uses. `printf`,
strings and memory functions have no state. Printers format text; when they ask and
what they are told is in the servers' modules. `dijkstras_min_length` and
`mark_sensor_broken` are called by nothing but tests. The arguments of the shell's
commands (numbers, names of nodes and trains) are valid or not valid; `virtual.c`, the
table of train numbers, is behind that. Offsets within a segment, and the times and
distances the straight path worker computes from them, belong to the motion model.

## 7. Plan

1. Composition of Dispatch and Navigation, so that `Timely` becomes a
   statement about the courier instead of an assumption.
2. Journeys of PathSearch as the `Plans` of Navigation. The two are joined by two
   assumptions so far: the plans of `MCNavigation` are what
   `segments_fill_navigation_tasks` makes of their paths (`TasksAssumption`), and what
   `SegmentsLead` shows of every journey on the real tracks (segments and reversals
   alternate, a segment starts where the train stands and passes no place twice) is what
   Navigation asks of its plans (`NavigationAssumption`).
