------------------------------- MODULE Startup -------------------------------
(***************************************************************************)
(* The start of the system: task_k4_init (src/user/user.c), shell_init     *)
(* (src/user/shell.c) and the first calls of every task, up to the loop in *)
(* which it serves, under the kernel's scheduling by priority.             *)
(*                                                                         *)
(* WhoIsBlock asks again and again, so a task that asks for a name keeps   *)
(* tasks of a lower priority off the processor.  A call of the name server *)
(* is one step: it has a higher priority than its callers.  A task that    *)
(* has reached its loop waits for messages and events and is left out.     *)
(* One straight path worker and one path worker stand for those of the six *)
(* trains.                                                                 *)
(***************************************************************************)
EXTENDS NameServer, SequencesExt

CONSTANT MaxInterrupts   \* interrupts during the start

Op(op, arg) == [op |-> op, arg |-> arg]
Create(t) == Op("Create", t)
Register(n) == Op("RegisterAs", n)
Find(n) == Op("WhoIsBlock", n)

\* Seeded fault: the name server is not more urgent than its clients.
LowNameserver ==
  [t \in Tasks |-> CASE t = "k1init" -> 100 [] t = "nameserver" -> 5 [] OTHER -> 10]

\* The second argument of Create.
Printers == {"timerprinter", "sensorprinter", "trainstateprinter", "reservationprinter",
             "switchprinter", "subscribeprinter"}
Priority ==
  [t \in Tasks |-> CASE t = "k1init" -> 100
                     [] t \in {"nameserver", "clocknotifier"} -> 20
                     [] t = "shell" -> 6
                     [] t \in Printers -> 5
                     [] OTHER -> 10]

k4_init == <<Create("nameserver"), Create("clockserver"), Create("uart2tx"), Create("uart1"),
             Create("uart2rx"), Create("trainserver"), Create("navigation"), Create("dispatch"),
             Create("shellinit")>>
shell_init == <<Find("uart2txserver"), Create("timerprinter"), Create("sensorprinter"),
                Create("trainstateprinter"), Create("reservationprinter"),
                Create("switchprinter"), Create("subscribeprinter"), Create("shell")>>
shell == <<Find("uart2rxserver"), Find("trainctl"), Find("clockserver"), Find("navigationserver"),
           Find("dispatchserver")>>
uart_com2_tx_server == <<Register("uart2txserver"), Create("uart2txnotifier")>>
uart_com1_server == <<Register("uart1"), Create("uart1txnotifier"), Create("uart1rxnotifier")>>
uart_com2_rx_server == <<Register("uart2rxserver"), Create("uart2rxnotifier")>>
task_trainserver == <<Create("trainworker"), Register("trainctl")>>
task_train_worker == <<Find("clockserver"), Find("uart1")>>
navigation_server == <<Register("navigationserver"), Find("trainctl"), Find("clockserver"),
                       Create("straightpathworker"), Create("pathfindworker")>>
task_straightpathworker == <<Find("dispatchserver"), Find("clockserver"), Find("trainctl")>>
dispatchserver == <<Register("dispatchserver"), Create("sensorcourier"), Create("attributioncourier")>>

\* What each task does before its loop.
Script ==
  [k1init |-> k4_init, nameserver |-> <<Op("Serve", NoTask)>>,
   clockserver |-> <<Create("clocknotifier"), Register("clockserver")>>,
   uart2tx |-> uart_com2_tx_server, uart1 |-> uart_com1_server, uart2rx |-> uart_com2_rx_server,
   trainserver |-> task_trainserver, trainworker |-> task_train_worker,
   navigation |-> navigation_server, straightpathworker |-> task_straightpathworker,
   pathfindworker |-> <<Find("clockserver")>>,
   dispatch |-> dispatchserver, sensorcourier |-> <<Find("trainctl"), Find("dispatchserver")>>,
   attributioncourier |-> <<Find("navigationserver"), Find("dispatchserver")>>,
   shellinit |-> shell_init, shell |-> shell,
   timerprinter |-> <<Find("clockserver")>>, sensorprinter |-> <<Find("dispatchserver")>>,
   trainstateprinter |-> <<Find("navigationserver")>>,
   reservationprinter |-> <<Find("navigationserver")>>,
   switchprinter |-> <<Find("trainctl")>>, subscribeprinter |-> <<Find("dispatchserver")>>,
   clocknotifier |-> <<>>, uart2txnotifier |-> <<>>, uart1txnotifier |-> <<>>,
   uart1rxnotifier |-> <<>>, uart2rxnotifier |-> <<>>]

StartupAssumption == Tasks = DOMAIN Script /\ NoTask \notin Tasks

VARIABLES queue,        \* the ready tasks, in the order in which they were added
          done,         \* the calls each task has made; those of a task not created are -1
          interrupts

startup == <<nameserver, queue, done, interrupts>>

Init ==
  /\ NSInit
  /\ queue = <<"k1init">>
  /\ done = [t \in Tasks |-> IF t = "k1init" THEN 0 ELSE 0 - 1]
  /\ interrupts = 0

-----------------------------------------------------------------------------
\* pop_ready_queue: the first of the tasks of the highest priority.
Running ==
  queue[CHOOSE i \in DOMAIN queue : \A j \in DOMAIN queue :
          \/ Priority[queue[i]] > Priority[queue[j]]
          \/ Priority[queue[i]] = Priority[queue[j]] /\ i <= j]

HasCall(t, n) == Len(Script[t]) > n

\* The running task t has made its call (or not, and has to make it again), which has
\* made the tasks in new ready; then t is ready again unless it has reached its loop.
Proceed(t, called, new) ==
  LET n == IF called THEN done[t] + 1 ELSE done[t]
  IN  /\ done' = [u \in Tasks |-> IF u = t THEN n ELSE IF u \in Range(new) THEN 0 ELSE done[u]]
      /\ queue' = SelectSeq(queue, LAMBDA u : u # t) \o SelectSeq(new, LAMBDA u : HasCall(u, 0))
                    \o (IF HasCall(t, n) THEN <<t>> ELSE <<>>)

Call(t) == Script[t][done[t] + 1]

CreateCall(t) ==
  /\ Call(t).op = "Create"
  /\ Proceed(t, TRUE, <<Call(t).arg>>)
  /\ UNCHANGED nameserver

ServeCall(t) == Call(t).op = "Serve" /\ Serve /\ Proceed(t, TRUE, <<>>)

RegisterCall(t) == Call(t).op = "RegisterAs" /\ RegisterAs(t, Call(t).arg) /\ Proceed(t, TRUE, <<>>)

FindCall(t) ==
  /\ Call(t).op = "WhoIsBlock"
  /\ \/ WhoIs(t, Call(t).arg) /\ Proceed(t, TRUE, <<>>)
     \/ WhoIsFails(Call(t).arg) /\ Proceed(t, FALSE, <<>>)

Syscall ==
  /\ queue # <<>>
  /\ CreateCall(Running) \/ ServeCall(Running) \/ RegisterCall(Running) \/ FindCall(Running)
  /\ UNCHANGED interrupts

\* An interrupt before the call: the task is put at the end of the ready queue.
Interrupt ==
  /\ queue # <<>> /\ interrupts < MaxInterrupts
  /\ interrupts' = interrupts + 1
  /\ Proceed(Running, FALSE, <<>>)
  /\ UNCHANGED nameserver

Next == Syscall \/ Interrupt

\* The processor runs.
Spec == Init /\ [][Next]_startup /\ WF_startup(Syscall)

\* Every task gets to its loop: no server waits for a name of one that waits for it, no
\* registration is lost before the name server runs, and no task that asks again and
\* again keeps the processor from the one it waits for.
StartsUp == <>(\A t \in Tasks : done[t] = Len(Script[t]))
=============================================================================
