------------------------------- MODULE Kernel -------------------------------
(***************************************************************************)
(* The microkernel: the loop of kmain (src/main.c) and the task           *)
(* descriptors of src/kernel/task.c.                                       *)
(*                                                                         *)
(* The kernel runs with interrupts off, so one trip through the loop after *)
(* run_user returns is one atomic step; what interleaves is which ready    *)
(* task is dispatched, which system call it makes, and when an interrupt   *)
(* arrives instead.  User programs are arbitrary: the task that runs may   *)
(* make any system call with any argument (only idle, tid 0, has a fixed   *)
(* program, src/user/idle.c).  The ready queue is a set here, ordered by   *)
(* priority when it is popped; module ReadyQueue has the heap.             *)
(***************************************************************************)
EXTENDS Integers, Sequences, FiniteSets

CONSTANTS MAX_NUM_TASKS,   \* descriptors in backing[]
          Priorities,      \* the priorities user tasks pass to Create
          SendTids,        \* the tids user tasks pass to Send
          ReplyTids        \* the tids user tasks pass to Reply

\* kmain adds idle and the first user task before the loop, so there are two.
ASSUME KernelAssumption ==
  /\ MAX_NUM_TASKS \in Nat /\ MAX_NUM_TASKS >= 2
  /\ Priorities \subseteq Int
  /\ SendTids \subseteq Int
  /\ ReplyTids \subseteq Int

Tids   == 0 .. MAX_NUM_TASKS - 1
NoTask == -1                          \* a NULL TCB pointer
Idle   == 0
InitTask == 1

\* tcb_state; ACTIVE and EVENT are declared in task.h but never assigned: a
\* running or an event-blocked task keeps the state READY.
TaskStates == {"READY", "ZOMBIE", "SEND", "RECEIVE", "REPLY"}

\* The events a task can be parked on (BREAK_IDLE never parks its caller).
Events == {"TIMER_TICK", "UART1_RX_INTR", "UART1_TX_INTR",
           "UART2_TX_HALF_EMPTY", "UART2_RX_INCOMING"}

\* The UART interrupt enables of ts7200.c.
Interrupts == {"UART1CTSINTR", "UART1TXINTR", "UART1RXINTR",
               "UART2TXINTR", "UART2RXINTR", "UART2RTIEINTR"}

EINVALIDTID        == -1
ENOTREPLYWAIT      == -2
ENOTASKDESCRIPTORS == -2
NoRet              == -99             \* set_return was not called for the task

\* "running" inside the loop, "returned" after it, otherwise the reason why the
\* machine stopped: a KASSERT (NobodyHome, DoubleAwait), an access outside
\* backing[] or event_mapping[] (WildTcb, WildEvent), or a swi executed by the
\* kernel itself.
Modes == {"running", "returned", "NobodyHome", "DoubleAwait", "WildTcb",
          "WildEvent", "KernelSwi"}

VARIABLES
  mode,
  cur,              \* the task run_user was called for, NoTask at the loop head
  state,            \* TCB.state
  priority,         \* TCB.priority
  parentTid,        \* TCB.parentTid
  free_tcb,         \* head of the free list: the descriptors free_tcb .. MAX-1
  ready, count,     \* the ready queue, and the number of its entries
  want_send,        \* TCB.want_send .. want_send_end: the senders in list order
  event_mapping,    \* the task parked on each event
  interrupt_tasks,  \* how many tasks are parked on an event
  uart1_tx_flag,    \* bits seen since the last wait: "TX", "CTS"
  intr,             \* the UART interrupts that are enabled
  ret               \* r0 of the tasks whose call this kernel entry completed

vars == <<mode, cur, state, priority, parentTid, free_tcb, ready, count,
          want_send, event_mapping, interrupt_tasks, uart1_tx_flag, intr, ret>>

tcbVars   == <<priority, parentTid, free_tcb>>
eventVars == <<event_mapping, interrupt_tasks, uart1_tx_flag, intr>>

TypeOK ==
  /\ mode \in Modes
  /\ cur \in Tids \cup {NoTask}
  /\ state \in [Tids -> TaskStates]
  /\ priority \in [Tids -> Int]
  /\ parentTid \in [Tids -> Tids \cup {NoTask}]
  /\ free_tcb \in 2 .. MAX_NUM_TASKS
  /\ ready \in SUBSET Tids
  /\ count \in Int
  /\ want_send \in [Tids -> Seq(Tids)]
  /\ event_mapping \in [Events -> Tids \cup {NoTask}]
  /\ interrupt_tasks \in Int
  /\ uart1_tx_flag \in SUBSET {"TX", "CTS"}
  /\ intr \in SUBSET Interrupts
  /\ ret \in [Tids -> Int]

(***************************************************************************)
(* scheduler_init, the two scheduler_add calls of kmain, and enable_irq,   *)
(* which leaves every UART interrupt disabled although uart_init(COM2) had *)
(* enabled three of them.                                                  *)
(***************************************************************************)
Init ==
  /\ mode = "running"
  /\ cur = NoTask
  /\ state = [t \in Tids |-> IF t \in {Idle, InitTask} THEN "READY" ELSE "ZOMBIE"]
  /\ priority = [t \in Tids |-> CASE t = Idle -> -99 [] t = InitTask -> 100
                                  [] OTHER -> 0]
  /\ parentTid = [t \in Tids |-> NoTask]
  /\ free_tcb = 2
  /\ ready = {Idle, InitTask}
  /\ count = 2
  /\ want_send = [t \in Tids |-> <<>>]
  /\ event_mapping = [e \in Events |-> NoTask]
  /\ interrupt_tasks = 0
  /\ uart1_tx_flag = {}
  /\ intr = {}
  /\ ret = [t \in Tids |-> NoRet]

-----------------------------------------------------------------------------
(* Helpers *)

\* add_to_ready_queue, called once for each of the n tasks of S.  Its KASSERT
\* that the queue has space is invariant QueueHasSpace.
AddToReady(S, n) == ready' = ready \cup S /\ count' = count + n

\* set_return for the tasks in the domain of r.
SetReturn(r) == ret' = [t \in Tids |-> IF t \in DOMAIN r THEN r[t] ELSE NoRet]
NoReturn == ret' = [t \in Tids |-> NoRet]

\* The machine stops: a KASSERT (an endless loop) or undefined behaviour.
Stop(reason) ==
  /\ mode' = reason
  /\ UNCHANGED <<cur, state, ready, count, want_send, ret, tcbVars, eventVars>>

\* The task in the running state that made the call: any but idle, whose only
\* call is AwaitEvent(BREAK_IDLE).
Calls(t) == mode = "running" /\ cur = t /\ t # Idle

\* The end of an iteration that stays in the loop.
LoopAgain == mode' = "running" /\ cur' = NoTask

-----------------------------------------------------------------------------
(* The loop head *)

LoopGuard == count > 1 \/ interrupt_tasks # 0

\* pop_ready_queue and run_user: the highest priority first.  Its KASSERT that
\* the queue is not empty is part of KernelAssertsHold.
Dispatch(t) ==
  /\ mode = "running" /\ cur = NoTask
  /\ LoopGuard
  /\ t \in ready
  /\ \A u \in ready : priority[u] <= priority[t]
  /\ cur' = t
  /\ ready' = ready \ {t}
  /\ count' = count - 1
  /\ NoReturn
  /\ UNCHANGED <<mode, state, want_send, tcbVars, eventVars>>

\* The loop ends and control goes back to RedBoot.
Return ==
  /\ mode = "running" /\ cur = NoTask
  /\ ~LoopGuard
  /\ mode' = "returned"
  /\ NoReturn
  /\ UNCHANGED <<cur, state, ready, count, want_send, tcbVars, eventVars>>

-----------------------------------------------------------------------------
(* Task management *)

\* SYSCALL_CREATE with a free descriptor: scheduler_add.
Create(t, p) ==
  /\ Calls(t)
  /\ free_tcb < MAX_NUM_TASKS
  /\ free_tcb' = free_tcb + 1
  /\ state' = [state EXCEPT ![free_tcb] = "READY"]
  /\ priority' = [priority EXCEPT ![free_tcb] = p]
  /\ parentTid' = [parentTid EXCEPT ![free_tcb] = t]
  /\ AddToReady({free_tcb, t}, 2)
  /\ SetReturn([u \in {t} |-> free_tcb])
  /\ LoopAgain
  /\ UNCHANGED <<want_send, eventVars>>

\* SYSCALL_CREATE when scheduler_add finds free_tcb NULL.
CreateFails(t) ==
  /\ Calls(t)
  /\ free_tcb = MAX_NUM_TASKS
  /\ AddToReady({t}, 1)
  /\ SetReturn([u \in {t} |-> ENOTASKDESCRIPTORS])
  /\ LoopAgain
  /\ UNCHANGED <<state, want_send, tcbVars, eventVars>>

MyTid(t) ==
  /\ Calls(t)
  /\ AddToReady({t}, 1)
  /\ SetReturn([u \in {t} |-> t])
  /\ LoopAgain
  /\ UNCHANGED <<state, want_send, tcbVars, eventVars>>

MyParentTid(t) ==
  /\ Calls(t)
  /\ AddToReady({t}, 1)
  /\ SetReturn([u \in {t} |-> parentTid[t]])
  /\ LoopAgain
  /\ UNCHANGED <<state, want_send, tcbVars, eventVars>>

Yield(t) ==
  /\ Calls(t)
  /\ AddToReady({t}, 1)
  /\ NoReturn
  /\ LoopAgain
  /\ UNCHANGED <<state, want_send, tcbVars, eventVars>>

\* SYSCALL_EXIT: the descriptor is not reclaimed and its want_send list stays.
Exit(t) ==
  /\ Calls(t)
  /\ state' = [state EXCEPT ![t] = "ZOMBIE"]
  /\ NoReturn
  /\ LoopAgain
  /\ UNCHANGED <<ready, count, want_send, tcbVars, eventVars>>

\* SYSCALL_SHUTDOWN leaves the loop whatever the other tasks are doing.
Shutdown(t) ==
  /\ Calls(t)
  /\ mode' = "returned"
  /\ NoReturn
  /\ UNCHANGED <<cur, state, ready, count, want_send, tcbVars, eventVars>>

-----------------------------------------------------------------------------
(* Message passing.  Message contents and lengths are abstracted; what Receive *)
(* reports is the tid of the sender, what a completed Send or Reply reports   *)
(* is 0.                                                                      *)

\* handle_send(src, dst): dst becomes ready with the message of src.
HandleSend(src, dst) ==
  /\ state' = [state EXCEPT ![src] = "REPLY", ![dst] = "READY"]
  /\ SetReturn([u \in {dst} |-> src])
  /\ AddToReady({dst}, 1)

\* SYSCALL_SEND to a negative tid, beyond backing[], or to a dead descriptor.
SendInvalid(t, target) ==
  /\ Calls(t)
  /\ \/ target < 0 \/ target > MAX_NUM_TASKS
     \/ target \in Tids /\ state[target] = "ZOMBIE"
  /\ AddToReady({t}, 1)
  /\ SetReturn([u \in {t} |-> EINVALIDTID])
  /\ LoopAgain
  /\ UNCHANGED <<state, want_send, tcbVars, eventVars>>

\* The range test lets tid MAX_NUM_TASKS through to backing[MAX_NUM_TASKS].
SendWild(t, target) ==
  /\ Calls(t)
  /\ target >= 0 /\ ~(target > MAX_NUM_TASKS) /\ target \notin Tids
  /\ Stop("WildTcb")

SendToReceiver(t, target) ==
  /\ Calls(t)
  /\ target \in Tids /\ state[target] = "RECEIVE"
  /\ HandleSend(t, target)
  /\ LoopAgain
  /\ UNCHANGED <<want_send, tcbVars, eventVars>>

SendQueued(t, target) ==
  /\ Calls(t)
  /\ target \in Tids /\ state[target] \notin {"ZOMBIE", "RECEIVE"}
  /\ state' = [state EXCEPT ![t] = "SEND"]
  /\ want_send' = [want_send EXCEPT ![target] = Append(@, t)]
  /\ NoReturn
  /\ LoopAgain
  /\ UNCHANGED <<ready, count, tcbVars, eventVars>>

\* Seeded faults: the sender is left in the list; the newest sender is taken.
ReceiveKeepsSender(t) ==
  /\ Calls(t)
  /\ want_send[t] # <<>>
  /\ HandleSend(Head(want_send[t]), t)
  /\ LoopAgain
  /\ UNCHANGED <<want_send, tcbVars, eventVars>>

ReceiveTakesLast(t) ==
  /\ Calls(t)
  /\ want_send[t] # <<>>
  /\ want_send' = [want_send EXCEPT ![t] = SubSeq(@, 1, Len(@) - 1)]
  /\ HandleSend(want_send[t][Len(want_send[t])], t)
  /\ LoopAgain
  /\ UNCHANGED <<tcbVars, eventVars>>

\* SYSCALL_RECEIVE with a sender queued: the oldest one is taken.
ReceiveQueued(t) ==
  /\ Calls(t)
  /\ want_send[t] # <<>>
  /\ want_send' = [want_send EXCEPT ![t] = Tail(@)]
  /\ HandleSend(Head(want_send[t]), t)
  /\ LoopAgain
  /\ UNCHANGED <<tcbVars, eventVars>>

\* Seeded fault: Receive blocks without looking at the list.
ReceiveBlocksAlways(t) ==
  /\ Calls(t)
  /\ state' = [state EXCEPT ![t] = "RECEIVE"]
  /\ NoReturn
  /\ LoopAgain
  /\ UNCHANGED <<ready, count, want_send, tcbVars, eventVars>>

ReceiveBlocks(t) ==
  /\ Calls(t)
  /\ want_send[t] = <<>>
  /\ state' = [state EXCEPT ![t] = "RECEIVE"]
  /\ NoReturn
  /\ LoopAgain
  /\ UNCHANGED <<ready, count, want_send, tcbVars, eventVars>>

\* SYSCALL_REPLY to a task that waits for a reply: both become ready.
ReplyDelivered(t, target) ==
  /\ Calls(t)
  /\ target \in Tids /\ state[target] = "REPLY"
  /\ state' = [state EXCEPT ![target] = "READY"]
  /\ AddToReady({target, t}, 2)
  /\ SetReturn([u \in {target, t} |-> 0])
  /\ LoopAgain
  /\ UNCHANGED <<want_send, tcbVars, eventVars>>

\* SYSCALL_REPLY to a task that does not wait for one.  The error code is set
\* and the caller readied, but then the handler calls debugprint(CRITICAL_DEBUG),
\* which FILTER lets through: printf(COM2), WhoIsBlock, Send, that is, a swi
\* executed in kernel mode while user_reg is 0.
ReplyRefused(t, target) ==
  /\ Calls(t)
  /\ target \in Tids /\ state[target] # "REPLY"
  /\ AddToReady({t}, 1)
  /\ SetReturn([u \in {t} |-> IF state[target] = "ZOMBIE" THEN EINVALIDTID
                                                        ELSE ENOTREPLYWAIT])
  /\ mode' = "KernelSwi"
  /\ cur' = NoTask
  /\ UNCHANGED <<state, want_send, tcbVars, eventVars>>

\* SYSCALL_REPLY does not check the range of its tid at all.
ReplyWild(t, target) ==
  /\ Calls(t)
  /\ target \notin Tids
  /\ Stop("WildTcb")

-----------------------------------------------------------------------------
(* Events *)

\* Seeded fault: waiting for UART1 to transmit does not enable the CTS interrupt.
EnabledByNoCts(e) ==
  CASE e = "UART1_TX_INTR"       -> {"UART1TXINTR"}
    [] e = "UART1_RX_INTR"       -> {"UART1RXINTR"}
    [] e = "UART2_TX_HALF_EMPTY" -> {"UART2TXINTR"}
    [] e = "UART2_RX_INCOMING"   -> {"UART2RXINTR", "UART2RTIEINTR"}
    [] e = "TIMER_TICK"          -> {}

\* The interrupts AwaitEvent enables before it parks the caller on the event.
EnabledBy(e) ==
  CASE e = "UART1_TX_INTR"       -> {"UART1TXINTR", "UART1CTSINTR"}
    [] e = "UART1_RX_INTR"       -> {"UART1RXINTR"}
    [] e = "UART2_TX_HALF_EMPTY" -> {"UART2TXINTR"}
    [] e = "UART2_RX_INCOMING"   -> {"UART2RXINTR", "UART2RTIEINTR"}
    [] e = "TIMER_TICK"          -> {}

\* Seeded fault: the parked task is not counted.
AwaitEventUncounted(t, e) ==
  /\ Calls(t)
  /\ event_mapping[e] = NoTask
  /\ event_mapping' = [event_mapping EXCEPT ![e] = t]
  /\ intr' = intr \cup EnabledBy(e)
  /\ uart1_tx_flag' = IF e = "UART1_TX_INTR" THEN {} ELSE uart1_tx_flag
  /\ NoReturn
  /\ LoopAgain
  /\ UNCHANGED <<state, ready, count, want_send, interrupt_tasks, tcbVars>>

\* SYSCALL_AWAITEVENT for an event nobody waits for.
AwaitEvent(t, e) ==
  /\ Calls(t)
  /\ event_mapping[e] = NoTask
  /\ event_mapping' = [event_mapping EXCEPT ![e] = t]
  /\ interrupt_tasks' = interrupt_tasks + 1
  /\ intr' = intr \cup EnabledBy(e)
  /\ uart1_tx_flag' = IF e = "UART1_TX_INTR" THEN {} ELSE uart1_tx_flag
  /\ NoReturn
  /\ LoopAgain
  /\ UNCHANGED <<state, ready, count, want_send, tcbVars>>

\* The KASSERT that no other task waits for the event.
AwaitTaken(t, e) ==
  /\ Calls(t)
  /\ event_mapping[e] # NoTask
  /\ Stop("DoubleAwait")

\* An id that is no event at all, which SYSCALL_AWAITEVENT does not check: what is
\* behind event_mapping[] fails the KASSERT or it does not, and then no branch is
\* taken and the caller is in no list any more.
AwaitWild(t) == Calls(t) /\ Stop("WildEvent")

\* Seeded fault: the caller of AwaitEvent(BREAK_IDLE) is not readied again.
AwaitBreakIdleParks(t) ==
  /\ mode = "running" /\ cur = t /\ t # NoTask
  /\ NoReturn
  /\ LoopAgain
  /\ UNCHANGED <<state, ready, count, want_send, tcbVars, eventVars>>

\* AwaitEvent(BREAK_IDLE): halt until an interrupt is pending, then be ready
\* again with the time slept, which is abstracted.
AwaitBreakIdle(t) ==
  /\ mode = "running" /\ cur = t /\ t # NoTask
  /\ AddToReady({t}, 1)
  /\ SetReturn([u \in {t} |-> 0])
  /\ LoopAgain
  /\ UNCHANGED <<state, want_send, tcbVars, eventVars>>

\* What the interrupt handler reads: the masked status bits of UART1 and UART2 (a
\* bit needs its interrupt enabled) and whether CTS has risen.
Rx2(uart2) == {"UART2RXINTR", "UART2RTIEINTR"} \cap uart2 # {}
Seen(uart1, cts) == {b \in {"TX", "CTS"} :
                       \/ b = "TX" /\ "UART1TXINTR" \in uart1
                       \/ b = "CTS" /\ "UART1CTSINTR" \in uart1 /\ cts}
Flag(uart1, cts) == uart1_tx_flag \cup Seen(uart1, cts)
Tx1(uart1, cts)  == uart1 # {} /\ Flag(uart1, cts) = {"TX", "CTS"}

\* The wake_up calls whose result is asserted ("Nobody home").
MustWake(uart1, uart2, cts) ==
  {e \in Events :
     \/ e = "UART2_RX_INCOMING" /\ Rx2(uart2)
     \/ e = "UART2_TX_HALF_EMPTY" /\ ~Rx2(uart2) /\ "UART2TXINTR" \in uart2
     \/ e = "UART1_RX_INTR" /\ "UART1RXINTR" \in uart1
     \/ e = "UART1_TX_INTR" /\ Tx1(uart1, cts)}

\* The interrupts the handler disables.
DisabledBy(uart1, uart2, cts) ==
  {i \in Interrupts :
     \/ i \in {"UART2RXINTR", "UART2RTIEINTR"} /\ Rx2(uart2)
     \/ i = "UART2TXINTR" /\ i \in uart2 /\ ~Rx2(uart2)
     \/ i = "UART1RXINTR" /\ i \in uart1
     \/ i = "UART1TXINTR" /\ "TX" \in Seen(uart1, cts)
     \/ i = "UART1CTSINTR" /\ "CTS" \in Seen(uart1, cts)}

\* The events whose waiter wake_up finds and readies; a tick nobody waits for is
\* dropped.
Woken(tick, uart1, uart2, cts) ==
  {e \in Events : /\ e \in MustWake(uart1, uart2, cts) \/ (tick /\ e = "TIMER_TICK")
                  /\ event_mapping[e] # NoTask}

\* SYSCALL_IRQ: TIMER1 fired (tick), or a UART has status bits set.
IRQ(tick, uart1, uart2, cts) ==
  LET woken == Woken(tick, uart1, uart2, cts)
      tasks == {event_mapping[e] : e \in woken}
  IN  /\ mode = "running" /\ cur # NoTask
      /\ tick \/ uart1 # {} \/ uart2 # {}
      /\ event_mapping' = [e \in Events |-> IF e \in woken THEN NoTask
                                           ELSE event_mapping[e]]
      /\ interrupt_tasks' = interrupt_tasks - Cardinality(woken)
      /\ intr' = intr \ DisabledBy(uart1, uart2, cts)
      /\ uart1_tx_flag' = IF Tx1(uart1, cts) THEN {} ELSE Flag(uart1, cts)
      /\ AddToReady(tasks \cup {cur}, Cardinality(woken) + 1)
      /\ SetReturn([u \in tasks |-> 0])
      \* KASSERT(0, "Nobody home")
      /\ mode' = IF MustWake(uart1, uart2, cts) \subseteq woken THEN "running"
                                                               ELSE "NobodyHome"
      /\ cur' = NoTask
      /\ UNCHANGED <<state, want_send, tcbVars>>

Uart1Interrupts == {"UART1CTSINTR", "UART1TXINTR", "UART1RXINTR"}
Uart2Interrupts == {"UART2TXINTR", "UART2RXINTR", "UART2RTIEINTR"}

Interrupt ==
  \E tick, cts \in BOOLEAN, uart1 \in SUBSET (intr \cap Uart1Interrupts),
     uart2 \in SUBSET (intr \cap Uart2Interrupts) : IRQ(tick, uart1, uart2, cts)

\* After the loop, or in the endless loop of my_assert, nothing happens.
Halted == mode # "running" /\ UNCHANGED vars

Next ==
  \/ \E t \in Tids :
       \/ Dispatch(t)
       \/ \E p \in Priorities : Create(t, p)
       \/ CreateFails(t) \/ MyTid(t) \/ MyParentTid(t) \/ Yield(t)
       \/ Exit(t) \/ Shutdown(t)
       \/ \E target \in SendTids :
            \/ SendInvalid(t, target) \/ SendWild(t, target)
            \/ SendToReceiver(t, target) \/ SendQueued(t, target)
       \/ ReceiveQueued(t) \/ ReceiveBlocks(t)
       \/ \E target \in ReplyTids :
            \/ ReplyDelivered(t, target) \/ ReplyRefused(t, target)
            \/ ReplyWild(t, target)
       \/ \E e \in Events : AwaitEvent(t, e) \/ AwaitTaken(t, e)
       \/ AwaitWild(t) \/ AwaitBreakIdle(t)
  \/ Return
  \/ Interrupt
  \/ Halted

Spec == Init /\ [][Next]_vars

-----------------------------------------------------------------------------
(* Properties *)

Parked == {event_mapping[e] : e \in Events} \ {NoTask}

\* The senders in the want_send list of r.
Queued(r) == {want_send[r][i] : i \in DOMAIN want_send[r]}

\* The READY tasks are the running one, those in the queue and those parked.
ReadyPlace ==
  \A t \in Tids : state[t] = "READY" <=> t \in ready \/ t \in Parked \/ t = cur

\* The SEND tasks are those in a want_send list.
SendPlace ==
  \A t \in Tids : state[t] = "SEND" <=> \E r \in Tids : t \in Queued(r)

\* ... each at one position of one list.
SendersDistinct ==
  \A r, s \in Tids : \A i \in DOMAIN want_send[r], j \in DOMAIN want_send[s] :
    want_send[r][i] = want_send[s][j] => r = s /\ i = j

\* The three places of a READY task exclude each other.
NotTwice ==
  /\ cur \notin ready
  /\ cur \notin Parked
  /\ ready \cap Parked = {}
  /\ \A e, f \in Events : event_mapping[e] = event_mapping[f] /\ e # f
                            => event_mapping[e] = NoTask

\* A descriptor that was never handed out is in no list.
FreeUnused == \A t \in Tids : t >= free_tcb => state[t] = "ZOMBIE"

\* No task is lost and none is in two places: a READY task is the running one,
\* in the ready queue or parked on exactly one event, and only READY tasks are;
\* a SEND task is at exactly one position of exactly one want_send list and only
\* SEND tasks are; a descriptor that was never handed out is ZOMBIE.  It is what
\* the TCB lists of task.c and main.c, which share one next pointer per task,
\* rest on.
OnePlace ==
  ReadyPlace /\ SendPlace /\ SendersDistinct /\ NotTwice /\ FreeUnused

\* add_to_ready_queue never enters a task that is already in the heap, so count
\* is the number of ready tasks, and its KASSERT that there is space never fires.
QueueHasSpace == count = Cardinality(ready) /\ count <= MAX_NUM_TASKS

\* interrupt_tasks, which keeps kmain in its loop when only idle is ready, is the
\* number of tasks parked on an event.
InterruptCount ==
  interrupt_tasks = Cardinality({e \in Events : event_mapping[e] # NoTask})

\* An interrupt is enabled only while a task is parked on its event, and a task
\* parked on a UART event still has every interrupt it needs enabled or already
\* counted in uart1_tx_flag: it cannot be stranded, and the "Nobody home"
\* assertions of the interrupt handler cannot fire.
NobodyStranded ==
  /\ "UART1RXINTR" \in intr <=> event_mapping["UART1_RX_INTR"] # NoTask
  /\ "UART2TXINTR" \in intr <=> event_mapping["UART2_TX_HALF_EMPTY"] # NoTask
  /\ "UART2RXINTR" \in intr <=> event_mapping["UART2_RX_INCOMING"] # NoTask
  /\ "UART2RTIEINTR" \in intr <=> event_mapping["UART2_RX_INCOMING"] # NoTask
  /\ IF event_mapping["UART1_TX_INTR"] = NoTask
       THEN uart1_tx_flag = {} /\ intr \cap {"UART1TXINTR", "UART1CTSINTR"} = {}
       ELSE /\ "TX" \in uart1_tx_flag <=> "UART1TXINTR" \notin intr
            /\ "CTS" \in uart1_tx_flag <=> "UART1CTSINTR" \notin intr
            /\ uart1_tx_flag # {"TX", "CTS"}

\* The kernel's own assertions hold for every user program: an interrupt always
\* finds the task it is for, and at the head of the loop idle is ready, so that
\* pop_ready_queue never finds an empty queue.
KernelAssertsHold ==
  /\ mode # "NobodyHome"
  /\ mode = "running" /\ cur = NoTask => Idle \in ready

\* A receiver blocks only when nobody is queued for it, and nobody is queued
\* while it is blocked.
NoMissedSender == \A t \in Tids : state[t] = "RECEIVE" => want_send[t] = <<>>

\* Some task but idle runs, is ready or is parked on an event.
SomeoneLeft == \E t \in Tids \ {Idle} : state[t] = "READY"

\* kmain leaves the loop on its own exactly when no task but idle could ever run again,
\* each of them dead or blocked on a message nobody is left to send.  That rests on the
\* two counters, count and interrupt_tasks: one too low ends the program under a task
\* that waits for an event, one too high keeps idle in the loop for ever.
CleanReturn ==
  cur = NoTask =>
    /\ mode = "returned" => ~SomeoneLeft /\ Parked = {}
    /\ mode = "running" /\ LoopGuard => SomeoneLeft

\* How a blocked task can be released: a queued sender by a Receive of the task
\* it is queued on, oldest first; a receiver by a message whose sender then waits
\* for the reply; a sender whose message was taken by a Reply; and a dead task by
\* nothing (its descriptor is not reused).
RendezvousSteps ==
  [][\A t \in Tids : state'[t] # state[t] =>
       CASE state[t] = "SEND" ->
              /\ state'[t] = "REPLY"
              /\ \E r \in Tids : cur = r /\ ret'[r] = t /\ Head(want_send[r]) = t
         [] state[t] = "RECEIVE" ->
              /\ state'[t] = "READY" /\ t \in ready'
              /\ ret'[t] = cur /\ state'[cur] = "REPLY"
         [] state[t] = "REPLY" ->
              /\ state'[t] = "READY" /\ {t, cur} \subseteq ready' /\ ret'[t] = 0
         [] state[t] = "ZOMBIE" -> t = free_tcb
         [] OTHER -> t = cur]_vars

-----------------------------------------------------------------------------
(* What the documentation says and the code does not do *)

\* README.md:96-98, Send: "-1  tid is not the task id of an existing task.",
\* README.md:128-130, Reply: "-2  tid is not the task id of a reply-blocked task.", and
\* README.md:180-182, AwaitEvent: "-1  invalid event.": a call with the wrong tid or
\* event is an error for its caller, after which the system goes on.
ErrorsReturned == mode \notin {"WildTcb", "WildEvent", "KernelSwi"}
=============================================================================
