-------------------------------- MODULE Heaps --------------------------------
(***************************************************************************)
(* The two heaps of the program: the ready queue of src/kernel/task.c, in  *)
(* the kernel, and the heap of src/common/heap.c, in the train server.     *)
(* They share no data.                                                     *)
(***************************************************************************)
EXTENDS Integers, FiniteSets

CONSTANTS Descriptors, NoDescriptor,      \* the tasks
          Priority, TIMER3LOAD, MaxClock,   \* see ReadyQueue
          TrainTasks, NoTrainTask,          \* the train server's commands
          Time, LARGE                       \* see TimeHeap

VARIABLES ready_queue, ready_count, added_time, clock, added_at,
          items, len

Ready == INSTANCE ReadyQueue
           WITH Tasks <- Descriptors, NoTask <- NoDescriptor,
                _ready_queue <- ready_queue, count <- ready_count

Heap == INSTANCE TimeHeap WITH Items <- TrainTasks, NoItem <- NoTrainTask

HeapsAssumption == Ready!QueueAssumption /\ Heap!HeapAssumption

readyVars == <<ready_queue, ready_count, added_time, clock, added_at>>
heapVars == <<items, len>>
heaps == <<readyVars, heapVars>>

HeapsInit == Ready!Init /\ Heap!Init

HeapsNext ==
  \/ Ready!Next /\ UNCHANGED heapVars
  \/ Heap!Next /\ UNCHANGED readyVars

HeapsSpec == HeapsInit /\ [][HeapsNext]_heaps

-----------------------------------------------------------------------------
\* The heap of task.c, whose entries carry timestamps, gives the kernel a task of the
\* highest priority, and the one of heap.c the train server a command of the earliest
\* time, whatever is added and popped in between.
HeapsImplement == Ready!ImplementsPriorityQueue /\ Heap!ImplementsPriorityQueue

\* Tasks of one priority leave the ready queue in the order in which they were added,
\* while TIMER3 does not reload.
ReadyQueueFifo == Ready!FifoWithinPeriod
=============================================================================
