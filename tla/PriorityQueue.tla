---------------------------- MODULE PriorityQueue ----------------------------
(***************************************************************************)
(* What the kernel needs of its ready queue: a set of tasks out of which a *)
(* task of the highest priority is taken.  Kernel!Dispatch takes tasks in  *)
(* this way, and ReadyQueue implements it with the heap of task.c.         *)
(***************************************************************************)
EXTENDS Integers

CONSTANTS Tasks, Priority    \* the tasks and the priority of each

VARIABLE ready

Init == ready = {}

Add(t) == t \notin ready /\ ready' = ready \cup {t}

Pop(t) ==
  /\ t \in ready
  /\ \A u \in ready : Priority[u] <= Priority[t]
  /\ ready' = ready \ {t}

Next == \E t \in Tasks : Add(t) \/ Pop(t)

Spec == Init /\ [][Next]_ready
=============================================================================
