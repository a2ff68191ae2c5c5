----------------------------- MODULE ReadyQueue -----------------------------
(***************************************************************************)
(* The ready queue of src/kernel/task.c: an array heap ordered by priority *)
(* and, among equal priorities, by the value TIMER3 had when the task was  *)
(* added.  TIMER3 counts down and reloads, so an earlier task has the      *)
(* larger time only until the counter reloads; and two tasks added within  *)
(* one count of the timer have the same time.                              *)
(***************************************************************************)
EXTENDS Integers, Sequences, FiniteSets

CONSTANTS Tasks,       \* the task descriptors, as many as the heap has room for
          Priority,    \* the priority of each
          TIMER3LOAD,  \* the reload value of TIMER3 (2^32 - 1 in timer.h)
          MaxClock,    \* bound: counts of TIMER3 the model lets pass
          NoTask

QueueAssumption ==
  /\ IsFiniteSet(Tasks) /\ Priority \in [Tasks -> Int]
  /\ TIMER3LOAD \in Nat /\ MaxClock \in Nat
  /\ NoTask \notin Tasks

Capacity == Cardinality(Tasks)
Slots    == 0 .. Capacity - 1

VARIABLES
  _ready_queue,  \* the array; the entries from count on are stale
  count,         \* its number of entries
  added_time,    \* TCB.added_time
  clock,         \* counts of TIMER3 since it was started
  added_at       \* history: the value of clock when the task was last added

vars == <<_ready_queue, count, added_time, clock, added_at>>

\* What read_timer(TIMER3) returns.
Timer3 == TIMER3LOAD - (clock % (TIMER3LOAD + 1))

Entries == {_ready_queue[i] : i \in 0 .. count - 1}

TypeOK ==
  /\ _ready_queue \in [Slots -> Tasks \cup {NoTask}]
  /\ count \in 0 .. Capacity
  /\ added_time \in [Tasks -> 0 .. TIMER3LOAD]
  /\ clock \in 0 .. MaxClock
  /\ added_at \in [Tasks -> 0 .. MaxClock]

Init ==
  /\ _ready_queue = [i \in Slots |-> NoTask]
  /\ count = 0
  /\ added_time = [t \in Tasks |-> 0]
  /\ clock = 0
  /\ added_at = [t \in Tasks |-> 0]

-----------------------------------------------------------------------------
\* Seeded fault: the task that was added later wins.
BeatsSmallerTime(t, u, times) ==
  \/ Priority[t] > Priority[u]
  \/ Priority[t] = Priority[u] /\ times[t] < times[u]

\* cmp_priority(a, b) == 1
Beats(t, u, times) ==
  \/ Priority[t] > Priority[u]
  \/ Priority[t] = Priority[u] /\ times[t] > times[u]

Swap(h, a, b) == [h EXCEPT ![a] = h[b], ![b] = h[a]]

\* A round of the loop of add_to_ready_queue, in which s.i is the slot of the task added
\* to s.h.
Rise(s, times) ==
  LET parent == (s.i - 1) \div 2
  IN  IF s.i # 0 /\ Beats(s.h[s.i], s.h[parent], times)
        THEN [h |-> Swap(s.h, s.i, parent), i |-> parent]
        ELSE s

SiftUp(h, i, times) ==
  LET after[k \in Nat] == IF k = 0 THEN [h |-> h, i |-> i] ELSE Rise(after[k - 1], times)
  IN  after[i].h

\* A call of top_down_heapify(s.i) with n entries, without the next call in it.
Sink(s, n, times) ==
  LET l == 2 * s.i + 1
      r == 2 * s.i + 2
      m == IF l < n /\ Beats(s.h[l], s.h[s.i], times) THEN l ELSE s.i
      largest == IF r < n /\ Beats(s.h[r], s.h[m], times) THEN r ELSE m
  IN  IF largest # s.i THEN [h |-> Swap(s.h, s.i, largest), i |-> largest] ELSE s

\* top_down_heapify(0): at most n calls that swap.
Heapify(h, n, times) ==
  LET after[k \in Nat] == IF k = 0 THEN [h |-> h, i |-> 0] ELSE Sink(after[k - 1], n, times)
  IN  after[n].h

-----------------------------------------------------------------------------
\* TIMER3 counts.
Count == clock < MaxClock /\ clock' = clock + 1
         /\ UNCHANGED <<_ready_queue, count, added_time, added_at>>

\* add_to_ready_queue of a task that is not in the queue (theorem
\* TasksInOnePlace of KernelProofs says that the kernel adds no other).
Add(t) ==
  /\ t \notin Entries
  /\ added_time' = [added_time EXCEPT ![t] = Timer3]
  /\ added_at' = [added_at EXCEPT ![t] = clock]
  /\ _ready_queue' = SiftUp([_ready_queue EXCEPT ![count] = t], count, added_time')
  /\ count' = count + 1
  /\ UNCHANGED clock

\* pop_ready_queue returns t.
Pop(t) ==
  /\ count > 0
  /\ t = _ready_queue[0]
  /\ count' = count - 1
  /\ _ready_queue' =
       IF count = 1 THEN _ready_queue
       ELSE Heapify([_ready_queue EXCEPT ![0] = _ready_queue[count - 1]], count - 1, added_time)
  /\ UNCHANGED <<added_time, clock, added_at>>

Next == Count \/ \E t \in Tasks : Add(t) \/ Pop(t)

Spec == Init /\ [][Next]_vars

-----------------------------------------------------------------------------
\* The heap implements the set out of which a task of the highest priority is
\* taken, as Kernel!Dispatch does.
Abstract == INSTANCE PriorityQueue WITH ready <- Entries
ImplementsPriorityQueue == Abstract!Spec

Popped(t) == t \in Entries /\ t \notin Entries'

\* TIMER3 was reloaded between the additions of t and u.
Reloaded(t, u) == added_at[t] \div (TIMER3LOAD + 1) # added_at[u] \div (TIMER3LOAD + 1)

\* Tasks of one priority leave the queue in the order in which they were added,
\* unless they were added within one count of TIMER3 or on the two sides of a
\* reload of it.
FifoWithinPeriod ==
  [][\A t, u \in Tasks :
       Popped(t) /\ u \in Entries /\ Priority[t] = Priority[u] /\ added_at[u] < added_at[t]
         => Reloaded(t, u)]_vars
=============================================================================
