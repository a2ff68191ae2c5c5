------------------------------ MODULE TimeHeap ------------------------------
(***************************************************************************)
(* The heap of src/common/heap.c, in which the train server keeps its      *)
(* commands by the time at which they are to be sent: an array of pointers *)
(* to items that start with their time.  A child that does not exist       *)
(* counts as one of the time LARGE.                                        *)
(***************************************************************************)
EXTENDS Integers, FiniteSets

CONSTANTS Items,   \* the train_tasks
          Time,    \* the time of each
          LARGE,   \* 0x00FFFFFF in heap_pop
          NoItem

HeapAssumption ==
  /\ IsFiniteSet(Items) /\ NoItem \notin Items
  /\ LARGE \in Nat /\ Time \in [Items -> 0 .. LARGE - 1]

Slots == 0 .. 2 * Cardinality(Items)   \* heap_pop may look behind the entries

VARIABLES items,   \* the array; what is behind the first len entries is stale
          len

vars == <<items, len>>

Entries == {items[i] : i \in 0 .. len - 1}

TypeOK ==
  /\ items \in [Slots -> Items \cup {NoItem}]
  /\ len \in 0 .. Cardinality(Items)
  /\ Entries \subseteq Items

\* heap_init
Init == items = [i \in Slots |-> NoItem] /\ len = 0

Swap(h, a, b) == [h EXCEPT ![a] = h[b], ![b] = h[a]]

\* A round of the loop of heap_add, in which s.i is the slot of the item added to s.h.
Rise(s) ==
  LET parent == (s.i - 1) \div 2
  IN  IF s.i # 0 /\ Time[s.h[s.i]] < Time[s.h[parent]]
        THEN [h |-> Swap(s.h, s.i, parent), i |-> parent]
        ELSE s

SiftUp(h, i) ==
  LET after[k \in Nat] == IF k = 0 THEN [h |-> h, i |-> i] ELSE Rise(after[k - 1])
  IN  after[i].h

\* The time of the entry in slot i, if there is one.
TimeAt(h, n, i) == IF i < n THEN Time[h[i]] ELSE LARGE

\* Seeded fault: the item goes down on the side of the later child.
SinkLater(s, n) ==
  LET left == TimeAt(s.h, n, 2 * s.i + 1)
      right == TimeAt(s.h, n, 2 * s.i + 2)
      j == IF left < right /\ right < LARGE THEN 2 * s.i + 2 ELSE 2 * s.i + 1
  IN  IF s.i < n /\ ~(Time[s.h[s.i]] < left /\ Time[s.h[s.i]] < right)
        THEN [h |-> Swap(s.h, s.i, j), i |-> j]
        ELSE s

\* A round of the loop of heap_pop, with n entries, of which the one in slot s.i is too high.
Sink(s, n) ==
  LET left == TimeAt(s.h, n, 2 * s.i + 1)
      right == TimeAt(s.h, n, 2 * s.i + 2)
      j == IF left < right THEN 2 * s.i + 1 ELSE 2 * s.i + 2
  IN  IF s.i < n /\ ~(Time[s.h[s.i]] < left /\ Time[s.h[s.i]] < right)
        THEN [h |-> Swap(s.h, s.i, j), i |-> j]
        ELSE s

SiftDown(h, n) ==
  LET after[k \in Nat] == IF k = 0 THEN [h |-> h, i |-> 0] ELSE Sink(after[k - 1], n)
  IN  after[n].h

\* heap_add of an item that is not in the heap (build_task takes it off the free list).
Add(x) ==
  /\ x \notin Entries
  /\ items' = SiftUp([items EXCEPT ![len] = x], len)
  /\ len' = len + 1

\* heap_peek returns x, and heap_pop takes it out.
Pop(x) ==
  /\ len > 0 /\ x = items[0]
  /\ len' = IF len < 2 THEN 0 ELSE len - 1
  /\ items' = IF len < 2 THEN items
              ELSE SiftDown([items EXCEPT ![0] = items[len - 1]], len - 1)

Next == \E x \in Items : Add(x) \/ Pop(x)

Spec == Init /\ [][Next]_vars

-----------------------------------------------------------------------------
\* The heap implements a set out of which an item of the earliest time is taken, which
\* is what TrainServer uses: heap_pop's way of moving an item on to an equal child never
\* takes it past the last entry, as long as all times are below LARGE.
Abstract == INSTANCE PriorityQueue
              WITH Tasks <- Items, Priority <- [x \in Items |-> -Time[x]], ready <- Entries
ImplementsPriorityQueue == Abstract!Spec
=============================================================================
