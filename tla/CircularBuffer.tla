--------------------------- MODULE CircularBuffer ---------------------------
(***************************************************************************)
(* The circular buffer of src/common/circularbuffer.c, which the servers   *)
(* use for their queues of tasks and the printers for the latest sensors.  *)
(* Pointers are indices of buffer in units of size, buffer_end is          *)
(* capacity.                                                               *)
(***************************************************************************)
EXTENDS Integers, Sequences

CONSTANTS Items, capacity,
          NoItem               \* the zeros of cb_init

\* A buffer has room for an item: every cb_init in the repository has.
ASSUME BufferAssumption == capacity \in Nat \ {0} /\ NoItem \notin Items

VARIABLES buffer, head, tail, count,
          status,   \* what the last call returned
          out       \* what it copied to its caller

vars == <<buffer, head, tail, count, status, out>>

Positions == 0 .. capacity - 1

TypeOK ==
  /\ buffer \in [Positions -> Items \cup {NoItem}]
  /\ head \in Positions /\ tail \in Positions /\ count \in 0 .. capacity
  /\ status \in {"0", "CB_FULL", "CB_EMPTY"} /\ out \in Seq(Items)

\* cb_init
Zeroed == [i \in Positions |-> NoItem]
Init ==
  /\ buffer = Zeroed /\ head = 0 /\ tail = 0 /\ count = 0
  /\ status = "0" /\ out = <<>>

\* Seeded fault: the pointer stays at the end of the buffer.
AdvanceSticks(i) == IF i + 1 = capacity THEN i ELSE i + 1

\* p = p + size; if (p == buffer_end) p = buffer
Advance(i) == IF i + 1 = capacity THEN 0 ELSE i + 1

\* Where i advances lead from the tail.
At(i) == IF tail + i >= capacity THEN tail + i - capacity ELSE tail + i

\* The items in the order in which cb_to_array copies them.
Contents == [i \in 1 .. count |-> buffer[At(i - 1)]]

\* cb_push_back; an aggressive one into a full buffer calls cb_pop_front first.
Push(x, aggressive) ==
  LET full == count = capacity
  IN  /\ out' = <<>>
      /\ IF full /\ ~aggressive
           THEN status' = "CB_FULL" /\ UNCHANGED <<buffer, head, tail, count>>
           ELSE /\ status' = "0"
                /\ buffer' = [buffer EXCEPT ![head] = x]
                /\ head' = Advance(head)
                /\ tail' = IF full THEN Advance(tail) ELSE tail
                /\ count' = IF full THEN count ELSE count + 1

\* cb_pop_front
Pop ==
  /\ UNCHANGED <<buffer, head>>
  /\ IF count = 0
       THEN status' = "CB_EMPTY" /\ out' = <<>> /\ UNCHANGED <<tail, count>>
       ELSE /\ status' = "0"
            /\ out' = <<buffer[tail]>>
            /\ tail' = Advance(tail)
            /\ count' = count - 1

\* cb_to_array, which returns the length of what it copies.
ToArray ==
  /\ status' = "0" /\ out' = Contents
  /\ UNCHANGED <<buffer, head, tail, count>>

\* cb_clear
Clear ==
  /\ buffer' = Zeroed /\ head' = 0 /\ tail' = 0 /\ count' = 0
  /\ status' = "0" /\ out' = <<>>

Next ==
  \/ \E x \in Items, aggressive \in BOOLEAN : Push(x, aggressive)
  \/ Pop \/ ToArray \/ Clear

Spec == Init /\ [][Next]_vars

-----------------------------------------------------------------------------
\* The tail, the head and the count agree, whatever wraps around, and what is between
\* them are items.
Consistent == head = At(count) /\ Contents \in Seq(Items)

\* Through every wrap of its pointers, refused and aggressive pushes and clears, the
\* buffer implements a bounded queue.
Queue == INSTANCE BoundedQueue WITH queue <- Contents
ImplementsBoundedQueue == Queue!Spec
=============================================================================
