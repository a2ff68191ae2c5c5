---------------------------- MODULE BoundedQueue ----------------------------
(***************************************************************************)
(* What circularbuffer.c promises: a queue of at most capacity items.  A   *)
(* push into a full queue is refused, or, if it is aggressive, drops the   *)
(* oldest item.                                                            *)
(***************************************************************************)
EXTENDS Integers, Sequences

CONSTANTS Items, capacity

VARIABLES queue,    \* the items, the oldest first
          status,   \* what the last call returned
          out       \* what it copied to its caller

vars == <<queue, status, out>>

Init == queue = <<>> /\ status = "0" /\ out = <<>>

Push(x, aggressive) ==
  LET full == Len(queue) = capacity
  IN  /\ queue' = IF ~full THEN Append(queue, x)
                  ELSE IF aggressive THEN Append(Tail(queue), x) ELSE queue
      /\ status' = IF full /\ ~aggressive THEN "CB_FULL" ELSE "0"
      /\ out' = <<>>

Pop ==
  IF queue = <<>> THEN status' = "CB_EMPTY" /\ out' = <<>> /\ UNCHANGED queue
  ELSE status' = "0" /\ out' = <<Head(queue)>> /\ queue' = Tail(queue)

ToArray == status' = "0" /\ out' = queue /\ UNCHANGED queue

Clear == status' = "0" /\ out' = <<>> /\ queue' = <<>>

Next ==
  \/ \E x \in Items, aggressive \in BOOLEAN : Push(x, aggressive)
  \/ Pop \/ ToArray \/ Clear

Spec == Init /\ [][Next]_vars
=============================================================================
