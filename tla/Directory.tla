------------------------------ MODULE Directory ------------------------------
(***************************************************************************)
(* What the name server promises (README.md, "Name Server"): every WhoIs   *)
(* returns the task that has registered the name last.                     *)
(***************************************************************************)
CONSTANTS Names, Tasks, NoTask

VARIABLES registry,   \* the task registered under each name
          known       \* what the tasks have been told: triples of the asking task, the
                      \* name and the answer

Init ==
  /\ registry = [n \in Names |-> NoTask]
  /\ known = {}

Register(n, t) ==
  /\ registry' = [registry EXCEPT ![n] = t]
  /\ UNCHANGED known

Lookup(t, n) ==
  /\ registry[n] # NoTask
  /\ known' = known \cup {<<t, n, registry[n]>>}
  /\ UNCHANGED registry

Next == \E t \in Tasks, n \in Names : Register(n, t) \/ Lookup(t, n)

Spec == Init /\ [][Next]_<<registry, known>>
=============================================================================
