--------------------------- MODULE StructuresProofs ---------------------------
(***************************************************************************)
(* Proofs about the code that runs within one task, for all parameters.    *)
(*                                                                         *)
(* The circular buffer implements a bounded queue: the invariant is        *)
(* Consistent, the head is where the items end.  The name server           *)
(* implements a directory.  The shell executes what its user sees.         *)
(*                                                                         *)
(* The loops of the search and of the heaps are functions of the number of *)
(* rounds; SetInduction and Iteration say that they exist and end.  The    *)
(* search finds a shortest drive: the invariant is that no marked node is  *)
(* farther than an unmarked one and that every distance is the length of a *)
(* drive.  The two heaps implement priority queues: a round of their loops *)
(* leaves one entry, the one that moves, which may be out of order.        *)
(***************************************************************************)
EXTENDS CircularBuffer, NameServer, Shell, PathSearch, Heaps,
        FiniteSetTheorems, FunctionTheorems, WellFoundedInduction, TLAPS

-----------------------------------------------------------------------------
(* The circular buffer *)

IInv == TypeOK /\ Consistent

\* Where Advance and At lead: cb_push_back, cb_pop_front and cb_to_array stay inside the
\* buffer, and one more advance of the tail is the same as one more of the cursor.
LEMMA AtFacts ==
  ASSUME TypeOK
  PROVE  /\ \A i \in 0 .. capacity : At(i) \in Positions
         /\ \A i, j \in 0 .. capacity - 1 : At(i) = At(j) => i = j
         /\ At(0) = tail
         /\ At(capacity) = tail
         /\ \A i \in 0 .. capacity - 1 : Advance(At(i)) = At(i + 1)
  BY BufferAssumption DEF TypeOK, At, Advance, Positions

\* The contents are items, one for each of count.
LEMMA ContentsFacts ==
  ASSUME IInv
  PROVE  /\ Contents \in Seq(Items) /\ Len(Contents) = count
         /\ \A i \in 1 .. count : Contents[i] = buffer[At(i - 1)]
<1>1. count \in Nat
  BY BufferAssumption DEF IInv, TypeOK
<1> QED
  BY <1>1 DEF IInv, Consistent, Contents

\* A function that agrees with a sequence is that sequence.
LEMMA SameSequence ==
  ASSUME NEW S, NEW s \in Seq(S), NEW f, f = [i \in 1 .. Len(s) |-> f[i]],
         \A i \in 1 .. Len(s) : f[i] = s[i]
  PROVE  f = s
<1>1. s = [i \in 1 .. Len(s) |-> s[i]]
  OBVIOUS
<1> QED
  BY <1>1

\* cb_init
LEMMA InitRefines == Init => IInv /\ Queue!Init
<1> SUFFICES ASSUME Init PROVE IInv /\ Queue!Init
  OBVIOUS
<1>1. Contents = <<>>
  BY DEF Init, Contents
<1>2. IInv
  BY <1>1, BufferAssumption DEF Init, IInv, TypeOK, Consistent, At, Positions, Zeroed
<1> QED
  BY <1>1, <1>2 DEF Init, Queue!Init

\* A push into a buffer that is not full, or refused by one that is.
LEMMA PushRefines ==
  ASSUME IInv, NEW x \in Items, NEW aggressive \in BOOLEAN, Push(x, aggressive),
         ~(count = capacity /\ aggressive)
  PROVE  IInv' /\ Queue!Push(x, aggressive)
<1> USE BufferAssumption DEF IInv
<1>1. CASE count = capacity
  <2>1. UNCHANGED <<buffer, head, tail, count>> /\ status' = "CB_FULL" /\ out' = <<>>
    BY <1>1 DEF Push
  <2>2. Contents' = Contents /\ At(count)' = At(count)
    BY <2>1 DEF Contents, At
  <2>3. IInv'
    BY <2>1, <2>2 DEF TypeOK, Consistent
  <2> QED
    BY <1>1, <2>1, <2>2, <2>3, ContentsFacts DEF Queue!Push
<1>2. CASE count # capacity
  <2>1. /\ buffer' = [buffer EXCEPT ![head] = x] /\ head' = Advance(head)
        /\ tail' = tail /\ count' = count + 1 /\ status' = "0" /\ out' = <<>>
    BY <1>2 DEF Push
  <2>2. count \in 0 .. capacity - 1 /\ head = At(count)
    BY <1>2 DEF TypeOK, Consistent
  <2>3. head' = At(count)'
    <3>1. At(count)' = At(count + 1)
      BY <2>1 DEF At
    <3> QED
      BY <2>1, <2>2, <3>1, AtFacts
  <2>4. head' \in Positions
    <3>1. At(count + 1) \in Positions
      BY <2>2, AtFacts
    <3> QED
      BY <2>1, <2>2, <3>1, AtFacts
  <2>5. TypeOK'
    BY <2>1, <2>2, <2>4 DEF TypeOK
  <2>6. Contents' = Append(Contents, x)
    <3>1. \A i \in 1 .. count : buffer'[At(i - 1)] = buffer[At(i - 1)]
      <4> SUFFICES ASSUME NEW i \in 1 .. count PROVE buffer'[At(i - 1)] = buffer[At(i - 1)]
        OBVIOUS
      <4>1. i - 1 \in 0 .. capacity - 1 /\ i - 1 # count
        BY <2>2
      <4>2. At(i - 1) # head /\ At(i - 1) \in Positions
        BY <4>1, <2>2, AtFacts
      <4> QED
        BY <2>1, <4>2 DEF TypeOK
    <3>2. buffer'[At(count)] = x
      BY <2>1, <2>2 DEF TypeOK
    <3>3. Contents' = [i \in 1 .. count + 1 |-> buffer'[At(i - 1)]]
      BY <2>1 DEF Contents, At
    <3>4. \A i \in 1 .. count + 1 : Contents'[i] = Append(Contents, x)[i]
      BY <3>1, <3>2, <3>3, <2>2, ContentsFacts
    <3>5. Append(Contents, x) \in Seq(Items) /\ Len(Append(Contents, x)) = count + 1
      BY <2>2, ContentsFacts
    <3>6. Contents' = [i \in 1 .. count + 1 |-> Contents'[i]]
      BY <3>3
    <3> QED
      BY <3>4, <3>5, <3>6, SameSequence
  <2>7. Contents' \in Seq(Items)
    BY <2>6, ContentsFacts
  <2> QED
    BY <1>2, <2>1, <2>3, <2>5, <2>6, <2>7, ContentsFacts DEF Consistent, Queue!Push
<1> QED
  BY <1>1, <1>2

\* An aggressive push into a full buffer: the new item goes where the oldest was.
LEMMA OverwriteRefines ==
  ASSUME IInv, NEW x \in Items, Push(x, TRUE), count = capacity
  PROVE  IInv' /\ Queue!Push(x, TRUE)
<1> USE BufferAssumption DEF IInv
<1>1. /\ buffer' = [buffer EXCEPT ![head] = x] /\ head' = Advance(head)
      /\ tail' = Advance(tail) /\ count' = count /\ status' = "0" /\ out' = <<>>
  BY DEF Push
<1>2. head = tail /\ head \in Positions
  BY AtFacts DEF Consistent, TypeOK
<1>3. Advance(tail) \in Positions
  BY <1>2 DEF Advance, Positions
<1>4. TypeOK'
  BY <1>1, <1>2, <1>3 DEF TypeOK
<1>5. head' = At(count)'
  BY <1>1, <1>2, <1>3 DEF At, Positions
<1>6. \A i \in 1 .. capacity - 1 : At(i - 1)' = At(i) /\ At(i) # head /\ At(i) \in Positions
  BY <1>1, <1>2 DEF At, Advance, Positions
<1>7. At(capacity - 1)' = head
  BY <1>1, <1>2 DEF At, Advance, Positions
<1>8. Contents' = Append(Tail(Contents), x)
  <2>1. Contents' = [i \in 1 .. capacity |-> buffer'[At(i - 1)']]
    BY <1>1 DEF Contents, At
  <2>2. \A i \in 1 .. capacity - 1 : buffer'[At(i - 1)'] = Contents[i + 1]
    <3> SUFFICES ASSUME NEW i \in 1 .. capacity - 1
                 PROVE  buffer'[At(i - 1)'] = Contents[i + 1]
      OBVIOUS
    <3>1. buffer'[At(i)] = buffer[At(i)]
      BY <1>1, <1>6 DEF TypeOK
    <3>2. Contents[i + 1] = buffer[At(i)]
      <4>1. i + 1 \in 1 .. count /\ (i + 1) - 1 = i
        OBVIOUS
      <4> QED
        BY <4>1, ContentsFacts
    <3> QED
      BY <3>1, <3>2, <1>6
  <2>3. buffer'[At(capacity - 1)'] = x
    BY <1>1, <1>2, <1>7 DEF TypeOK
  <2>4. /\ Tail(Contents) \in Seq(Items) /\ Len(Tail(Contents)) = capacity - 1
        /\ \A i \in 1 .. capacity - 1 : Tail(Contents)[i] = Contents[i + 1]
    BY ContentsFacts
  <2>5. \A i \in 1 .. capacity : Contents'[i] = Append(Tail(Contents), x)[i]
    BY <2>1, <2>2, <2>3, <2>4
  <2>6. Append(Tail(Contents), x) \in Seq(Items) /\ Len(Append(Tail(Contents), x)) = capacity
    BY <2>4
  <2>7. Contents' = [i \in 1 .. capacity |-> Contents'[i]]
    BY <2>1
  <2> QED
    BY <2>5, <2>6, <2>7, SameSequence
<1>9. Contents' \in Seq(Items)
  <2>1. Tail(Contents) \in Seq(Items)
    BY ContentsFacts
  <2> QED
    BY <2>1, <1>8
<1> QED
  BY <1>1, <1>4, <1>5, <1>8, <1>9, ContentsFacts DEF Consistent, Queue!Push

\* cb_pop_front
LEMMA PopRefines == ASSUME IInv, Pop PROVE IInv' /\ Queue!Pop
<1> USE BufferAssumption DEF IInv
<1>1. CASE count = 0
  <2>1. UNCHANGED <<buffer, head, tail, count>> /\ status' = "CB_EMPTY" /\ out' = <<>>
    BY <1>1 DEF Pop
  <2>2. Contents' = Contents /\ At(count)' = At(count)
    BY <2>1 DEF Contents, At
  <2>3. IInv'
    BY <2>1, <2>2 DEF TypeOK, Consistent
  <2>4. Contents = <<>>
    BY <1>1, ContentsFacts
  <2> QED
    BY <2>1, <2>2, <2>3, <2>4 DEF Queue!Pop
<1>2. CASE count # 0
  <2>1. /\ buffer' = buffer /\ head' = head /\ status' = "0" /\ out' = <<buffer[tail]>>
        /\ tail' = Advance(tail) /\ count' = count - 1
    BY <1>2 DEF Pop
  <2>2. count \in 1 .. capacity /\ head = At(count) /\ tail \in Positions
    BY <1>2 DEF TypeOK, Consistent
  <2>3. Advance(tail) \in Positions
    BY <2>2 DEF Advance, Positions
  <2>4. \A i \in 0 .. capacity - 1 : At(i)' = At(i + 1)
    BY <2>1, <2>2 DEF At, Advance, Positions
  <2>5. head' = At(count)'
    BY <2>1, <2>2 DEF At, Advance, Positions
  <2>6. Contents # <<>> /\ Head(Contents) = buffer[tail] /\ buffer[tail] \in Items
    <3>1. Contents[1] = buffer[tail]
      <4>1. 1 \in 1 .. count /\ 1 - 1 = 0
        BY <2>2
      <4> QED
        BY <4>1, ContentsFacts, AtFacts
    <3> QED
      BY <2>2, <3>1, ContentsFacts
  <2>7. Contents' = Tail(Contents)
    <3>1. Contents' = [i \in 1 .. count - 1 |-> buffer[At(i - 1)']]
      BY <2>1 DEF Contents, At
    <3>2. /\ Tail(Contents) \in Seq(Items) /\ Len(Tail(Contents)) = count - 1
          /\ \A i \in 1 .. count - 1 : Tail(Contents)[i] = Contents[i + 1]
      BY <2>2, <2>6, ContentsFacts
    <3>3. \A i \in 1 .. count - 1 : Contents'[i] = Tail(Contents)[i]
      <4> SUFFICES ASSUME NEW i \in 1 .. count - 1 PROVE Contents'[i] = Tail(Contents)[i]
        OBVIOUS
      <4>1. i - 1 \in 0 .. capacity - 1 /\ (i - 1) + 1 = i
        BY <2>2
      <4>2. Contents'[i] = buffer[At(i)]
        BY <3>1, <4>1, <2>4
      <4>3. i + 1 \in 1 .. count /\ (i + 1) - 1 = i
        BY <2>2
      <4>4. Contents[i + 1] = buffer[At(i)]
        BY <4>3, ContentsFacts
      <4> QED
        BY <3>2, <4>2, <4>4
    <3>4. Contents' = [i \in 1 .. count - 1 |-> Contents'[i]]
      BY <3>1
    <3> QED
      BY <3>2, <3>3, <3>4, SameSequence
  <2>8. Contents' \in Seq(Items)
    BY <2>6, <2>7, ContentsFacts
  <2>9. TypeOK'
    BY <2>1, <2>2, <2>3, <2>6 DEF TypeOK
  <2> QED
    BY <2>1, <2>5, <2>6, <2>7, <2>8, <2>9 DEF Consistent, Queue!Pop
<1> QED
  BY <1>1, <1>2

\* cb_to_array
LEMMA ToArrayRefines == ASSUME IInv, ToArray PROVE IInv' /\ Queue!ToArray
<1>1. Contents' = Contents /\ At(count)' = At(count)
  BY DEF ToArray, Contents, At
<1>2. out' = Contents /\ Contents \in Seq(Items)
  BY ContentsFacts DEF ToArray
<1>3. IInv'
  BY <1>1, <1>2 DEF ToArray, IInv, TypeOK, Consistent
<1> QED
  BY <1>1, <1>2, <1>3 DEF ToArray, Queue!ToArray

\* cb_clear
LEMMA ClearRefines == ASSUME IInv, Clear PROVE IInv' /\ Queue!Clear
<1>1. Contents' = <<>>
  BY DEF Clear, Contents
<1>2. IInv'
  BY <1>1, BufferAssumption DEF Clear, IInv, TypeOK, Consistent, At, Positions, Zeroed
<1> QED
  BY <1>1, <1>2 DEF Clear, Queue!Clear

\* Every step keeps the invariant and is a step of the queue, or changes nothing of it.
LEMMA NextRefines == IInv /\ [Next]_vars => IInv' /\ [Queue!Next]_(Queue!vars)
<1> SUFFICES ASSUME IInv, [Next]_vars PROVE IInv' /\ [Queue!Next]_(Queue!vars)
  OBVIOUS
<1>1. ASSUME NEW x \in Items, NEW aggressive \in BOOLEAN, Push(x, aggressive)
      PROVE  IInv' /\ Queue!Push(x, aggressive)
  <2>1. CASE count = capacity /\ aggressive
    <3>1. aggressive = TRUE
      BY <2>1
    <3>2. Push(x, TRUE)
      BY <1>1, <3>1
    <3>3. IInv' /\ Queue!Push(x, TRUE)
      BY <2>1, <3>2, OverwriteRefines
    <3> QED
      BY <3>1, <3>3
  <2>2. CASE ~(count = capacity /\ aggressive)
    BY <1>1, <2>2, PushRefines
  <2> QED
    BY <2>1, <2>2
<1>2. CASE Pop
  BY <1>2, PopRefines DEF Queue!Next
<1>3. CASE ToArray
  BY <1>3, ToArrayRefines DEF Queue!Next
<1>4. CASE Clear
  BY <1>4, ClearRefines DEF Queue!Next
<1>5. CASE UNCHANGED vars
  <2>1. Contents' = Contents /\ At(count)' = At(count)
    BY <1>5 DEF vars, Contents, At
  <2> QED
    BY <1>5, <2>1 DEF vars, IInv, TypeOK, Consistent, Queue!vars
<1> QED
  BY <1>1, <1>2, <1>3, <1>4, <1>5 DEF Next, Queue!Next

\* In every reachable state the head is where the items end: the buffer never mixes up
\* full and empty, which have the same head and tail.
THEOREM BufferConsistent == Spec => []Consistent
<1>1. Init => IInv
  BY InitRefines
<1>2. IInv /\ [Next]_vars => IInv'
  BY NextRefines
<1>3. IInv => Consistent
  BY DEF IInv
<1> QED
  BY <1>1, <1>2, <1>3, PTL DEF Spec

\* For every capacity the buffer of circularbuffer.c implements a bounded queue: cb_push_back,
\* cb_pop_front, cb_to_array and cb_clear return and keep what the queue's operations do.
THEOREM BufferImplementsQueue == Spec => ImplementsBoundedQueue
<1>1. Init => IInv /\ Queue!Init
  BY InitRefines
<1>2. IInv /\ [Next]_vars => IInv' /\ [Queue!Next]_(Queue!vars)
  BY NextRefines
<1> QED
  BY <1>1, <1>2, PTL DEF Spec, ImplementsBoundedQueue, Queue!Spec
-----------------------------------------------------------------------------
(* The name server *)

\* The table has a slot for each name, with a task or none.
TableOK ==
  /\ DOMAIN arr = {Slot[n] : n \in Names}
  /\ nameserver_tid \in BOOLEAN

\* A name's registration leaves those of the others alone, and every call is one of the
\* promise's or changes nothing that it speaks of.
LEMMA NameServerStep ==
  ASSUME TableOK, [NSNext]_nameserver
  PROVE  TableOK' /\ [Registered!Next]_<<[n \in Names |-> arr[Slot[n]]], known>>
<1> DEFINE registry == [n \in Names |-> arr[Slot[n]]]
<1>1. CASE Serve \/ UNCHANGED nameserver \/ \E n \in Names : WhoIsFails(n)
  <2>1. UNCHANGED <<arr, known>> /\ nameserver_tid' \in BOOLEAN
    BY <1>1 DEF Serve, WhoIsFails, nameserver, TableOK
  <2>2. QED
    BY <2>1 DEF TableOK
<1>2. ASSUME NEW t \in Tasks, NEW n \in Names, RegisterAs(t, n)
      PROVE  TableOK' /\ (Registered!Next \/ UNCHANGED <<registry, known>>)
  <2>1. UNCHANGED <<nameserver_tid, known>>
    BY <1>2 DEF RegisterAs
  <2>2. CASE ~nameserver_tid
    <3>1. UNCHANGED arr
      BY <1>2, <2>2 DEF RegisterAs
    <3>2. QED
      BY <2>1, <3>1 DEF TableOK
  <2>3. CASE nameserver_tid
    <3>1. arr' = [arr EXCEPT ![Slot[n]] = t]
      BY <1>2, <2>3 DEF RegisterAs
    <3>2. DOMAIN arr' = DOMAIN arr
      BY <3>1
    <3>3. \A k \in Names : arr'[Slot[k]] = IF k = n THEN t ELSE arr[Slot[k]]
      BY <3>1, SlotsDiffer DEF TableOK
    <3>4. registry' = [registry EXCEPT ![n] = t]
      BY <3>3
    <3>5. Registered!Register(n, t)
      BY <2>1, <3>4 DEF Registered!Register
    <3>6. QED
      BY <2>1, <3>2, <3>5 DEF TableOK, Registered!Next
  <2>4. QED
    BY <2>2, <2>3
<1>3. ASSUME NEW t \in Tasks, NEW n \in Names, WhoIs(t, n)
      PROVE  TableOK' /\ Registered!Next
  <2>1. /\ arr[Slot[n]] # NoTask /\ known' = known \cup {<<t, n, arr[Slot[n]]>>}
        /\ UNCHANGED <<nameserver_tid, arr>>
    BY <1>3 DEF WhoIs
  <2>2. Registered!Lookup(t, n)
    BY <2>1 DEF Registered!Lookup
  <2>3. QED
    BY <2>1, <2>2 DEF TableOK, Registered!Next
<1>4. QED
  BY <1>1, <1>2, <1>3 DEF NSNext

\* Whatever tasks register and ask, and in whatever order, a WhoIs that succeeds returns
\* the task that has registered the name last: in the hash table no registration overwrites
\* another's.
THEOREM TableImplementsDirectory == NSSpec => ImplementsDirectory
<1>1. NSInit => TableOK /\ Registered!Init
  BY DEF NSInit, TableOK, Registered!Init
<1>2. TableOK /\ [NSNext]_nameserver => TableOK'
  BY NameServerStep
<1>3. TableOK /\ [NSNext]_nameserver => [Registered!Next]_<<[n \in Names |-> arr[Slot[n]]], known>>
  BY NameServerStep
<1>4. QED
  BY <1>1, <1>2, <1>3, PTL DEF NSSpec, ImplementsDirectory, Registered!Spec
-----------------------------------------------------------------------------
(* The shell *)

Lines == [Cells -> Chars \cup {NUL}]
Requests == {Request(line) : line \in Lines}

\* The first commands of s, as many as can be planned.
First(s) == SubSeq(s, 1, Min({Len(s), MAX_PLANNED_COMMANDS}))

\* The line ends before the last cell while it is not full; what is seen of it is all that
\* there is, unless the line before was refused.
LineOK ==
  /\ input \in Lines /\ input_length \in 0 .. TERMINALMAXINPUTSIZE /\ left \in BOOLEAN
  /\ input_length < TERMINALMAXINPUTSIZE => input[TERMINALMAXINPUTSIZE] = NUL
  /\ left = FALSE => \A i \in Cells : i > input_length => input[i] = NUL

\* What is shown are requests, one more than can be planned at most, and the plan is the
\* first of them.
PlanOK ==
  /\ is_planning_mode \in BOOLEAN /\ stopped \in {"no", "yes", "undefined"}
  /\ shown \in Seq(Requests) /\ Len(shown) <= MAX_PLANNED_COMMANDS + 1
  /\ IF is_planning_mode = TRUE THEN command_cb = First(shown)
     ELSE command_cb = <<>> /\ executed = Executed(First(shown))

\* The smaller one of two numbers.
LEMMA MinOfTwo ==
  ASSUME NEW m \in Nat, NEW n \in Nat
  PROVE  Min({m, n}) = IF m <= n THEN m ELSE n
  BY DEF Min

\* What First is, and that a command is pushed to the plan as long as First grows with it.
LEMMA FirstFacts ==
  ASSUME ShellAssumption, NEW s \in Seq(Requests), Len(s) <= MAX_PLANNED_COMMANDS + 1,
         NEW r \in Requests
  PROVE  /\ First(<<>>) = <<>>
         /\ Executed(<<>>) = <<>>
         /\ Planned(First(s), r) =
              IF r.kind \in Commands /\ Len(s) <= MAX_PLANNED_COMMANDS
                THEN First(Append(s, r)) ELSE First(s)
<1>1. MAX_PLANNED_COMMANDS \in Nat /\ MAX_PLANNED_COMMANDS > 0 /\ Len(s) \in Nat
  BY DEF ShellAssumption
<1>2. \A q \in Seq(Requests) : Len(q) <= MAX_PLANNED_COMMANDS => First(q) = q
  <2> TAKE q \in Seq(Requests)
  <2> HAVE Len(q) <= MAX_PLANNED_COMMANDS
  <2>1. Min({Len(q), MAX_PLANNED_COMMANDS}) = Len(q)
    BY <1>1, MinOfTwo
  <2>2. SubSeq(q, 1, Len(q)) = q
    OBVIOUS
  <2>3. QED
    BY <2>1, <2>2 DEF First
<1>3. \A q \in Seq(Requests) : Len(q) = MAX_PLANNED_COMMANDS + 1 =>
        First(q) = SubSeq(q, 1, MAX_PLANNED_COMMANDS)
  <2> TAKE q \in Seq(Requests)
  <2> HAVE Len(q) = MAX_PLANNED_COMMANDS + 1
  <2>1. Min({Len(q), MAX_PLANNED_COMMANDS}) = MAX_PLANNED_COMMANDS
    BY <1>1, MinOfTwo
  <2>2. QED
    BY <2>1 DEF First
<1>4. First(<<>>) = <<>>
  <2>1. <<>> \in Seq(Requests) /\ Len(<<>>) = 0
    OBVIOUS
  <2>2. Len(<<>>) <= MAX_PLANNED_COMMANDS
    BY <1>1, <2>1
  <2>3. QED
    BY <1>2, <2>1, <2>2
<1>5. Executed(<<>>) = <<>>
  BY DEF Executed, Stops
<1>6. Append(s, r) \in Seq(Requests) /\ Len(Append(s, r)) = Len(s) + 1
  OBVIOUS
<1>7. CASE Len(s) < MAX_PLANNED_COMMANDS
  <2>1. First(s) = s
    BY <1>1, <1>2, <1>7
  <2>2. First(Append(s, r)) = Append(s, r)
    <3>1. Len(Append(s, r)) <= MAX_PLANNED_COMMANDS
      BY <1>1, <1>6, <1>7
    <3>2. QED
      BY <1>2, <1>6, <3>1
  <2>3. QED
    BY <1>1, <1>4, <1>5, <1>7, <2>1, <2>2 DEF Planned
<1>8. CASE Len(s) = MAX_PLANNED_COMMANDS
  <2>1. First(s) = s
    BY <1>1, <1>2, <1>8
  <2>2. First(Append(s, r)) = SubSeq(Append(s, r), 1, MAX_PLANNED_COMMANDS)
    BY <1>1, <1>3, <1>6, <1>8
  <2>3. SubSeq(Append(s, r), 1, MAX_PLANNED_COMMANDS) = s
    BY <1>8
  <2>4. Planned(First(s), r) = s
    BY <1>1, <1>8, <2>1 DEF Planned
  <2>5. First(Append(s, r)) = First(s)
    BY <2>1, <2>2, <2>3
  <2>6. QED
    BY <1>4, <1>5, <2>1, <2>4, <2>5
<1>9. CASE Len(s) = MAX_PLANNED_COMMANDS + 1
  <2>1. Len(First(s)) = MAX_PLANNED_COMMANDS
    BY <1>1, <1>3, <1>9
  <2>2. QED
    BY <1>1, <1>4, <1>5, <1>9, <2>1 DEF Planned
<1>10. QED
  BY <1>1, <1>7, <1>8, <1>9

\* What is seen of the line, unless something is left of the one before, is the line.
LEMMA ShowsRequest ==
  ASSUME LineOK, NEW r, r = Request(input), Shows(r)
  PROVE  LET before == IF is_planning_mode THEN shown ELSE <<>>
         IN  shown' = IF r.kind \in Commands /\ ~Refuses(r)
                         /\ Len(before) <= MAX_PLANNED_COMMANDS
                       THEN Append(before, r) ELSE before
<1>1. CASE left = TRUE
  BY <1>1 DEF Shows
<1>2. CASE left = FALSE
  <2>1. \A i \in Cells : input[i] = IF i <= input_length THEN input[i] ELSE NUL
    BY <1>2 DEF LineOK, Cells
  <2>2. input = [i \in Cells |-> input[i]]
    BY DEF LineOK, Lines
  <2>3. Seen = input
    BY <2>1, <2>2 DEF Seen
  <2>4. QED
    BY <1>2, <2>3 DEF Shows
<1>3. QED
  BY <1>1, <1>2 DEF LineOK

LEMMA ShellInitInv == ASSUME ShellAssumption PROVE ShellInit => LineOK /\ PlanOK
<1> SUFFICES ASSUME ShellInit PROVE LineOK /\ PlanOK
  OBVIOUS
<1>1. LineOK
  <2>1. input \in Lines /\ left \in BOOLEAN /\ \A i \in Cells : input[i] = NUL
    BY DEF ShellInit, Lines, Empty
  <2>2. TERMINALMAXINPUTSIZE \in Cells /\ input_length \in 0 .. TERMINALMAXINPUTSIZE
    BY DEF ShellAssumption, ShellInit, Cells
  <2>3. QED
    BY <2>1, <2>2 DEF LineOK
<1>2. PICK r : r \in Requests
  BY <1>1 DEF LineOK, Requests
<1>3. <<>> \in Seq(Requests) /\ Len(<<>>) = 0
  OBVIOUS
<1>4. First(<<>>) = <<>> /\ Executed(<<>>) = <<>>
  <2>1. Len(<<>>) <= MAX_PLANNED_COMMANDS + 1
    BY <1>3 DEF ShellAssumption
  <2>2. QED
    BY <1>2, <1>3, <2>1, FirstFacts
<1>5. PlanOK
  <2>1. Len(<<>>) <= MAX_PLANNED_COMMANDS + 1
    BY <1>3 DEF ShellAssumption
  <2>2. QED
    BY <1>3, <1>4, <2>1 DEF ShellInit, PlanOK
<1>6. QED
  BY <1>1, <1>5

LEMMA ShellLineStep ==
  ASSUME ShellAssumption, LineOK, [ShellNext]_shell
  PROVE  LineOK'
<1>1. TERMINALMAXINPUTSIZE \in Nat /\ TERMINALMAXINPUTSIZE > 0
  BY DEF ShellAssumption
<1>2. CASE UNCHANGED shell
  BY <1>2 DEF LineOK, shell
<1>3. CASE FullLine
  BY <1>3 DEF LineOK, FullLine, Editing
<1>4. CASE Backspace
  <2>1. CASE input_length = 0
    BY <1>4, <2>1 DEF LineOK, Backspace, Editing
  <2>2. CASE input_length > 0
    <3>1. /\ input' = [input EXCEPT ![input_length] = NUL] /\ input_length' = input_length - 1
          /\ input_length < TERMINALMAXINPUTSIZE /\ left' = left
      BY <1>4, <2>2 DEF Backspace, Editing
    <3>2. QED
      BY <1>1, <2>2, <3>1 DEF LineOK, Lines, Cells
  <2>3. input_length = 0 \/ input_length > 0
    BY <1>1 DEF LineOK
  <2>4. QED
    BY <2>1, <2>2, <2>3
<1>5. ASSUME NEW c \in Chars, Character(c) PROVE LineOK'
  <2>1. /\ input' = [input EXCEPT ![input_length + 1] = c] /\ input_length' = input_length + 1
        /\ input_length < TERMINALMAXINPUTSIZE /\ left' = left
    BY <1>5 DEF Character, Editing
  <2>2. QED
    BY <1>1, <1>5, <2>1 DEF LineOK, Lines, Cells
<1>6. CASE EnterRefused
  <2>1. input' = Cut(input) /\ input_length' = 0 /\ left' = TRUE
        /\ input_length < TERMINALMAXINPUTSIZE
    BY <1>6 DEF EnterRefused, tokenizer
  <2>2. \A i \in Cells : input'[i] \in {NUL, input[i]}
    BY <2>1 DEF Cut
  <2>3. input' \in Lines
    BY <2>1, <2>2 DEF LineOK, Lines, Cut
  <2>4. QED
    BY <1>1, <2>1, <2>2, <2>3 DEF LineOK, Cells
<1>7. CASE EnterAccepted
  <2>1. input' = Empty /\ input_length' = 0 /\ left' = FALSE
    BY <1>7 DEF EnterAccepted
  <2>2. QED
    <3>1. input' \in Lines /\ \A i \in Cells : input'[i] = NUL
      BY <2>1 DEF Lines, Empty
    <3>2. TERMINALMAXINPUTSIZE \in Cells /\ input_length' \in 0 .. TERMINALMAXINPUTSIZE
      BY <1>1, <2>1 DEF Cells
    <3>3. QED
      BY <2>1, <3>1, <3>2 DEF LineOK
<1>8. CASE EnterUndefined
  BY <1>8 DEF LineOK, EnterUndefined
<1>9. QED
  BY <1>2, <1>3, <1>4, <1>5, <1>6, <1>7, <1>8 DEF ShellNext

LEMMA ShellPlanStep ==
  ASSUME ShellAssumption, LineOK, PlanOK, [ShellNext]_shell
  PROVE  PlanOK'
<1> DEFINE before == IF is_planning_mode THEN shown ELSE <<>>
           r == Request(input)
<1>1. /\ before \in Seq(Requests) /\ Len(before) \in Nat
      /\ Len(before) <= MAX_PLANNED_COMMANDS + 1 /\ MAX_PLANNED_COMMANDS \in Nat
  BY DEF PlanOK, ShellAssumption
<1>2. r \in Requests
  BY DEF LineOK, Requests
<1>3. First(<<>>) = <<>> /\ Executed(<<>>) = <<>>
  BY <1>1, <1>2, FirstFacts
<1>4. command_cb = First(before)
  BY <1>3 DEF PlanOK
<1>5. CASE UNCHANGED shell \/ EnterUndefined
  <2>1. UNCHANGED <<is_planning_mode, shown, command_cb, executed>> /\ stopped' \in {"no", "yes", "undefined"}
    BY <1>5 DEF shell, EnterUndefined, PlanOK
  <2>2. QED
    BY <2>1 DEF PlanOK, First
<1>6. CASE Editing
  <2>1. /\ executed' = <<>> /\ shown' = before
        /\ UNCHANGED <<is_planning_mode, command_cb, stopped>>
    BY <1>6 DEF Editing
  <2>2. IF is_planning_mode' = TRUE THEN command_cb' = First(shown')
        ELSE command_cb' = <<>> /\ executed' = Executed(First(shown'))
    BY <1>3, <1>4, <2>1 DEF PlanOK
  <2>3. QED
    BY <1>1, <2>1, <2>2 DEF PlanOK, First
<1>7. CASE EnterRefused
  <2>1. /\ Refuses(r) /\ Shows(r)
        /\ is_planning_mode' = (is_planning_mode \/ r.kind = "plan")
        /\ executed' = <<>> /\ UNCHANGED <<command_cb, stopped>>
    BY <1>7 DEF EnterRefused
  <2>2. shown' = before
    BY <2>1, ShowsRequest
  <2>3. IF is_planning_mode' = TRUE THEN command_cb' = First(shown')
        ELSE command_cb' = <<>> /\ executed' = Executed(First(shown'))
    BY <1>3, <1>4, <2>1, <2>2 DEF PlanOK
  <2>4. QED
    BY <1>1, <2>1, <2>2, <2>3 DEF PlanOK, First
<1>8. CASE EnterAccepted
  <2> DEFINE cb == Planned(command_cb, r)
             planning == is_planning_mode /\ r.kind # "doneplan"
  <2>1. /\ ~Refuses(r) /\ Shows(r) /\ is_planning_mode' = planning
        /\ IF planning THEN command_cb' = cb /\ executed' = <<>> /\ UNCHANGED stopped
           ELSE Flush(cb)
    BY <1>8 DEF EnterAccepted
  <2>2. shown' = IF r.kind \in Commands /\ Len(before) <= MAX_PLANNED_COMMANDS
                   THEN Append(before, r) ELSE before
    BY <2>1, ShowsRequest
  <2>3. cb = First(shown')
    BY <1>1, <1>2, <1>4, <2>2, FirstFacts
  <2>4. shown' \in Seq(Requests) /\ Len(shown') <= MAX_PLANNED_COMMANDS + 1
    BY <1>1, <1>2, <2>2
  <2>5. stopped' \in {"no", "yes", "undefined"}
    BY <2>1 DEF Flush, PlanOK
  <2>6. IF is_planning_mode' = TRUE THEN command_cb' = First(shown')
        ELSE command_cb' = <<>> /\ executed' = Executed(First(shown'))
    BY <2>1, <2>3 DEF Flush
  <2>7. is_planning_mode' \in BOOLEAN
    BY <2>1
  <2>8. QED
    BY <2>4, <2>5, <2>6, <2>7 DEF PlanOK, First
<1>9. QED
  BY <1>5, <1>6, <1>7, <1>8
     DEF ShellNext, FullLine, Backspace, Character

\* Whatever is typed, the shell executes the commands that the user has seen at the prompt,
\* of a plan the first MAX_PLANNED_COMMANDS, and the text ends within the line.
THEOREM SeenIsExecuted ==
  ASSUME ShellAssumption
  PROVE  ShellSpec => []RunsWhatIsSeen
<1>1. ShellInit => LineOK /\ PlanOK
  BY ShellInitInv
<1>2. LineOK /\ PlanOK /\ [ShellNext]_shell => LineOK' /\ PlanOK'
  BY ShellLineStep, ShellPlanStep
<1>3. LineOK /\ PlanOK => RunsWhatIsSeen
  BY DEF LineOK, PlanOK, First, RunsWhatIsSeen
<1>4. QED
  BY <1>1, <1>2, <1>3, PTL DEF ShellSpec

-----------------------------------------------------------------------------
(* Loops *)

\* Induction over the natural numbers, for a set instead of a predicate: it follows from
\* NatLessThanWellFounded, which takes no operator.
LEMMA SetInduction ==
  ASSUME NEW T, 0 \in T, \A n \in Nat : n \in T => n + 1 \in T
  PROVE  Nat \subseteq T
<1> DEFINE less == OpToRel(<, Nat)
<1>1. IsWellFoundedOn(less, Nat)
  BY NatLessThanWellFounded
<1>2. \A i \in Nat : <<i, i + 1>> \in less
  BY DEF OpToRel
<1> HIDE DEF less
<1>3. SUFFICES ASSUME Nat \ T # {} PROVE FALSE
  OBVIOUS
<1>4. PICK x \in Nat \ T : \A y \in Nat \ T : ~ (<<y, x>> \in less)
  BY <1>1, <1>3, WFMin
<1>5. x # 0 /\ x - 1 \in Nat /\ x - 1 + 1 = x
  BY <1>4
<1>6. x - 1 \in T
  <2>1. <<x - 1, x>> \in less
    BY <1>2, <1>5
  <2>2. QED
    BY <2>1, <1>4, <1>5
<1>7. QED
  BY <1>4, <1>5, <1>6

\* The rounds of a loop.
IsIteration(f, S, x, step) ==
  f \in [Nat -> S] /\ f[0] = x /\ \A n \in Nat : f[n + 1] = step[f[n]]

\* Every loop has rounds.
LEMMA Iteration ==
  ASSUME NEW S, NEW x \in S, NEW step \in [S -> S]
  PROVE  \E f : IsIteration(f, S, x, step)
<1> DEFINE P(g, n) == g[0] = x /\ \A i \in 1 .. n : g[i] = step[g[i - 1]]
           T == {n \in Nat : \E g \in [0 .. n -> S] : P(g, n)}
           G == [n \in Nat |-> CHOOSE g \in [0 .. n -> S] : P(g, n)]
           U == {i \in Nat : \A m, k \in Nat : i <= m /\ i <= k => G[m][i] = G[k][i]}
           f == [n \in Nat |-> G[n][n]]
<1>1. \A n \in Nat : \E g \in [0 .. n -> S] : P(g, n)
  <2>1. 0 \in T
    <3>1. [i \in 0 .. 0 |-> x] \in [0 .. 0 -> S] /\ P([i \in 0 .. 0 |-> x], 0)
      OBVIOUS
    <3>2. QED
      BY <3>1
  <2>2. ASSUME NEW n \in Nat, n \in T
        PROVE  n + 1 \in T
    <3>1. PICK g \in [0 .. n -> S] : P(g, n)
      BY <2>2
    <3> DEFINE h == [i \in 0 .. n + 1 |-> IF i = n + 1 THEN step[g[n]] ELSE g[i]]
    <3>2. h \in [0 .. n + 1 -> S]
      OBVIOUS
    <3>3. h[0] = x /\ \A i \in 1 .. n + 1 : h[i] = step[h[i - 1]]
      BY <3>1
    <3> HIDE DEF h
    <3>4. QED
      BY <3>2, <3>3
  <2> HIDE DEF P
  <2>3. Nat \subseteq T
    BY <2>1, <2>2, SetInduction
  <2>4. QED
    BY <2>3
<1>2. \A n \in Nat : G[n] \in [0 .. n -> S] /\ P(G[n], n)
  <2> HIDE DEF P
  <2>1. QED
    BY <1>1
<1> HIDE DEF G
<1>3. Nat \subseteq U
  <2>1. 0 \in U
    BY <1>2
  <2>2. ASSUME NEW i \in Nat, i \in U
        PROVE  i + 1 \in U
    <3>1. SUFFICES ASSUME NEW m \in Nat, NEW k \in Nat, i + 1 <= m, i + 1 <= k
                   PROVE  G[m][i + 1] = G[k][i + 1]
      OBVIOUS
    <3>2. G[m][i + 1] = step[G[m][i]] /\ G[k][i + 1] = step[G[k][i]]
      BY <1>2, <3>1
    <3>3. G[m][i] = G[k][i]
      BY <2>2, <3>1
    <3>4. QED
      BY <3>2, <3>3
  <2>3. QED
    BY <2>1, <2>2, SetInduction
<1>4. f \in [Nat -> S] /\ f[0] = x
  BY <1>2
<1>5. ASSUME NEW n \in Nat PROVE f[n + 1] = step[f[n]]
  <2>1. G[n + 1][n + 1] = step[G[n + 1][n]]
    BY <1>2
  <2>2. G[n + 1][n] = G[n][n]
    BY <1>3
  <2>3. QED
    BY <2>1, <2>2
<1>6. QED
  BY <1>4, <1>5 DEF IsIteration

\* The rounds of a loop decrease rank until they change nothing.
Decreases(S, step, rank) ==
  /\ step \in [S -> S] /\ rank \in [S -> Nat]
  /\ \A s \in S : step[s] = s \/ rank[step[s]] < rank[s]

\* A loop that decreases rank has come to rest after as many rounds as rank has.
LEMMA Loop ==
  ASSUME NEW S, NEW x \in S, NEW step, NEW rank, Decreases(S, step, rank)
  PROVE  \E f : IsIteration(f, S, x, step) /\ step[f[rank[x]]] = f[rank[x]]
<1>1. /\ step \in [S -> S] /\ rank \in [S -> Nat]
      /\ \A s \in S : step[s] = s \/ rank[step[s]] < rank[s]
  BY DEF Decreases
<1>2. PICK f : IsIteration(f, S, x, step)
  BY <1>1, Iteration
<1>3. f \in [Nat -> S] /\ f[0] = x /\ \A k \in Nat : f[k + 1] = step[f[k]]
  BY <1>2 DEF IsIteration
<1>4. step[f[rank[x]]] = f[rank[x]]
  <2> DEFINE T == {k \in Nat : step[f[k]] = f[k] \/ rank[f[k]] + k <= rank[x]}
  <2>1. 0 \in T
    BY <1>1, <1>3
  <2>2. ASSUME NEW k \in Nat, k \in T PROVE k + 1 \in T
    <3>1. f[k] \in S /\ f[k + 1] = step[f[k]]
      BY <1>3
    <3>2. CASE step[f[k]] = f[k]
      BY <3>1, <3>2
    <3>3. CASE rank[step[f[k]]] < rank[f[k]] /\ rank[f[k]] + k <= rank[x]
      <4>1. rank[f[k]] \in Nat /\ rank[f[k + 1]] \in Nat /\ rank[x] \in Nat
        BY <1>1, <1>3, <3>1
      <4>2. rank[f[k + 1]] + (k + 1) <= rank[x]
        BY <3>1, <3>3, <4>1
      <4>3. QED
        BY <4>2
    <3>4. QED
      BY <1>1, <2>2, <3>1, <3>2, <3>3
  <2>3. Nat \subseteq T
    BY <2>1, <2>2, SetInduction
  <2>4. rank[x] \in Nat /\ rank[x] \in T /\ f[rank[x]] \in S
    BY <1>1, <1>3, <2>3
  <2>5. CASE rank[f[rank[x]]] + rank[x] <= rank[x]
    <3>1. rank[f[rank[x]]] = 0 /\ step[f[rank[x]]] \in S
      BY <1>1, <2>4, <2>5
    <3>2. ~ (rank[step[f[rank[x]]]] < rank[f[rank[x]]])
      BY <1>1, <3>1
    <3>3. QED
      BY <1>1, <2>4, <3>2
  <2>6. QED
    BY <2>4, <2>5
<1>5. QED
  BY <1>2, <1>4

-----------------------------------------------------------------------------
(* The search of algorithms.c *)

\* Min of a set of numbers is its least element.
LEMMA NatMinimum ==
  ASSUME NEW S \in SUBSET Nat, S # {}
  PROVE  Min(S) \in S /\ \A x \in S : Min(S) <= x
<1> DEFINE less == OpToRel(<, Nat)
<1>1. IsWellFoundedOn(less, Nat)
  BY NatLessThanWellFounded
<1>2. \A i, j \in Nat : i < j => <<i, j>> \in less
  BY DEF OpToRel
<1> HIDE DEF less
<1>3. PICK x \in S : \A y \in S : ~ (<<y, x>> \in less)
  BY <1>1, WFMin
<1>4. \A y \in S : x <= y
  <2>1. SUFFICES ASSUME NEW y \in S, y < x PROVE FALSE
    OBVIOUS
  <2>2. <<y, x>> \in less
    BY <1>2, <2>1
  <2>3. QED
    BY <1>3, <2>2
<1>5. QED
  BY <1>4 DEF Min

\* What the arrays of the search hold; only nodes that are laid get a distance.
SearchTypeOK ==
  /\ which \in DOMAIN Tables
  /\ avoid \subseteq Nodes /\ src \in Laid(track) \ avoid
  /\ in_shortest_path \subseteq Nodes \ avoid
  /\ dist \in [Nodes -> 0 .. INF] /\ prev \in [Nodes -> Nodes \cup {NULL}]
  /\ \A n \in Nodes : dist[n] < INF => n \in Laid(track)

\* The marked nodes are the nearest.
Settled ==
  \A u \in in_shortest_path : dist[u] < INF /\ \A v \in Candidates : dist[u] <= dist[v]

\* No edge from a marked node leads to a node by a shorter way.
Relaxed ==
  \A u \in in_shortest_path : \A way \in Ways(track, u) : dist[way.dest] <= dist[u] + way.dist

\* A distance is the length of a way, with at most one edge for each marked node.
Lengths ==
  \A n \in Nodes \ avoid :
    dist[n] < INF => <<n, dist[n]>> \in drives[Cardinality(in_shortest_path)]

\* The distances of a node and of the one before it differ by an edge between them.
Joined ==
  /\ dist[src] = 0 /\ prev[src] = NULL
  /\ \A n \in Nodes : prev[n] # NULL =>
       /\ prev[n] \in in_shortest_path
       /\ \E way \in Ways(track, prev[n]) : way.dest = n /\ dist[n] = dist[prev[n]] + way.dist

\* w leads from its first node back to src.
IsTrail(w) ==
  /\ w \in Seq(Nodes) /\ Len(w) \in 1 .. Cardinality(in_shortest_path) + 1
  /\ w[Len(w)] = src
  /\ \A i \in 1 .. Len(w) - 1 : w[i + 1] = prev[w[i]] /\ w[i + 1] \in in_shortest_path

\* From every node with a distance prev leads back to src, through marked nodes.
Trails == \A n \in Nodes \ avoid : dist[n] < INF => \E w : IsTrail(w) /\ w[1] = n

\* The search ends at a nearest node, or when none is left within reach.
Outcome ==
  /\ result = "found" => dest \in Reached /\ \A v \in Candidates : dist[dest] <= dist[v]
  /\ result = "none" => Reached = {}

\* The inductive invariant of the search.
SearchInv ==
  SearchTypeOK /\ Settled /\ Relaxed /\ Lengths /\ Joined /\ Trails /\ Outcome

-----------------------------------------------------------------------------
\* What dijkstra takes for an infinite distance.
LEMMA InfIsNat == INF \in Nat /\ 0 < INF
  BY SMT DEF INF

\* The nodes of the tracks, and the edges between those that are laid.
LEMMA NodesFacts ==
  ASSUME SearchAssumption, SearchTypeOK
  PROVE  /\ Nodes \subseteq Nat /\ IsFiniteSet(Nodes) /\ NULL \notin Nodes
         /\ Laid(track) \subseteq Nodes
         /\ \A n \in Laid(track) : \A way \in Ways(track, n) :
              way.dest \in Laid(track) /\ way.dist \in Nat
         /\ IsFiniteSet(in_shortest_path)
         /\ Cardinality(in_shortest_path) \in Nat /\ Cardinality(Nodes) \in Nat
         /\ Cardinality(in_shortest_path) <= Cardinality(Nodes)
<1>1. Nodes \subseteq Nat /\ IsFiniteSet(Nodes) /\ NULL \notin Nodes
  BY DEF SearchAssumption, SearchTypeOK, Nodes, track, NULL
<1>2. Laid(track) \subseteq Nodes
  BY DEF Laid, Nodes
<1>3. \A n \in Laid(track) : \A way \in Ways(track, n) :
        way.dest \in Laid(track) /\ way.dist \in Nat
  BY DEF SearchAssumption, SearchTypeOK, track
<1>4. in_shortest_path \subseteq Nodes
  BY DEF SearchTypeOK
<1>5. IsFiniteSet(in_shortest_path) /\ Cardinality(in_shortest_path) <= Cardinality(Nodes)
  BY <1>1, <1>4, FS_Subset
<1>6. QED
  BY <1>1, <1>2, <1>3, <1>5, FS_CardinalityType

\* The function drives does what its definition says.
LEMMA DrivesFacts ==
  ASSUME SearchAssumption, SearchTypeOK
  PROVE  /\ drives[0] = {<<src, 0>>}
         /\ \A k \in Nat : drives[k + 1] = Onward(drives[k])
         /\ \A k \in Nat : drives[k] \subseteq Laid(track) \X Nat
<1> DEFINE S == SUBSET (Laid(track) \X Nat)
           step == [ways \in S |-> Onward(ways)]
<1>1. {<<src, 0>>} \in S
  BY DEF SearchTypeOK
<1>2. ASSUME NEW ways \in S
      PROVE  Onward(ways) \in S
  <2>1. SUFFICES ASSUME NEW d \in ways, NEW way \in Ways(track, d[1])
                 PROVE  <<way.dest, d[2] + way.dist>> \in Laid(track) \X Nat
    BY DEF Onward
  <2>2. d[1] \in Laid(track) /\ d[2] \in Nat
    OBVIOUS
  <2>3. way.dest \in Laid(track) /\ way.dist \in Nat
    BY <2>2, NodesFacts
  <2>4. QED
    BY <2>2, <2>3
<1>3. step \in [S -> S]
  BY <1>2
<1> HIDE DEF step, S
<1>4. PICK f : IsIteration(f, S, {<<src, 0>>}, step)
  BY <1>1, <1>3, Iteration
<1>5. f \in [Nat -> S] /\ f[0] = {<<src, 0>>} /\ \A n \in Nat : f[n + 1] = Onward(f[n])
  BY <1>4 DEF IsIteration, step
<1>6. f = [k \in Nat |-> IF k = 0 THEN {<<src, 0>>} ELSE Onward(f[k - 1])]
  <2>1. \A k \in Nat : f[k] = IF k = 0 THEN {<<src, 0>>} ELSE Onward(f[k - 1])
    <3>1. SUFFICES ASSUME NEW k \in Nat, k # 0 PROVE f[k] = Onward(f[k - 1])
      BY <1>5
    <3>2. k - 1 \in Nat /\ (k - 1) + 1 = k
      BY <3>1
    <3>3. QED
      BY <1>5, <3>2
  <2>2. QED
    BY <1>5, <2>1
<1>7. drives = [k \in Nat |-> IF k = 0 THEN {<<src, 0>>} ELSE Onward(drives[k - 1])]
  BY <1>6 DEF drives
<1>8. drives[0] = {<<src, 0>>}
  BY <1>7
<1>9. \A k \in Nat : drives[k + 1] = Onward(drives[k])
  <2>1. TAKE k \in Nat
  <2>2. k + 1 \in Nat /\ k + 1 # 0 /\ (k + 1) - 1 = k
    OBVIOUS
  <2>3. QED
    BY <1>7, <2>2
<1>10. \A k \in Nat : drives[k] \in S
  <2> DEFINE T == {k \in Nat : drives[k] \in S}
  <2>1. 0 \in T
    BY <1>1, <1>8 DEF S
  <2>2. ASSUME NEW n \in Nat, n \in T PROVE n + 1 \in T
    BY <2>2, <1>2, <1>9 DEF S
  <2>3. Nat \subseteq T
    BY <2>1, <2>2, SetInduction
  <2>4. QED
    BY <2>3
<1>11. QED
  BY <1>8, <1>9, <1>10 DEF S

-----------------------------------------------------------------------------
\* The first loop of dijkstra, which marks the avoided nodes, and dist[src] = 0.
LEMMA SearchInitInv == ASSUME SearchAssumption, SearchInit PROVE SearchInv
<1>1. SearchTypeOK
  <2>1. which \in DOMAIN Tables /\ src \in Laid(track) \ avoid /\ avoid \subseteq Nodes
    BY DEF SearchAssumption, SearchInit, Nodes, track
  <2>2. dist \in [Nodes -> 0 .. INF] /\ prev \in [Nodes -> Nodes \cup {NULL}]
    BY InfIsNat DEF SearchInit
  <2>3. \A n \in Nodes : dist[n] < INF => n \in Laid(track)
    BY <2>1, InfIsNat DEF SearchInit
  <2>4. in_shortest_path \subseteq Nodes \ avoid
    BY DEF SearchInit
  <2>5. QED
    BY <2>1, <2>2, <2>3, <2>4 DEF SearchTypeOK
<1>2. src \in Nodes
  BY <1>1 DEF SearchTypeOK, Laid, Nodes
<1>3. in_shortest_path = {} /\ Cardinality(in_shortest_path) = 0
  BY FS_EmptySet DEF SearchInit
<1>4. \A n \in Nodes : dist[n] < INF => n = src /\ dist[n] = 0
  BY InfIsNat DEF SearchInit
<1>5. Settled /\ Relaxed
  BY <1>3 DEF Settled, Relaxed
<1>6. Lengths
  BY <1>1, <1>3, <1>4, DrivesFacts DEF Lengths
<1>7. Joined
  BY <1>2 DEF SearchInit, Joined
<1>8. Trails
  <2>1. SUFFICES IsTrail(<<src>>)
    BY <1>4 DEF Trails
  <2>2. QED
    BY <1>2, <1>3 DEF IsTrail
<1>9. Outcome
  BY DEF SearchInit, Outcome
<1>10. QED
  BY <1>1, <1>5, <1>6, <1>7, <1>8, <1>9 DEF SearchInv

\* The node that is visited is one of the nearest.
LEMMA NearestFacts ==
  ASSUME SearchAssumption, SearchTypeOK, NEW u \in min_distance
  PROVE  /\ u \in Reached /\ u \in Candidates /\ u \in Nodes /\ u \notin avoid
         /\ u \notin in_shortest_path /\ u \in Laid(track)
         /\ dist[u] \in Nat /\ dist[u] < INF
         /\ \A v \in Candidates : dist[u] <= dist[v]
<1>1. u \in Reached /\ \A m \in Reached : dist[u] <= dist[m]
  <2>1. u \in Reached /\ \A m \in Reached : dist[u] < dist[m] \/ dist[u] = dist[m]
    BY DEF min_distance
  <2>2. \A m \in Reached : dist[m] \in 0 .. INF
    BY DEF Reached, SearchTypeOK
  <2>3. QED
    BY <2>1, <2>2, InfIsNat
<1>2. u \in Nodes /\ u \notin avoid /\ u \notin in_shortest_path /\ dist[u] \in 0 .. INF /\ dist[u] # INF
  BY <1>1 DEF Reached, SearchTypeOK
<1>3. dist[u] \in Nat /\ dist[u] < INF
  BY <1>2, InfIsNat
<1>4. \A v \in Candidates : dist[u] <= dist[v]
  <2>1. SUFFICES ASSUME NEW v \in Candidates PROVE dist[u] <= dist[v]
    OBVIOUS
  <2>2. v \in Nodes /\ v \notin in_shortest_path /\ v \notin avoid
    BY DEF Candidates
  <2>3. CASE dist[v] = INF
    BY <2>3, <1>3, InfIsNat
  <2>4. CASE dist[v] # INF
    BY <2>2, <2>4, <1>1 DEF Reached
  <2>5. QED
    BY <2>3, <2>4
<1>5. QED
  BY <1>1, <1>2, <1>3, <1>4 DEF Candidates, SearchTypeOK

\* What a visit of u does to the distances.
LEMMA VisitFacts ==
  ASSUME SearchAssumption, SearchTypeOK, NEW u \in min_distance,
         dist' = [v \in Nodes |-> IF update_dist(u, v) THEN Min(Alternatives(u, v)) ELSE dist[v]],
         prev' = [v \in Nodes |-> IF update_dist(u, v) THEN u ELSE prev[v]]
  PROVE  /\ \A v \in Nodes :
              \/ dist'[v] = dist[v] /\ prev'[v] = prev[v]
              \/ /\ v # u /\ v \notin in_shortest_path
                 /\ dist'[v] < dist[v] /\ prev'[v] = u
                 /\ v \in Laid(track)
                 /\ \E way \in Ways(track, u) : way.dest = v /\ dist'[v] = dist[u] + way.dist
         /\ \A way \in Ways(track, u) :
              way.dest # u /\ way.dest \notin in_shortest_path
                => dist'[way.dest] <= dist[u] + way.dist
         /\ dist' \in [Nodes -> 0 .. INF] /\ prev' \in [Nodes -> Nodes \cup {NULL}]
<1>1. \A way \in Ways(track, u) : way.dest \in Laid(track) /\ way.dest \in Nodes /\ way.dist \in Nat
  BY NodesFacts, NearestFacts
<1>2. dist[u] \in Nat
  BY NearestFacts
<1>3. \A v : Alternatives(u, v) \in SUBSET Nat
  BY <1>1, <1>2 DEF Alternatives
<1>4. ASSUME NEW v \in Nodes, update_dist(u, v)
      PROVE  /\ v # u /\ v \notin in_shortest_path /\ dist'[v] < dist[v] /\ dist'[v] \in Nat
             /\ prev'[v] = u /\ v \in Laid(track)
             /\ \E way \in Ways(track, u) : way.dest = v /\ dist'[v] = dist[u] + way.dist
             /\ \A x \in Alternatives(u, v) : dist'[v] <= x
  <2>1. PICK alt \in Alternatives(u, v) : alt < dist[v]
    BY <1>4 DEF update_dist
  <2>2. /\ Min(Alternatives(u, v)) \in Alternatives(u, v)
        /\ \A x \in Alternatives(u, v) : Min(Alternatives(u, v)) <= x
    BY <1>3, <2>1, NatMinimum
  <2>3. dist'[v] = Min(Alternatives(u, v)) /\ prev'[v] = u
    BY <1>4
  <2>4. dist'[v] \in Nat /\ alt \in Nat /\ dist[v] \in 0 .. INF /\ dist'[v] <= alt
    BY <1>3, <2>2, <2>3 DEF SearchTypeOK
  <2>5. dist'[v] < dist[v]
    BY <2>1, <2>4, InfIsNat
  <2>6. PICK way \in Ways(track, u) : way.dest = v /\ dist'[v] = dist[u] + way.dist
    BY <2>2, <2>3 DEF Alternatives
  <2>7. QED
    BY <1>1, <1>4, <2>2, <2>3, <2>4, <2>5, <2>6 DEF update_dist
<1>5. ASSUME NEW v \in Nodes, ~ update_dist(u, v)
      PROVE  dist'[v] = dist[v] /\ prev'[v] = prev[v]
  BY <1>5
<1>6. \A v \in Nodes : dist[v] \in 0 .. INF /\ prev[v] \in Nodes \cup {NULL} /\ u \in Nodes
  BY NearestFacts DEF SearchTypeOK
<1>7. dist' \in [Nodes -> 0 .. INF] /\ prev' \in [Nodes -> Nodes \cup {NULL}]
  <2>1. \A v \in Nodes : dist'[v] \in 0 .. INF /\ prev'[v] \in Nodes \cup {NULL}
    <3>1. TAKE v \in Nodes
    <3>2. CASE update_dist(u, v)
      BY <3>2, <1>4, <1>6, InfIsNat
    <3>3. CASE ~ update_dist(u, v)
      BY <3>3, <1>5, <1>6
    <3>4. QED
      BY <3>2, <3>3
  <2>2. dist' = [v \in Nodes |-> dist'[v]] /\ prev' = [v \in Nodes |-> prev'[v]]
    OBVIOUS
  <2>3. QED
    BY <2>1, <2>2
<1>8. ASSUME NEW way \in Ways(track, u), way.dest # u, way.dest \notin in_shortest_path
      PROVE  dist'[way.dest] <= dist[u] + way.dist
  <2>1. dist[u] + way.dist \in Alternatives(u, way.dest)
    BY DEF Alternatives
  <2>2. way.dest \in Nodes /\ dist[way.dest] \in 0 .. INF /\ dist[u] + way.dist \in Nat
    BY <1>1, <1>2, <1>6
  <2>3. CASE update_dist(u, way.dest)
    BY <2>1, <2>2, <2>3, <1>4
  <2>4. CASE ~ update_dist(u, way.dest)
    <3>1. ~ (dist[u] + way.dist < dist[way.dest])
      BY <2>1, <2>4, <1>8 DEF update_dist
    <3>2. dist'[way.dest] = dist[way.dest]
      BY <2>2, <2>4, <1>5
    <3>3. QED
      BY <2>2, <3>1, <3>2, InfIsNat
  <2>5. QED
    BY <2>3, <2>4
<1>9. QED
  BY <1>4, <1>5, <1>7, <1>8

\* A round of dijkstra's loop that marks u keeps the invariant.
LEMMA VisitInv ==
  ASSUME SearchAssumption, SearchInv, Visit
  PROVE  SearchInv'
<1>1. SearchTypeOK /\ Settled /\ Relaxed /\ Lengths /\ Joined /\ Trails
  BY DEF SearchInv
<1>2. PICK u \in min_distance :
        /\ in_shortest_path' = in_shortest_path \cup {u}
        /\ dist' = [v \in Nodes |-> IF update_dist(u, v) THEN Min(Alternatives(u, v)) ELSE dist[v]]
        /\ prev' = [v \in Nodes |-> IF update_dist(u, v) THEN u ELSE prev[v]]
  BY DEF Visit
<1>3. UNCHANGED <<which, src, avoid, result, dest>>
  BY DEF Visit
<1>4. track' = track /\ Nodes' = Nodes /\ drives' = drives
  BY <1>3 DEF track, Nodes, drives, Onward
<1> DEFINE Changed(v) ==
             /\ v # u /\ v \notin in_shortest_path
             /\ dist'[v] < dist[v] /\ prev'[v] = u
             /\ v \in Laid(track)
             /\ \E way \in Ways(track, u) : way.dest = v /\ dist'[v] = dist[u] + way.dist
<1>5. \A v \in Nodes : (dist'[v] = dist[v] /\ prev'[v] = prev[v]) \/ Changed(v)
  BY <1>1, <1>2, VisitFacts
<1>6. \A way \in Ways(track, u) :
        way.dest # u /\ way.dest \notin in_shortest_path
          => dist'[way.dest] <= dist[u] + way.dist
  BY <1>1, <1>2, VisitFacts
<1>7. dist' \in [Nodes -> 0 .. INF] /\ prev' \in [Nodes -> Nodes \cup {NULL}]
  BY <1>1, <1>2, VisitFacts
<1>8. /\ u \in Candidates /\ u \in Nodes /\ u \notin avoid /\ u \notin in_shortest_path
      /\ u \in Laid(track) /\ dist[u] \in Nat /\ dist[u] < INF
      /\ \A v \in Candidates : dist[u] <= dist[v]
  BY <1>1, NearestFacts
<1>9. /\ Nodes \subseteq Nat /\ NULL \notin Nodes
      /\ \A n \in Laid(track) : n \in Nodes
      /\ \A n \in Laid(track) : \A way \in Ways(track, n) :
           way.dest \in Laid(track) /\ way.dest \in Nodes /\ way.dist \in Nat
      /\ Cardinality(in_shortest_path) \in Nat
      /\ Cardinality(in_shortest_path') = Cardinality(in_shortest_path) + 1
  <2>1. Cardinality(in_shortest_path \cup {u}) = Cardinality(in_shortest_path) + 1
    BY <1>1, <1>8, NodesFacts, FS_AddElement
  <2>2. QED
    BY <1>1, <1>2, <2>1, NodesFacts
<1>10. \A v \in Nodes : dist[v] \in 0 .. INF /\ dist'[v] \in 0 .. INF /\ dist'[v] <= dist[v]
  BY <1>1, <1>5, <1>7, InfIsNat DEF SearchTypeOK
<1>11. \A m \in in_shortest_path :
         m \in Nodes /\ m \in Laid(track) /\ m # u /\ dist'[m] = dist[m] /\ prev'[m] = prev[m]
           /\ dist[m] <= dist[u] /\ dist[m] < INF
  BY <1>1, <1>5, <1>8 DEF SearchTypeOK, Settled
<1>12. dist'[u] = dist[u] /\ prev'[u] = prev[u]
  BY <1>5, <1>8
<1> HIDE DEF Changed
<1>13. SearchTypeOK'
  <2>1. \A n \in Nodes : dist'[n] < INF => n \in Laid(track)
    BY <1>1, <1>5 DEF SearchTypeOK, Changed
  <2>2. QED
    BY <1>1, <1>2, <1>3, <1>4, <1>7, <1>8, <2>1 DEF SearchTypeOK
<1>14. \A v \in Candidates' : v \in Candidates /\ v \in Nodes /\ v # u
  BY <1>2, <1>3, <1>4 DEF Candidates
<1>15. Settled'
  <2>1. SUFFICES ASSUME NEW m \in in_shortest_path'
                 PROVE  dist'[m] < INF /\ \A v \in Candidates' : dist'[m] <= dist'[v]
    BY DEF Settled
  <2>2. m \in Nodes /\ dist'[m] = dist[m] /\ dist[m] < INF /\ dist[m] <= dist[u]
    BY <1>2, <1>8, <1>10, <1>11, <1>12
  <2>3. ASSUME NEW v \in Candidates' PROVE dist[m] <= dist'[v]
    <3>1. v \in Candidates /\ v \in Nodes
      BY <1>14
    <3>2. dist[u] <= dist[v] /\ dist[v] \in 0 .. INF /\ dist[m] \in 0 .. INF
      BY <1>8, <1>10, <2>2, <3>1
    <3>3. CASE dist'[v] = dist[v]
      BY <1>8, <2>2, <3>2, <3>3, InfIsNat
    <3>4. CASE Changed(v)
      <4>1. PICK way \in Ways(track, u) : dist'[v] = dist[u] + way.dist
        BY <3>4 DEF Changed
      <4>2. way.dist \in Nat
        BY <1>8, <1>9
      <4>3. QED
        BY <1>8, <2>2, <3>2, <4>1, <4>2, InfIsNat
    <3>5. QED
      BY <1>5, <3>1, <3>3, <3>4
  <2>4. QED
    BY <2>2, <2>3
<1>16. Relaxed'
  <2>1. SUFFICES ASSUME NEW m \in in_shortest_path', NEW way \in Ways(track, m)
                 PROVE  dist'[way.dest] <= dist'[m] + way.dist
    BY <1>4 DEF Relaxed
  <2>2. m \in Laid(track) /\ m \in Nodes /\ dist'[m] = dist[m] /\ dist[m] \in 0 .. INF
    BY <1>2, <1>8, <1>10, <1>11, <1>12
  <2>3. way.dest \in Nodes /\ way.dist \in Nat
    BY <1>9, <2>2
  <2>4. /\ dist[way.dest] \in 0 .. INF /\ dist'[way.dest] \in 0 .. INF
        /\ dist'[way.dest] <= dist[way.dest]
    BY <1>10, <2>3
  <2>5. CASE m \in in_shortest_path
    <3>1. dist[way.dest] <= dist[m] + way.dist
      BY <1>1, <2>5 DEF Relaxed
    <3>2. QED
      BY <2>2, <2>3, <2>4, <3>1, InfIsNat
  <2>6. CASE m = u /\ way.dest = u
    BY <2>2, <2>3, <2>6, InfIsNat
  <2>7. CASE m = u /\ way.dest \in in_shortest_path
    <3>1. dist[way.dest] <= dist[u]
      BY <1>11, <2>7
    <3>2. QED
      BY <2>2, <2>3, <2>4, <2>7, <3>1, InfIsNat
  <2>8. CASE m = u /\ way.dest # u /\ way.dest \notin in_shortest_path
    BY <1>6, <2>2, <2>8
  <2>9. QED
    BY <1>2, <2>5, <2>6, <2>7, <2>8
<1> DEFINE K == Cardinality(in_shortest_path)
<1>17. drives[K + 1] = Onward(drives[K])
  BY <1>1, <1>9, DrivesFacts
<1>18. Lengths'
  <2>1. SUFFICES ASSUME NEW n \in Nodes \ avoid, dist'[n] < INF
                 PROVE  <<n, dist'[n]>> \in drives[K + 1]
    BY <1>3, <1>4, <1>9 DEF Lengths
  <2>2. CASE dist'[n] = dist[n]
    <3>1. <<n, dist[n]>> \in drives[K]
      BY <1>1, <2>1, <2>2 DEF Lengths
    <3>2. QED
      BY <1>17, <2>1, <2>2, <3>1 DEF Onward
  <2>3. CASE Changed(n)
    <3>1. <<u, dist[u]>> \in drives[K]
      BY <1>1, <1>8 DEF Lengths
    <3>2. PICK way \in Ways(track, u) : way.dest = n /\ dist'[n] = dist[u] + way.dist
      BY <2>3 DEF Changed
    <3>3. <<n, dist'[n]>> \in UNION {{<<way_.dest, d[2] + way_.dist>> : way_ \in Ways(track, d[1])} : d \in drives[K]}
      BY <3>1, <3>2
    <3>4. QED
      BY <1>17, <2>1, <3>3 DEF Onward
  <2>4. QED
    BY <1>5, <2>1, <2>2, <2>3
<1>19. Joined'
  <2>1. dist'[src] = 0 /\ prev'[src] = NULL
    <3>1. src \in Nodes /\ dist[src] = 0 /\ prev[src] = NULL
      BY <1>1, <1>9 DEF SearchTypeOK, Joined
    <3>2. dist'[src] \in 0 .. INF
      BY <1>10, <3>1
    <3>3. ~ Changed(src)
      BY <3>1, <3>2, InfIsNat DEF Changed
    <3>4. QED
      BY <1>5, <3>1, <3>3
  <2>2. ASSUME NEW n \in Nodes, prev'[n] # NULL
        PROVE  /\ prev'[n] \in in_shortest_path'
               /\ \E way \in Ways(track, prev'[n]) :
                    way.dest = n /\ dist'[n] = dist'[prev'[n]] + way.dist
    <3>1. CASE dist'[n] = dist[n] /\ prev'[n] = prev[n]
      <4>1. /\ prev[n] \in in_shortest_path
            /\ \E way \in Ways(track, prev[n]) : way.dest = n /\ dist[n] = dist[prev[n]] + way.dist
        BY <1>1, <2>2, <3>1 DEF Joined
      <4>2. dist'[prev[n]] = dist[prev[n]]
        BY <1>11, <4>1
      <4>3. QED
        BY <1>2, <3>1, <4>1, <4>2
    <3>2. CASE Changed(n)
      BY <1>2, <1>12, <3>2 DEF Changed
    <3>3. QED
      BY <1>5, <3>1, <3>2
  <2>3. QED
    BY <1>3, <1>4, <2>1, <2>2 DEF Joined
<1>20. \A w : IsTrail(w) /\ prev'[w[1]] = prev[w[1]]
         => IsTrail(w)' /\ Len(w) <= Cardinality(in_shortest_path')
  <2>1. SUFFICES ASSUME NEW w, IsTrail(w), prev'[w[1]] = prev[w[1]]
                 PROVE  IsTrail(w)' /\ Len(w) <= K + 1
    BY <1>9
  <2>2. /\ w \in Seq(Nodes) /\ Len(w) \in 1 .. K + 1 /\ w[Len(w)] = src
        /\ \A i \in 1 .. Len(w) - 1 : w[i + 1] = prev[w[i]] /\ w[i + 1] \in in_shortest_path
    BY <2>1 DEF IsTrail
  <2>3. \A i \in 1 .. Len(w) - 1 : w[i + 1] = prev'[w[i]] /\ w[i + 1] \in in_shortest_path'
    <3>1. SUFFICES ASSUME NEW i \in 1 .. Len(w) - 1 PROVE prev'[w[i]] = prev[w[i]]
      BY <1>2, <2>2
    <3>2. CASE i = 1
      BY <2>1, <3>2
    <3>3. CASE i # 1
      <4>1. i - 1 \in 1 .. Len(w) - 1 /\ i - 1 + 1 = i
        BY <2>2, <3>3
      <4>2. w[i] \in in_shortest_path
        BY <2>2, <4>1
      <4>3. QED
        BY <1>11, <4>2
    <3>4. QED
      BY <3>2, <3>3
  <2>4. Len(w) <= K + 1 /\ Len(w) \in 1 .. Cardinality(in_shortest_path') + 1
    BY <1>9, <2>2
  <2>5. w \in Seq(Nodes') /\ w[Len(w)] = src'
    BY <1>3, <1>4, <2>2
  <2>6. QED
    BY <2>3, <2>4, <2>5 DEF IsTrail
<1>21. Trails'
  <2>1. SUFFICES ASSUME NEW n \in Nodes \ avoid, dist'[n] < INF
                 PROVE  \E w : IsTrail(w)' /\ w[1] = n
    BY <1>3, <1>4 DEF Trails
  <2>2. CASE dist'[n] = dist[n] /\ prev'[n] = prev[n]
    <3>1. PICK w : IsTrail(w) /\ w[1] = n
      BY <1>1, <2>1, <2>2 DEF Trails
    <3>2. QED
      BY <1>20, <2>2, <3>1
  <2>3. CASE Changed(n)
    <3>1. PICK w : IsTrail(w) /\ w[1] = u
      BY <1>1, <1>8 DEF Trails
    <3>2. IsTrail(w)' /\ Len(w) <= K + 1
      BY <1>9, <1>12, <1>20, <3>1
    <3>3. /\ w \in Seq(Nodes) /\ Len(w) \in 1 .. K + 1 /\ w[Len(w)] = src
          /\ \A i \in 1 .. Len(w) - 1 : w[i + 1] = prev'[w[i]] /\ w[i + 1] \in in_shortest_path'
      BY <1>3, <1>4, <3>2 DEF IsTrail
    <3> DEFINE t == [i \in 1 .. Len(w) + 1 |-> IF i = 1 THEN n ELSE w[i - 1]]
    <3>4. t \in Seq(Nodes) /\ Len(t) = Len(w) + 1
      BY <2>1, <3>3
    <3>5. \A i \in 1 .. Len(w) : t[i + 1] = w[i]
      BY <3>3
    <3>6. t[1] = n /\ t[Len(t)] = src
      BY <3>3, <3>4, <3>5
    <3> HIDE DEF t
    <3>7. \A i \in 1 .. Len(t) - 1 : t[i + 1] = prev'[t[i]] /\ t[i + 1] \in in_shortest_path'
      <4>1. SUFFICES ASSUME NEW i \in 1 .. Len(w)
                     PROVE  t[i + 1] = prev'[t[i]] /\ t[i + 1] \in in_shortest_path'
        BY <3>3, <3>4, <1>9
      <4>2. t[i + 1] = w[i]
        BY <3>5
      <4>3. CASE i = 1
        <5>1. t[i] = n /\ w[i] = u /\ prev'[n] = u
          BY <2>3, <3>1, <3>6, <4>3 DEF Changed
        <5>2. QED
          BY <1>2, <4>2, <5>1
      <4>4. CASE i # 1
        <5>1. i - 1 \in 1 .. Len(w) - 1 /\ (i - 1) + 1 = i
          BY <1>9, <3>3, <4>4
        <5>2. t[i] = w[i - 1]
          BY <1>9, <3>3, <3>5, <5>1
        <5>3. QED
          BY <3>3, <4>2, <5>1, <5>2
      <4>5. QED
        BY <4>3, <4>4
    <3>8. Len(t) \in 1 .. (K + 1) + 1
      BY <1>9, <3>3, <3>4
    <3>9. IsTrail(t)'
      BY <1>3, <1>4, <1>9, <3>4, <3>6, <3>7, <3>8 DEF IsTrail
    <3>10. QED
      BY <3>6, <3>9
  <2>4. QED
    BY <1>5, <2>1, <2>2, <2>3
<1>22. Outcome'
  BY <1>3 DEF Outcome, Visit
<1>23. QED
  BY <1>13, <1>15, <1>16, <1>18, <1>19, <1>21, <1>22 DEF SearchInv

-----------------------------------------------------------------------------
\* The function in Follow does what its definition says.
LEMMA WalkFacts ==
  ASSUME NEW S, IsFiniteSet(S), NULL \notin S, NEW next \in [S -> S \cup {NULL}]
  PROVE  \E walk :
           /\ \A w \in Seq(S) \ {<<>>} :
                walk[w] = IF next[Last(w)] = NULL \/ Len(w) > Cardinality(S) THEN w
                          ELSE walk[Append(w, next[Last(w)])]
           /\ \A n \in S : Follow(next, n) = walk[<<n>>]
<1>1. PICK W : W = Seq(S) \ {<<>>}
  OBVIOUS
<1> DEFINE N == Cardinality(S)
           Ended(w) == next[Last(w)] = NULL \/ Len(w) > N
           step == [w \in W |-> IF Ended(w) THEN w ELSE Append(w, next[Last(w)])]
<1>2. N \in Nat
  BY FS_CardinalityType
<1>3. \A w \in W : ~ Ended(w) => Append(w, next[Last(w)]) \in W /\ Len(Append(w, next[Last(w)])) = Len(w) + 1
  <2>1. SUFFICES ASSUME NEW w \in W, ~ Ended(w)
                 PROVE  Append(w, next[Last(w)]) \in W /\ Len(Append(w, next[Last(w)])) = Len(w) + 1
    OBVIOUS
  <2>2. w \in Seq(S) /\ Len(w) \in Nat \ {0} /\ Last(w) \in S
    BY <1>1 DEF Last
  <2>3. next[Last(w)] \in S
    BY <2>1, <2>2
  <2>4. QED
    BY <1>1, <2>2, <2>3
<1> HIDE DEF Ended, N
<1>4. step \in [W -> W]
  BY <1>3
<1> HIDE DEF step
<1>5. PICK rounds : \A w \in W : IsIteration(rounds[w], W, w, step)
  <2> DEFINE chosen == [w \in W |-> CHOOSE f : IsIteration(f, W, w, step)]
  <2>1. \A w \in W : IsIteration(chosen[w], W, w, step)
    <3>1. \A w \in W : \E f : IsIteration(f, W, w, step)
      BY <1>4, Iteration
    <3>2. QED
      BY <3>1
  <2> HIDE DEF chosen
  <2>2. QED
    BY <2>1
<1>6. \A w \in W : /\ rounds[w] \in [Nat -> W] /\ rounds[w][0] = w
                   /\ \A k \in Nat : rounds[w][k + 1] = step[rounds[w][k]]
  BY <1>5 DEF IsIteration
<1> DEFINE walk == [w \in W |-> rounds[w][N + 1]]
<1>7. ASSUME NEW w \in W
      PROVE  Ended(rounds[w][N + 1])
  <2> DEFINE T == {k \in Nat : Ended(rounds[w][k]) \/ Len(rounds[w][k]) >= k + 1}
  <2>1. 0 \in T
    <3>1. Len(w) \in Nat /\ Len(w) >= 1
      BY <1>1, <1>7
    <3>2. rounds[w][0] = w
      BY <1>6, <1>7
    <3>3. Len(rounds[w][0]) >= 0 + 1
      BY <3>1, <3>2
    <3>4. QED
      BY <3>3
  <2>2. ASSUME NEW k \in Nat, k \in T PROVE k + 1 \in T
    <3>1. rounds[w][k] \in W /\ rounds[w][k + 1] = step[rounds[w][k]]
      BY <1>6
    <3>2. CASE Ended(rounds[w][k])
      BY <3>1, <3>2 DEF step
    <3>3. CASE ~ Ended(rounds[w][k])
      <4>1. rounds[w][k + 1] = Append(rounds[w][k], next[Last(rounds[w][k])])
        BY <3>1, <3>3 DEF step
      <4>2. Len(rounds[w][k + 1]) = Len(rounds[w][k]) + 1
        BY <1>3, <3>1, <3>3, <4>1
      <4>3. Len(rounds[w][k]) >= k + 1 /\ Len(rounds[w][k]) \in Nat
        BY <1>1, <2>2, <3>1, <3>3
      <4>4. QED
        BY <4>2, <4>3
    <3>4. QED
      BY <3>2, <3>3
  <2>3. Nat \subseteq T
    BY <2>1, <2>2, SetInduction
  <2>4. Len(rounds[w][N + 1]) \in Nat
    <3>1. rounds[w][N + 1] \in W
      BY <1>2, <1>6, <1>7
    <3>2. QED
      BY <1>1, <3>1
  <2>5. QED
    BY <1>2, <2>3, <2>4 DEF Ended
<1>8. ASSUME NEW w \in W
      PROVE  walk[w] = IF Ended(w) THEN w ELSE walk[Append(w, next[Last(w)])]
  <2>1. CASE Ended(w)
    <3> DEFINE T == {k \in Nat : rounds[w][k] = w}
    <3>1. 0 \in T
      BY <1>6
    <3>2. ASSUME NEW k \in Nat, k \in T PROVE k + 1 \in T
      <4>1. rounds[w][k] = w /\ rounds[w][k + 1] = step[rounds[w][k]]
        BY <1>6, <1>8, <3>2
      <4>2. step[w] = w
        BY <1>8, <2>1 DEF step
      <4>3. QED
        BY <4>1, <4>2
    <3>3. Nat \subseteq T
      BY <3>1, <3>2, SetInduction
    <3>4. QED
      BY <1>2, <2>1, <3>3
  <2>2. CASE ~ Ended(w)
    <3> DEFINE v == Append(w, next[Last(w)])
               T == {k \in Nat : rounds[v][k] = rounds[w][k + 1]}
    <3>1. v \in W /\ step[w] = v
      BY <1>3, <2>2 DEF step
    <3> HIDE DEF v
    <3>2. 0 \in T
      <4>1. rounds[v][0] = v /\ rounds[w][0] = w /\ rounds[w][0 + 1] = step[rounds[w][0]]
        BY <1>6, <1>8, <3>1
      <4>2. QED
        BY <3>1, <4>1
    <3>3. ASSUME NEW k \in Nat, k \in T PROVE k + 1 \in T
      <4>1. rounds[v][k] = rounds[w][k + 1]
        BY <3>3
      <4>2. rounds[v][k + 1] = step[rounds[v][k]]
        BY <1>6, <3>1
      <4>3. rounds[w][(k + 1) + 1] = step[rounds[w][k + 1]]
        BY <1>6, <1>8
      <4>4. QED
        BY <4>1, <4>2, <4>3
    <3>4. Nat \subseteq T
      BY <3>2, <3>3, SetInduction
    <3>5. rounds[v][N + 1] = step[rounds[w][N + 1]]
      <4>1. N + 1 \in T
        BY <1>2, <3>4
      <4>2. rounds[v][N + 1] = rounds[w][(N + 1) + 1]
        BY <4>1
      <4>3. rounds[w][(N + 1) + 1] = step[rounds[w][N + 1]]
        BY <1>2, <1>6, <1>8
      <4>4. QED
        BY <4>2, <4>3
    <3>6. step[rounds[w][N + 1]] = rounds[w][N + 1]
      BY <1>2, <1>6, <1>7 DEF step
    <3>7. walk[v] = walk[w]
      BY <3>1, <3>5, <3>6
    <3>8. QED
      BY <2>2, <3>7 DEF v
  <2>3. QED
    BY <2>1, <2>2
<1>9. walk \in [W -> W]
  BY <1>2, <1>6
<1> HIDE DEF walk
<1>10. walk = [w \in W |-> IF Ended(w) THEN w ELSE walk[Append(w, next[Last(w)])]]
  BY <1>8, <1>9
<1> DEFINE other == CHOOSE f : f = [w \in Seq(DOMAIN next) \ {<<>>} |->
                      IF next[Last(w)] = NULL \/ Len(w) > Cardinality(DOMAIN next) THEN w
                      ELSE f[Append(w, next[Last(w)])]]
<1>11. \A n \in S : Follow(next, n) = other[<<n>>]
  BY DEF Follow
<1>12. DOMAIN next = S
  OBVIOUS
<1>13. walk = [w \in Seq(DOMAIN next) \ {<<>>} |->
                 IF next[Last(w)] = NULL \/ Len(w) > Cardinality(DOMAIN next) THEN w
                 ELSE walk[Append(w, next[Last(w)])]]
  BY <1>1, <1>10, <1>12 DEF Ended, N
<1>14. other = [w \in Seq(DOMAIN next) \ {<<>>} |->
                  IF next[Last(w)] = NULL \/ Len(w) > Cardinality(DOMAIN next) THEN w
                  ELSE other[Append(w, next[Last(w)])]]
  BY <1>13
<1> HIDE DEF other
<1>15. \A w \in W : other[w] = IF next[Last(w)] = NULL \/ Len(w) > Cardinality(S) THEN w
                              ELSE other[Append(w, next[Last(w)])]
  BY <1>1, <1>12, <1>14
<1>16. QED
  BY <1>1, <1>11, <1>15

\* Follow returns w if it is the chain that starts at its first node.
LEMMA FollowIs ==
  ASSUME NEW S, IsFiniteSet(S), NULL \notin S, NEW next \in [S -> S \cup {NULL}],
         NEW w \in Seq(S), Len(w) \in 1 .. Cardinality(S) + 1, next[w[Len(w)]] = NULL,
         \A i \in 1 .. Len(w) - 1 : next[w[i]] = w[i + 1]
  PROVE  Follow(next, w[1]) = w
<1> DEFINE W == Seq(S) \ {<<>>}
           N == Cardinality(S)
           part(i) == [j \in 1 .. i |-> w[j]]
<1>1. PICK walk :
        /\ \A v \in W : walk[v] = IF next[Last(v)] = NULL \/ Len(v) > N THEN v
                                 ELSE walk[Append(v, next[Last(v)])]
        /\ \A n \in S : Follow(next, n) = walk[<<n>>]
  BY WalkFacts
<1>2. N \in Nat
  BY FS_CardinalityType
<1>3. ASSUME NEW i \in 1 .. Len(w)
      PROVE  part(i) \in Seq(S) /\ part(i) \in W /\ Len(part(i)) = i /\ Last(part(i)) = w[i]
  <2>1. part(i) \in Seq(S) /\ Len(part(i)) = i
    BY <1>2
  <2>2. QED
    BY <2>1 DEF Last
<1>4. ASSUME NEW i \in 1 .. Len(w) - 1
      PROVE  walk[part(i)] = walk[part(i + 1)]
  <2>1. i \in 1 .. Len(w) /\ i + 1 \in 1 .. Len(w) /\ i <= N
    BY <1>2
  <2>2. next[w[i]] = w[i + 1] /\ w[i + 1] \in S /\ w[i + 1] # NULL
    BY <2>1
  <2>3. Append(part(i), w[i + 1]) = part(i + 1)
    <3>1. part(i) \in Seq(S) /\ Len(part(i)) = i /\ w[i + 1] \in S
      BY <1>3, <2>1, <2>2
    <3>2. QED
      BY <2>1, <3>1
  <2>4. part(i) \in W /\ Len(part(i)) = i /\ Last(part(i)) = w[i]
    BY <1>3, <2>1
  <2> HIDE DEF part, W, N
  <2>5. ~ (next[Last(part(i))] = NULL \/ Len(part(i)) > N)
    BY <1>2, <2>1, <2>2, <2>4
  <2>6. walk[part(i)] = walk[Append(part(i), next[Last(part(i))])]
    BY <1>1, <2>4, <2>5
  <2>7. QED
    BY <2>2, <2>3, <2>4, <2>6
<1>5. walk[part(1)] = walk[part(Len(w))]
  <2> DEFINE T == {k \in Nat : k + 1 <= Len(w) => walk[part(1)] = walk[part(k + 1)]}
  <2> HIDE DEF part
  <2>1. 0 \in T
    OBVIOUS
  <2>2. ASSUME NEW k \in Nat, k \in T PROVE k + 1 \in T
    <3>1. SUFFICES ASSUME k + 1 + 1 <= Len(w) PROVE walk[part(1)] = walk[part(k + 1 + 1)]
      OBVIOUS
    <3>2. k + 1 \in 1 .. Len(w) - 1 /\ k + 1 <= Len(w)
      BY <1>2, <3>1
    <3>3. walk[part(k + 1)] = walk[part(k + 1 + 1)]
      BY <1>4, <3>2
    <3>4. QED
      BY <2>2, <3>2, <3>3
  <2>3. Nat \subseteq T
    BY <2>1, <2>2, SetInduction
  <2>4. Len(w) - 1 \in Nat /\ (Len(w) - 1) + 1 = Len(w)
    BY <1>2
  <2>5. Len(w) - 1 \in T
    BY <2>3, <2>4
  <2>6. QED
    BY <2>4, <2>5
<1>6. part(Len(w)) = w /\ part(1) = <<w[1]>> /\ w[1] \in S /\ Len(w) \in 1 .. Len(w)
  BY <1>2
<1>7. walk[w] = w
  <2>1. w \in W /\ Last(w) = w[Len(w)]
    BY <1>2 DEF Last
  <2>2. QED
    BY <1>1, <2>1
<1>8. QED
  BY <1>1, <1>5, <1>6, <1>7

-----------------------------------------------------------------------------
\* No drive is shorter than the distance of a marked node, or than that of the nearest node
\* that is not.
LEMMA DrivesAreLonger ==
  ASSUME SearchAssumption, SearchInv
  PROVE  \A k \in Nat : \A d \in drives[k] :
           /\ d \in Laid(track) \X Nat
           /\ \/ d[1] \in in_shortest_path /\ dist[d[1]] <= d[2]
              \/ \E v \in Candidates : dist[v] <= d[2]
<1> DEFINE Longer(d) == \/ d[1] \in in_shortest_path /\ dist[d[1]] <= d[2]
                        \/ \E v \in Candidates : dist[v] <= d[2]
           T == {k \in Nat : \A d \in drives[k] : Longer(d)}
<1>1. SearchTypeOK /\ Relaxed /\ Joined
  BY DEF SearchInv
<1>2. /\ drives[0] = {<<src, 0>>} /\ \A k \in Nat : drives[k + 1] = Onward(drives[k])
      /\ \A k \in Nat : drives[k] \subseteq Laid(track) \X Nat
  BY <1>1, DrivesFacts
<1>3. \A n \in Nodes : dist[n] \in 0 .. INF
  BY <1>1 DEF SearchTypeOK
<1>4. 0 \in T
  <2>1. src \in Nodes /\ src \notin avoid /\ dist[src] = 0
    BY <1>1, NodesFacts DEF SearchTypeOK, Joined
  <2>2. Longer(<<src, 0>>)
    BY <2>1 DEF Candidates
  <2>3. QED
    BY <1>2, <2>2
<1>5. ASSUME NEW k \in Nat, k \in T PROVE k + 1 \in T
  <2>1. SUFFICES ASSUME NEW d \in drives[k + 1] PROVE Longer(d)
    OBVIOUS
  <2>2. d \in Onward(drives[k])
    BY <1>2
  <2>3. CASE d \in drives[k]
    BY <1>5, <2>3
  <2>4. CASE d \notin drives[k]
    <3>1. d[1] \notin avoid
      BY <2>2 DEF Onward
    <3>2. PICK c \in drives[k] : \E way \in Ways(track, c[1]) : d = <<way.dest, c[2] + way.dist>>
      BY <2>2, <2>4 DEF Onward
    <3>3. PICK way \in Ways(track, c[1]) : d = <<way.dest, c[2] + way.dist>>
      BY <3>2
    <3>4. c[1] \in Laid(track) /\ c[2] \in Nat
      BY <1>2
    <3>5. way.dest \in Nodes /\ way.dist \in Nat /\ c[1] \in Nodes
      BY <1>1, <3>4, NodesFacts
    <3>6. d[1] = way.dest /\ d[2] = c[2] + way.dist /\ d[2] \in Nat
      BY <3>3, <3>4, <3>5
    <3>7. CASE c[1] \in in_shortest_path /\ dist[c[1]] <= c[2]
      <4>1. dist[way.dest] <= dist[c[1]] + way.dist
        BY <1>1, <3>7 DEF Relaxed
      <4>2. dist[c[1]] \in 0 .. INF /\ dist[way.dest] \in 0 .. INF
        BY <1>3, <3>5
      <4>3. dist[d[1]] <= d[2]
        BY <3>4, <3>5, <3>6, <3>7, <4>1, <4>2, InfIsNat
      <4>4. d[1] \in in_shortest_path \/ d[1] \in Candidates
        BY <3>1, <3>5, <3>6 DEF Candidates
      <4>5. QED
        BY <4>3, <4>4
    <3>8. ASSUME NEW v \in Candidates, dist[v] <= c[2] PROVE Longer(d)
      <4>1. dist[v] \in 0 .. INF
        BY <1>3 DEF Candidates
      <4>2. dist[v] <= d[2]
        BY <3>4, <3>5, <3>6, <3>8, <4>1, InfIsNat
      <4>3. QED
        BY <4>2
    <3>9. Longer(c)
      BY <1>5
    <3>10. QED
      BY <3>7, <3>8, <3>9
  <2>5. QED
    BY <2>3, <2>4
<1> HIDE DEF Longer
<1>6. Nat \subseteq T
  BY <1>4, <1>5, SetInduction
<1>7. \A k \in Nat : \A d \in drives[k] : Longer(d)
  BY <1>6
<1>8. QED
  BY <1>2, <1>7 DEF Longer

\* A way stays a way if more edges are allowed.
LEMMA DrivesGrow ==
  ASSUME SearchAssumption, SearchTypeOK
  PROVE  \A k, m \in Nat :
           /\ drives[k] \subseteq drives[k + m]
           /\ \A d \in drives[k] : d[1] \notin avoid /\ d[2] < INF
<1>1. drives[0] = {<<src, 0>>} /\ \A k \in Nat : drives[k + 1] = Onward(drives[k])
  BY DrivesFacts
<1>2. ASSUME NEW k \in Nat
      PROVE  \A d \in drives[k] : d[1] \notin avoid /\ d[2] < INF
  <2>1. CASE k = 0
    BY <1>1, <2>1, InfIsNat DEF SearchTypeOK
  <2>2. CASE k # 0
    <3>1. k - 1 \in Nat /\ (k - 1) + 1 = k
      BY <2>2
    <3>2. drives[k] = Onward(drives[k - 1])
      BY <1>1, <3>1
    <3>3. QED
      BY <3>2 DEF Onward
  <2>3. QED
    BY <2>1, <2>2
<1>3. ASSUME NEW k \in Nat PROVE drives[k] \subseteq drives[k + 1]
  BY <1>1, <1>2 DEF Onward
<1>4. ASSUME NEW k \in Nat PROVE \A m \in Nat : drives[k] \subseteq drives[k + m]
  <2> DEFINE T == {m \in Nat : drives[k] \subseteq drives[k + m]}
  <2>1. 0 \in T
    OBVIOUS
  <2>2. ASSUME NEW m \in Nat, m \in T PROVE m + 1 \in T
    <3>1. k + m \in Nat /\ k + (m + 1) = (k + m) + 1
      OBVIOUS
    <3>2. drives[k] \subseteq drives[k + m]
      BY <2>2
    <3>3. drives[k] \subseteq drives[(k + m) + 1]
      BY <1>3, <3>1, <3>2
    <3>4. QED
      BY <3>1, <3>3
  <2>3. Nat \subseteq T
    BY <2>1, <2>2, SetInduction
  <2>4. QED
    BY <2>3
<1>5. QED
  BY <1>2, <1>4

\* The path is the trail of its destination.
LEMMA PathFacts ==
  ASSUME SearchAssumption, SearchInv, result = "found"
  PROVE  /\ Path[1] = src /\ Path[Len(Path)] = dest /\ Range(Path) \cap avoid = {}
         /\ \A i \in 1 .. Len(Path) - 1 : \E way \in Ways(track, Path[i]) :
              way.dest = Path[i + 1] /\ dist[way.dest] = dist[Path[i]] + way.dist
<1>1. SearchTypeOK /\ Joined /\ Trails /\ dest \in Reached
  BY DEF SearchInv, Outcome
<1>2. dest \in Nodes \ avoid /\ dist[dest] < INF
  BY <1>1, InfIsNat DEF Reached, SearchTypeOK
<1>3. PICK w : IsTrail(w) /\ w[1] = dest
  BY <1>1, <1>2 DEF Trails
<1>4. /\ w \in Seq(Nodes) /\ Len(w) \in 1 .. Cardinality(in_shortest_path) + 1
      /\ w[Len(w)] = src
      /\ \A i \in 1 .. Len(w) - 1 : w[i + 1] = prev[w[i]] /\ w[i + 1] \in in_shortest_path
  BY <1>3 DEF IsTrail
<1>5. /\ Nodes \subseteq Nat /\ IsFiniteSet(Nodes) /\ NULL \notin Nodes
      /\ Cardinality(in_shortest_path) \in Nat /\ Cardinality(Nodes) \in Nat
      /\ Cardinality(in_shortest_path) <= Cardinality(Nodes)
  BY <1>1, NodesFacts
<1>6. Follow(prev, dest) = w
  <2>1. prev \in [Nodes -> Nodes \cup {NULL}] /\ prev[src] = NULL
    BY <1>1 DEF SearchTypeOK, Joined
  <2>2. Len(w) \in 1 .. Cardinality(Nodes) + 1
    BY <1>4, <1>5
  <2>3. QED
    BY <1>3, <1>4, <1>5, <2>1, <2>2, FollowIs
<1>7. /\ Path = [i \in 1 .. Len(w) |-> w[(Len(w) - i) + 1]] /\ Len(Path) = Len(w)
      /\ DOMAIN Path = 1 .. Len(w)
  <2>1. Path = [i \in 1 .. Len(w) |-> w[(Len(w) - i) + 1]]
    BY <1>6 DEF Path, Reverse
  <2>2. Len(w) \in Nat
    BY <1>4
  <2>3. QED
    BY <2>1, <2>2
<1>8. \A i \in 1 .. Len(w) : w[i] \in Nodes /\ w[i] \notin avoid
  <2>1. SUFFICES ASSUME NEW i \in 1 .. Len(w) PROVE w[i] \in Nodes /\ w[i] \notin avoid
    OBVIOUS
  <2>2. CASE i = 1
    BY <1>2, <1>3, <2>2
  <2>3. CASE i # 1
    <3>1. i - 1 \in 1 .. Len(w) - 1 /\ (i - 1) + 1 = i
      BY <1>4, <1>5, <2>3
    <3>2. w[i] \in in_shortest_path
      BY <1>4, <3>1
    <3>3. QED
      BY <1>1, <3>2 DEF SearchTypeOK
  <2>4. QED
    BY <2>2, <2>3
<1>9. Path[1] = src /\ Path[Len(Path)] = dest
  BY <1>3, <1>4, <1>5, <1>7
<1>10. Range(Path) \cap avoid = {}
  BY <1>4, <1>5, <1>7, <1>8 DEF Range
<1>11. ASSUME NEW i \in 1 .. Len(Path) - 1
       PROVE  \E way \in Ways(track, Path[i]) :
                way.dest = Path[i + 1] /\ dist[way.dest] = dist[Path[i]] + way.dist
  <2>1. /\ Len(w) - i \in 1 .. Len(w) - 1 /\ (Len(w) - (i + 1)) + 1 = Len(w) - i
        /\ i \in 1 .. Len(w) /\ i + 1 \in 1 .. Len(w)
    BY <1>4, <1>5, <1>7
  <2>2. Path[i + 1] = w[Len(w) - i] /\ Path[i] = w[(Len(w) - i) + 1]
    BY <1>7, <2>1
  <2>3. Path[i] = prev[Path[i + 1]] /\ Path[i] \in in_shortest_path
    BY <1>4, <2>1, <2>2
  <2>4. Path[i + 1] \in Nodes
    BY <1>8, <2>1, <2>2
  <2>5. prev[Path[i + 1]] # NULL
    BY <1>1, <1>5, <2>3 DEF SearchTypeOK
  <2>6. QED
    BY <1>1, <2>3, <2>4, <2>5 DEF Joined
<1>12. QED
  BY <1>9, <1>10, <1>11

\* When the search ends at its destination, no drive to it is shorter than the path.
LEMMA SearchInvShortest == ASSUME SearchAssumption, SearchInv PROVE ShortestFound
<1>1. SearchTypeOK /\ Lengths /\ Outcome
  BY DEF SearchInv
<1>2. \A n \in Nodes : dist[n] \in 0 .. INF
  BY <1>1 DEF SearchTypeOK
<1>3. Cardinality(Nodes) \in Nat
  BY <1>1, NodesFacts
<1>4. ASSUME result = "found"
      PROVE  /\ <<dest, dist[dest]>> \in Drives
             /\ \A d \in Drives : d[1] = dest => d[2] >= dist[dest]
  <2>1. dest \in Reached /\ \A v \in Candidates : dist[dest] <= dist[v]
    BY <1>1, <1>4 DEF Outcome
  <2>2. dest \in Nodes \ avoid /\ dest \notin in_shortest_path /\ dist[dest] < INF
    BY <1>2, <2>1, InfIsNat DEF Reached
  <2>3. <<dest, dist[dest]>> \in Drives
    <3> DEFINE K == Cardinality(in_shortest_path)
    <3>1. <<dest, dist[dest]>> \in drives[K]
      BY <1>1, <2>2 DEF Lengths
    <3>2. K \in Nat /\ Cardinality(Nodes) - K \in Nat /\ K + (Cardinality(Nodes) - K) = Cardinality(Nodes)
      BY <1>1, NodesFacts
    <3>3. drives[K] \subseteq drives[K + (Cardinality(Nodes) - K)]
      BY <1>1, <3>2, DrivesGrow
    <3>4. QED
      BY <3>1, <3>2, <3>3 DEF Drives
  <2>4. ASSUME NEW d \in Drives, d[1] = dest PROVE d[2] >= dist[dest]
    <3>1. d[2] \in Nat /\ \E v \in Candidates : dist[v] <= d[2]
      BY <1>3, <2>2, <2>4, DrivesAreLonger DEF Drives
    <3>2. PICK v \in Candidates : dist[v] <= d[2]
      BY <3>1
    <3>3. dist[v] \in 0 .. INF /\ dist[dest] \in 0 .. INF /\ dist[dest] <= dist[v]
      BY <1>2, <2>1, <2>2 DEF Candidates
    <3>4. QED
      BY <3>1, <3>2, <3>3, InfIsNat
  <2>5. QED
    BY <2>3, <2>4
<1>5. ASSUME result = "none", NEW d \in Drives
      PROVE  d[1] \in in_shortest_path
  <2>1. SUFFICES ASSUME NEW v \in Candidates, dist[v] <= d[2] PROVE FALSE
    BY <1>3, DrivesAreLonger DEF Drives
  <2>2. d[2] \in Nat /\ d[2] < INF
    BY <1>1, <1>3, DrivesAreLonger, DrivesGrow DEF Drives
  <2>3. dist[v] \in 0 .. INF /\ v \in Nodes /\ v \notin in_shortest_path /\ v \notin avoid
    BY <1>2 DEF Candidates
  <2>4. dist[v] # INF
    BY <2>1, <2>2, <2>3, InfIsNat
  <2>5. v \in Reached
    BY <2>3, <2>4 DEF Reached
  <2>6. QED
    BY <1>1, <1>5, <2>5 DEF Outcome
<1>6. QED
  BY <1>4, <1>5, PathFacts DEF ShortestFound

\* Every round of the search keeps the invariant.
LEMMA SearchStep == ASSUME SearchAssumption, SearchInv, [SearchNext]_search PROVE SearchInv'
<1>1. CASE Visit
  BY <1>1, VisitInv
<1>2. ASSUME UNCHANGED <<which, src, avoid, dist, prev, in_shortest_path>>, Outcome' PROVE SearchInv'
  <2>1. track' = track /\ Nodes' = Nodes /\ drives' = drives /\ Candidates' = Candidates
    BY <1>2 DEF track, Nodes, drives, Onward, Candidates
  <2>2. SearchTypeOK' /\ Settled' /\ Relaxed' /\ Lengths' /\ Joined'
    BY <1>2, <2>1 DEF SearchInv, SearchTypeOK, Settled, Relaxed, Lengths, Joined
  <2>3. Trails'
    BY <1>2, <2>1 DEF SearchInv, Trails, IsTrail
  <2>4. QED
    BY <1>2, <2>2, <2>3 DEF SearchInv
<1>3. CASE Arrive
  <2>1. dest' \in Reached /\ \A v \in Candidates : dist[dest'] <= dist[v]
    BY <1>3, NearestFacts DEF SearchInv, Arrive
  <2>2. Outcome'
    BY <1>3, <2>1 DEF Arrive, Outcome, Reached, Candidates, Nodes, track
  <2>3. QED
    BY <1>2, <1>3, <2>2 DEF Arrive
<1>4. CASE GiveUp
  <2>1. Outcome'
    BY <1>4 DEF GiveUp, Outcome, Reached, Candidates, Nodes, track
  <2>2. QED
    BY <1>2, <1>4, <2>1 DEF GiveUp
<1>5. CASE RunOut
  <2>1. Outcome'
    BY <1>5 DEF RunOut, Outcome
  <2>2. QED
    BY <1>2, <1>5, <2>1 DEF RunOut
<1>6. CASE UNCHANGED search
  <2>1. Outcome'
    BY <1>6 DEF search, SearchInv, Outcome, Reached, Candidates, Nodes, track
  <2>2. QED
    BY <1>2, <1>6, <2>1 DEF search
<1>7. QED
  BY <1>1, <1>3, <1>4, <1>5, <1>6 DEF SearchNext

\* For every track, source, destination and set of avoided nodes: when dijkstra ends with the
\* destination, every step of the path that get_path follows from it is a way along which dist
\* grows by its length, and no drive from the source that stays off the avoided nodes is
\* shorter.
THEOREM SearchIsShortest == ASSUME SearchAssumption PROVE SearchSpec => []ShortestFound
<1>1. SearchInit => SearchInv
  BY SearchInitInv
<1>2. SearchInv /\ [SearchNext]_search => SearchInv'
  BY SearchStep
<1>3. SearchInv => ShortestFound
  BY SearchInvShortest
<1>4. QED
  BY <1>1, <1>2, <1>3, PTL DEF SearchSpec

-----------------------------------------------------------------------------
(* Arrays in heap order *)

\* The slot above slot j.
Parent(j) == (j - 1) \div 2

\* swap of the two slots.
Exchange(h, a, b) == [h EXCEPT ![a] = h[b], ![b] = h[a]]

\* The first n slots of h hold the elements of E, each once.
Holds(h, n, E) ==
  /\ DOMAIN h \in SUBSET Int /\ 0 .. n - 1 \subseteq DOMAIN h
  /\ E = {h[i] : i \in 0 .. n - 1}
  /\ \A i, j \in 0 .. n - 1 : h[i] = h[j] => i = j

\* <<x, y>> \in R: x may be above y.
IsOrder(R, E) ==
  /\ \A x, y \in E : <<x, y>> \in R \/ <<y, x>> \in R
  /\ \A x, y, z \in E : <<x, y>> \in R /\ <<y, z>> \in R => <<x, z>> \in R

\* No entry is beaten by one below it.
InOrder(R, h, n) == \A j \in 1 .. n - 1 : <<h[Parent(j)], h[j]>> \in R

\* In heap order, but for the entry in slot i, which may belong higher.
OrderAbove(R, h, n, i) ==
  \A j \in 1 .. n - 1 : /\ j # i => <<h[Parent(j)], h[j]>> \in R
                        /\ Parent(j) = i /\ i # 0 => <<h[Parent(i)], h[j]>> \in R

\* In heap order, but for the entry in slot i, which may belong lower.
OrderBelow(R, h, n, i) ==
  \A j \in 1 .. n - 1 : /\ Parent(j) # i => <<h[Parent(j)], h[j]>> \in R
                        /\ Parent(j) = i /\ i # 0 => <<h[Parent(i)], h[j]>> \in R

\* Where the loops of the heaps look: up at (i - 1) / 2, down at 2 * i + 1 and 2 * i + 2.
LEMMA ParentFacts ==
  ASSUME NEW j \in Nat, j # 0
  PROVE  /\ Parent(j) \in 0 .. j - 1
         /\ \A i \in Nat : Parent(j) = i <=> j = 2 * i + 1 \/ j = 2 * i + 2
  BY DEF Parent

\* A swap keeps the entries.
LEMMA ExchangeFacts ==
  ASSUME NEW h, NEW n \in Nat, NEW E, Holds(h, n, E), NEW a \in 0 .. n - 1, NEW b \in 0 .. n - 1
  PROVE  /\ Holds(Exchange(h, a, b), n, E) /\ DOMAIN Exchange(h, a, b) = DOMAIN h
         /\ Exchange(h, a, b)[a] = h[b] /\ Exchange(h, a, b)[b] = h[a]
         /\ \A i \in 0 .. n - 1 : i # a /\ i # b => Exchange(h, a, b)[i] = h[i]
<1> DEFINE g == Exchange(h, a, b)
<1>1. DOMAIN g = DOMAIN h /\ 0 .. n - 1 \subseteq DOMAIN h
  BY DEF Exchange, Holds
<1>2. g[a] = h[b] /\ g[b] = h[a]
  BY <1>1 DEF Exchange
<1>3. \A i \in 0 .. n - 1 : i # a /\ i # b => g[i] = h[i]
  BY <1>1 DEF Exchange
<1> HIDE DEF g
<1>4. \A i \in 0 .. n - 1 : \E j \in 0 .. n - 1 : g[i] = h[j]
  BY <1>2, <1>3
<1>5. \A i \in 0 .. n - 1 : \E j \in 0 .. n - 1 : h[i] = g[j]
  BY <1>2, <1>3
<1>6. E = {g[i] : i \in 0 .. n - 1}
  BY <1>4, <1>5 DEF Holds
<1>7. \A i, j \in 0 .. n - 1 : g[i] = g[j] => i = j
  BY <1>2, <1>3 DEF Holds
<1>8. Holds(g, n, E)
  BY <1>1, <1>6, <1>7 DEF Holds
<1>9. QED
  BY <1>1, <1>2, <1>3, <1>8 DEF g

\* A round of the way up.
LEMMA UpOneLevel ==
  ASSUME NEW R, NEW E, IsOrder(R, E), NEW h, NEW n \in Nat, Holds(h, n, E),
         NEW i \in 1 .. n - 1, OrderAbove(R, h, n, i), <<h[i], h[Parent(i)]>> \in R
  PROVE  OrderAbove(R, Exchange(h, i, Parent(i)), n, Parent(i))
<1> DEFINE p == Parent(i)
           g == Exchange(h, i, p)
<1>1. p \in 0 .. i - 1 /\ p \in 0 .. n - 1 /\ i \in 0 .. n - 1
  BY ParentFacts
<1> HIDE DEF p
<1>2. g[i] = h[p] /\ g[p] = h[i] /\ \A j \in 0 .. n - 1 : j # i /\ j # p => g[j] = h[j]
  BY <1>1, ExchangeFacts
<1>3. \A j \in 0 .. n - 1 : h[j] \in E
  BY DEF Holds
<1> HIDE DEF g
<1>4. \A j \in 1 .. n - 1 : /\ Parent(j) \in 0 .. j - 1 /\ Parent(j) \in 0 .. n - 1 /\ j \in 0 .. n - 1
                            /\ Parent(j) = i => j # p
  BY <1>1, ParentFacts
<1>5. <<h[i], h[p]>> \in R
  BY DEF p
<1>6. ASSUME NEW j \in 1 .. n - 1, j # p
      PROVE  <<g[Parent(j)], g[j]>> \in R
  <2>1. CASE j = i
    BY <1>2, <1>5, <2>1 DEF p
  <2>2. CASE j # i /\ Parent(j) = p
    <3>1. <<h[p], h[j]>> \in R
      BY <2>2 DEF OrderAbove
    <3>2. g[p] = h[i] /\ g[j] = h[j]
      BY <1>2, <1>4, <1>6, <2>2
    <3>3. QED
      BY <1>1, <1>3, <1>4, <1>5, <2>2, <3>1, <3>2 DEF IsOrder
  <2>3. CASE Parent(j) = i
    <3>1. <<h[p], h[j]>> \in R
      <4>1. i # 0 /\ i \in 1 .. n - 1
        OBVIOUS
      <4>2. <<h[Parent(i)], h[j]>> \in R
        BY <2>3, <4>1 DEF OrderAbove
      <4>3. QED
        BY <4>2 DEF p
    <3>2. g[i] = h[p] /\ g[j] = h[j]
      BY <1>2, <1>4, <1>6, <2>3
    <3>3. QED
      BY <2>3, <3>1, <3>2
  <2>4. CASE j # i /\ Parent(j) # p /\ Parent(j) # i
    <3>1. <<h[Parent(j)], h[j]>> \in R
      BY <2>4 DEF OrderAbove
    <3>2. g[Parent(j)] = h[Parent(j)] /\ g[j] = h[j]
      BY <1>2, <1>4, <1>6, <2>4
    <3>3. QED
      BY <3>1, <3>2
  <2>5. QED
    BY <2>1, <2>2, <2>3, <2>4
<1>7. ASSUME NEW j \in 1 .. n - 1, Parent(j) = p, p # 0
      PROVE  <<g[Parent(p)], g[j]>> \in R
  <2>1. p \in 1 .. n - 1 /\ p # i
    BY <1>1, <1>7
  <2>2. <<h[Parent(p)], h[p]>> \in R
    BY <2>1 DEF OrderAbove
  <2>3. g[Parent(p)] = h[Parent(p)] /\ Parent(p) \in 0 .. n - 1
    BY <1>1, <1>2, <1>4, <2>1
  <2>4. CASE j = i
    BY <1>2, <2>2, <2>3, <2>4
  <2>5. CASE j # i
    <3>1. <<h[p], h[j]>> \in R
      BY <1>7, <2>5 DEF OrderAbove
    <3>2. g[j] = h[j]
      BY <1>2, <1>4, <1>7, <2>5
    <3>3. <<h[Parent(p)], h[j]>> \in R
      BY <1>1, <1>3, <1>4, <2>2, <2>3, <3>1 DEF IsOrder
    <3>4. QED
      BY <2>3, <3>2, <3>3
  <2>6. QED
    BY <2>4, <2>5
<1>8. QED
  BY <1>6, <1>7 DEF OrderAbove, p, g

\* A round of the way down.
LEMMA DownOneLevel ==
  ASSUME NEW R, NEW E, IsOrder(R, E), NEW h, NEW n \in Nat, Holds(h, n, E),
         NEW i \in 0 .. n - 1, OrderBelow(R, h, n, i),
         NEW c \in 1 .. n - 1, Parent(c) = i, <<h[c], h[i]>> \in R,
         \A j \in 1 .. n - 1 : Parent(j) = i => <<h[c], h[j]>> \in R
  PROVE  OrderBelow(R, Exchange(h, i, c), n, c)
<1> DEFINE g == Exchange(h, i, c)
<1>1. i \in 0 .. c - 1 /\ c \in 0 .. n - 1
  BY ParentFacts
<1>2. g[i] = h[c] /\ g[c] = h[i] /\ \A j \in 0 .. n - 1 : j # i /\ j # c => g[j] = h[j]
  BY <1>1, ExchangeFacts
<1> HIDE DEF g
<1>3. \A j \in 1 .. n - 1 : /\ Parent(j) \in 0 .. j - 1 /\ Parent(j) \in 0 .. n - 1 /\ j \in 0 .. n - 1
                            /\ Parent(j) = c => j # i
  BY <1>1, ParentFacts
<1>4. ASSUME NEW j \in 1 .. n - 1, Parent(j) # c
      PROVE  <<g[Parent(j)], g[j]>> \in R
  <2>1. CASE j = c
    BY <1>2, <2>1
  <2>2. CASE j # c /\ Parent(j) = i
    <3>1. g[j] = h[j]
      BY <1>2, <1>3, <2>2
    <3>2. QED
      BY <1>2, <2>2, <3>1
  <2>3. CASE j = i
    <3>1. <<h[Parent(i)], h[c]>> \in R
      <4>1. i # 0
        BY <2>3
      <4>2. QED
        BY <4>1 DEF OrderBelow
    <3>2. g[Parent(i)] = h[Parent(i)]
      BY <1>1, <1>2, <1>3, <1>4, <2>3
    <3>3. QED
      BY <1>2, <2>3, <3>1, <3>2
  <2>4. CASE j # c /\ Parent(j) # i /\ j # i
    <3>1. <<h[Parent(j)], h[j]>> \in R
      BY <2>4 DEF OrderBelow
    <3>2. g[Parent(j)] = h[Parent(j)] /\ g[j] = h[j]
      BY <1>2, <1>3, <1>4, <2>4
    <3>3. QED
      BY <3>1, <3>2
  <2>5. QED
    BY <2>1, <2>2, <2>3, <2>4
<1>5. ASSUME NEW j \in 1 .. n - 1, Parent(j) = c
      PROVE  <<g[Parent(c)], g[j]>> \in R
  <2>1. Parent(j) # i /\ j # c /\ j # i
    BY <1>1, <1>3, <1>5
  <2>2. <<h[c], h[j]>> \in R
    BY <1>5, <2>1 DEF OrderBelow
  <2>3. g[j] = h[j]
    BY <1>2, <1>3, <2>1
  <2>4. QED
    BY <1>2, <2>2, <2>3
<1>6. QED
  BY <1>4, <1>5 DEF OrderBelow, g

\* Nothing belongs above the first entry.
LEMMA RootIsFirst ==
  ASSUME NEW R, NEW E, IsOrder(R, E), NEW h, NEW n \in Nat, n # 0, Holds(h, n, E), InOrder(R, h, n)
  PROVE  h[0] \in E /\ \A x \in E : <<h[0], x>> \in R
<1>1. \A j \in 0 .. n - 1 : h[j] \in E
  BY DEF Holds
<1> DEFINE T == {k \in Nat : \A j \in 0 .. k : j < n => <<h[0], h[j]>> \in R}
<1>2. h[0] \in E
  BY <1>1
<1>3. 0 \in T
  BY <1>2 DEF IsOrder
<1>4. ASSUME NEW k \in Nat, k \in T PROVE k + 1 \in T
  <2>1. SUFFICES ASSUME k + 1 < n PROVE <<h[0], h[k + 1]>> \in R
    BY <1>4
  <2>2. k + 1 \in 1 .. n - 1
    BY <2>1
  <2>3. Parent(k + 1) \in 0 .. k /\ Parent(k + 1) < n
    BY <2>1, ParentFacts
  <2>4. <<h[0], h[Parent(k + 1)]>> \in R
    BY <1>4, <2>3
  <2>5. <<h[Parent(k + 1)], h[k + 1]>> \in R
    BY <2>2 DEF InOrder
  <2>6. h[Parent(k + 1)] \in E /\ h[k + 1] \in E
    BY <1>1, <2>2, <2>3
  <2>7. QED
    BY <1>2, <2>4, <2>5, <2>6 DEF IsOrder
<1>5. Nat \subseteq T
  BY <1>3, <1>4, SetInduction
<1>6. \A j \in 0 .. n - 1 : <<h[0], h[j]>> \in R
  BY <1>5
<1>7. QED
  BY <1>2, <1>6 DEF Holds

\* There are as many entries as slots they are in.
LEMMA HoldsCardinality ==
  ASSUME NEW h, NEW n \in Nat, NEW E, Holds(h, n, E)
  PROVE  IsFiniteSet(E) /\ Cardinality(E) = n
<1> DEFINE f == [i \in 1 .. n |-> h[i - 1]]
<1>1. f \in Bijection(1 .. n, E)
  <2>1. f \in [1 .. n -> E]
    BY DEF Holds
  <2>2. \A i, j \in 1 .. n : f[i] = f[j] => i = j
    BY DEF Holds
  <2>3. \A x \in E : \E i \in 1 .. n : f[i] = x
    <3>1. TAKE x \in E
    <3>2. PICK i \in 0 .. n - 1 : x = h[i]
      BY DEF Holds
    <3>3. i + 1 \in 1 .. n /\ f[i + 1] = x
      BY <3>2
    <3>4. QED
      BY <3>3
  <2> HIDE DEF f
  <2>4. QED
    BY <2>1, <2>2, <2>3 DEF Bijection, Injection, Surjection, IsInjective
<1>2. ExistsBijection(1 .. n, E)
  BY <1>1 DEF ExistsBijection
<1>3. QED
  BY <1>2, FS_CountingElements, FS_NatBijection

-----------------------------------------------------------------------------
(* The loops of the heaps: arrays over D with values in X, whose first n slots hold E *)

\* The states of a loop on its way up, and of one on its way down: the array and the slot
\* that the loop has come to.
UpStates(D, X, R, E, n) ==
  {s \in [h : [D -> X], i : 0 .. n - 1] : Holds(s.h, n, E) /\ OrderAbove(R, s.h, n, s.i)}

DownStates(D, X, R, E, n) ==
  {s \in [h : [D -> X], i : 0 .. n - 1] : Holds(s.h, n, E) /\ OrderBelow(R, s.h, n, s.i)}

\* The heap is as it should be.
IsHeap(D, X, R, E, n, h) == h \in [D -> X] /\ Holds(h, n, E) /\ InOrder(R, h, n)

\* t is s after a round of the way up.
IsRise(R, s, t) ==
  \/ t = s /\ (s.i # 0 => <<s.h[Parent(s.i)], s.h[s.i]>> \in R)
  \/ /\ s.i # 0 /\ <<s.h[s.i], s.h[Parent(s.i)]>> \in R
     /\ t = [h |-> Exchange(s.h, s.i, Parent(s.i)), i |-> Parent(s.i)]

\* t is s after a round of the way down.
IsSink(R, n, s, t) ==
  \/ t = s /\ \A j \in 1 .. n - 1 : Parent(j) = s.i => <<s.h[s.i], s.h[j]>> \in R
  \/ \E c \in 1 .. n - 1 :
       /\ Parent(c) = s.i /\ <<s.h[c], s.h[s.i]>> \in R
       /\ \A j \in 1 .. n - 1 : Parent(j) = s.i => <<s.h[c], s.h[j]>> \in R
       /\ t = [h |-> Exchange(s.h, s.i, c), i |-> c]

\* step, on the states S, is such a round.
Rises(R, S, step) == step = [s \in S |-> step[s]] /\ \A s \in S : IsRise(R, s, step[s])
Sinks(R, n, S, step) == step = [s \in S |-> step[s]] /\ \A s \in S : IsSink(R, n, s, step[s])

\* A swap keeps the array an array.
LEMMA ExchangeType ==
  ASSUME NEW D, NEW X, NEW h \in [D -> X], NEW a \in D, NEW b \in D
  PROVE  Exchange(h, a, b) \in [D -> X]
BY DEF Exchange

\* The way up of an entry, from a slot that may be too low, ends with a heap of the same
\* entries after at most as many rounds as the number of that slot.
LEMMA UpLoop ==
  ASSUME NEW D, NEW X, NEW R, NEW E, IsOrder(R, E), NEW n \in Nat,
         NEW S, S = UpStates(D, X, R, E, n), NEW x \in S,
         NEW step, Rises(R, S, step)
  PROVE  \E f :
           IsIteration(f, S, x, step) /\ IsHeap(D, X, R, E, n, f[x.i].h)
<1> DEFINE rank == [s \in S |-> s.i]
<1>1. ASSUME NEW s \in S
      PROVE  /\ s.h \in [D -> X] /\ s.i \in 0 .. n - 1 /\ s.i \in Nat
             /\ Holds(s.h, n, E) /\ OrderAbove(R, s.h, n, s.i)
  BY DEF UpStates
<1>2. ASSUME NEW s \in S
      PROVE  step[s] \in S /\ (step[s] = s \/ step[s].i < s.i)
  <2>1. CASE step[s] = s
    BY <2>1
  <2>2. CASE /\ s.i # 0 /\ <<s.h[s.i], s.h[Parent(s.i)]>> \in R
             /\ step[s] = [h |-> Exchange(s.h, s.i, Parent(s.i)), i |-> Parent(s.i)]
    <3>1. s.i \in 1 .. n - 1 /\ s.i \in 0 .. n - 1
      BY <1>1, <2>2
    <3>2. Parent(s.i) \in 0 .. s.i - 1 /\ Parent(s.i) \in 0 .. n - 1 /\ Parent(s.i) < s.i
      BY <3>1, ParentFacts
    <3>3. 0 .. n - 1 \subseteq D
      BY <1>1 DEF Holds
    <3>4. Exchange(s.h, s.i, Parent(s.i)) \in [D -> X]
      BY <1>1, <3>1, <3>2, <3>3, ExchangeType
    <3>5. Holds(Exchange(s.h, s.i, Parent(s.i)), n, E)
      BY <1>1, <3>1, <3>2, ExchangeFacts
    <3>6. OrderAbove(R, Exchange(s.h, s.i, Parent(s.i)), n, Parent(s.i))
      BY <1>1, <2>2, <3>1, UpOneLevel
    <3>7. QED
      BY <2>2, <3>2, <3>4, <3>5, <3>6 DEF UpStates
  <2>3. QED
    BY <2>1, <2>2 DEF Rises, IsRise
<1>3. rank[x] = x.i
  OBVIOUS
<1>4. Decreases(S, step, rank)
  <2>1. step = [s \in S |-> step[s]]
    BY DEF Rises
  <2>2. step \in [S -> S] /\ rank \in [S -> Nat]
    BY <1>1, <1>2, <2>1
  <2>3. QED
    BY <1>2, <2>2 DEF Decreases
<1> HIDE DEF rank
<1>5. PICK f : IsIteration(f, S, x, step) /\ step[f[rank[x]]] = f[rank[x]]
  BY <1>4, Loop
<1>6. IsIteration(f, S, x, step) /\ step[f[x.i]] = f[x.i]
  BY <1>3, <1>5
<1>7. f[x.i] \in S
  BY <1>1, <1>3, <1>6 DEF IsIteration
<1> DEFINE z == f[x.i]
<1>8. InOrder(R, z.h, n)
  <2> HIDE DEF z
  <2>1. z \in S /\ step[z] = z
    BY <1>6, <1>7 DEF z
  <2>2. z.i # 0 => <<z.h[Parent(z.i)], z.h[z.i]>> \in R
    <3>1. SUFFICES ASSUME z.i # 0, z = [h |-> Exchange(z.h, z.i, Parent(z.i)), i |-> Parent(z.i)]
                   PROVE  FALSE
      BY <2>1 DEF Rises, IsRise
    <3>2. z.i = Parent(z.i)
      BY <3>1
    <3>3. z.i \in Nat
      BY <1>1, <2>1
    <3>4. Parent(z.i) \in 0 .. z.i - 1
      BY <3>1, <3>3, ParentFacts
    <3>5. QED
      BY <3>2, <3>3, <3>4
  <2>3. OrderAbove(R, z.h, n, z.i)
    BY <1>1, <2>1
  <2>4. ASSUME NEW j \in 1 .. n - 1 PROVE <<z.h[Parent(j)], z.h[j]>> \in R
    <3>1. CASE j = z.i
      BY <2>2, <3>1
    <3>2. CASE j # z.i
      BY <2>3, <3>2 DEF OrderAbove
    <3>3. QED
      BY <3>1, <3>2
  <2>5. QED
    BY <2>4 DEF InOrder
<1>9. QED
  BY <1>1, <1>6, <1>7, <1>8 DEF IsHeap

\* The way down of the first entry ends with a heap of the same entries after at most as
\* many rounds as there are entries.
LEMMA DownLoop ==
  ASSUME NEW D, NEW X, NEW R, NEW E, IsOrder(R, E), NEW n \in Nat,
         NEW S, S = DownStates(D, X, R, E, n), NEW x \in S, x.i = 0,
         NEW step, Sinks(R, n, S, step)
  PROVE  \E f :
           IsIteration(f, S, x, step) /\ IsHeap(D, X, R, E, n, f[n].h)
<1>1. ASSUME NEW s \in S
      PROVE  /\ s.h \in [D -> X] /\ s.i \in 0 .. n - 1 /\ n - s.i \in Nat
             /\ Holds(s.h, n, E) /\ OrderBelow(R, s.h, n, s.i)
  BY DEF DownStates
<1>2. ASSUME NEW s \in S
      PROVE  step[s] \in S /\ (step[s] = s \/ n - step[s].i < n - s.i)
  <2>1. CASE step[s] = s
    BY <2>1
  <2>2. ASSUME NEW c \in 1 .. n - 1, Parent(c) = s.i, <<s.h[c], s.h[s.i]>> \in R,
               \A j \in 1 .. n - 1 : Parent(j) = s.i => <<s.h[c], s.h[j]>> \in R,
               step[s] = [h |-> Exchange(s.h, s.i, c), i |-> c]
        PROVE  step[s] \in S /\ n - step[s].i < n - s.i
    <3>1. c \in 0 .. n - 1 /\ s.i < c
      BY <1>1, <2>2, ParentFacts
    <3>2. 0 .. n - 1 \subseteq D
      BY <1>1 DEF Holds
    <3>3. Exchange(s.h, s.i, c) \in [D -> X]
      BY <1>1, <3>1, <3>2, ExchangeType
    <3>4. Holds(Exchange(s.h, s.i, c), n, E)
      BY <1>1, <3>1, ExchangeFacts
    <3>5. OrderBelow(R, Exchange(s.h, s.i, c), n, c)
      BY <1>1, <2>2, DownOneLevel
    <3>6. step[s] \in S
      BY <2>2, <3>1, <3>3, <3>4, <3>5 DEF DownStates
    <3>7. n - c < n - s.i
      BY <1>1, <3>1
    <3>8. QED
      BY <2>2, <3>6, <3>7
  <2>3. QED
    BY <2>1, <2>2 DEF Sinks, IsSink
<1>3. PICK rank \in [S -> Nat] : \A s \in S : rank[s] = n - s.i
  <2>1. [s \in S |-> n - s.i] \in [S -> Nat]
    BY <1>1
  <2>2. QED
    BY <2>1
<1>4. rank[x] = n
  BY <1>3
<1>5. Decreases(S, step, rank)
  <2>1. step = [s \in S |-> step[s]]
    BY DEF Sinks
  <2>2. step \in [S -> S]
    BY <1>2, <2>1
  <2>3. QED
    BY <1>2, <1>3, <2>2 DEF Decreases
<1>6. PICK f : IsIteration(f, S, x, step) /\ step[f[rank[x]]] = f[rank[x]]
  BY <1>5, Loop
<1>7. IsIteration(f, S, x, step) /\ step[f[n]] = f[n]
  BY <1>4, <1>6
<1>8. f[n] \in S
  BY <1>7 DEF IsIteration
<1> DEFINE z == f[n]
<1>9. InOrder(R, z.h, n)
  <2> HIDE DEF z
  <2>1. z \in S /\ step[z] = z
    BY <1>7, <1>8 DEF z
  <2>2. \A j \in 1 .. n - 1 : Parent(j) = z.i => <<z.h[z.i], z.h[j]>> \in R
    <3>1. IsSink(R, n, z, z)
      BY <2>1 DEF Sinks
    <3>2. SUFFICES ASSUME NEW c \in 1 .. n - 1, Parent(c) = z.i,
                          z = [h |-> Exchange(z.h, z.i, c), i |-> c]
                   PROVE  FALSE
      BY <3>1 DEF IsSink
    <3>3. z.i = c
      BY <3>2
    <3>4. Parent(c) \in 0 .. c - 1
      BY ParentFacts
    <3>5. QED
      BY <3>2, <3>3, <3>4
  <2>3. OrderBelow(R, z.h, n, z.i)
    BY <1>1, <2>1
  <2>4. QED
    BY <2>2, <2>3 DEF OrderBelow, InOrder
<1>10. QED
  BY <1>1, <1>7, <1>8, <1>9 DEF IsHeap

\* An entry is added behind the others, or the last one is put in the place of the first.
LEMMA AddLast ==
  ASSUME NEW R, NEW h, NEW n \in Nat, InOrder(R, h, n),
         NEW g, \A i \in 0 .. n - 1 : g[i] = h[i]
  PROVE  OrderAbove(R, g, n + 1, n)
<1>1. SUFFICES ASSUME NEW j \in 1 .. n
               PROVE  /\ j # n => <<g[Parent(j)], g[j]>> \in R
                      /\ Parent(j) # n
  BY DEF OrderAbove
<1>2. Parent(j) \in 0 .. j - 1
  BY ParentFacts
<1>3. ASSUME j # n PROVE <<g[Parent(j)], g[j]>> \in R
  <2>1. j \in 1 .. n - 1 /\ j \in 0 .. n - 1 /\ Parent(j) \in 0 .. n - 1
    BY <1>2, <1>3
  <2>2. <<h[Parent(j)], h[j]>> \in R
    BY <2>1 DEF InOrder
  <2>3. QED
    BY <2>1, <2>2
<1>4. QED
  BY <1>2, <1>3

\* The rest stays in order when the last entry is put in the place of the first.
LEMMA ReplaceFirst ==
  ASSUME NEW R, NEW h, NEW n \in Nat, InOrder(R, h, n + 1),
         NEW g, \A i \in 1 .. n - 1 : g[i] = h[i]
  PROVE  OrderBelow(R, g, n, 0)
<1>1. SUFFICES ASSUME NEW j \in 1 .. n - 1, Parent(j) # 0
               PROVE  <<g[Parent(j)], g[j]>> \in R
  BY DEF OrderBelow
<1>2. Parent(j) \in 0 .. j - 1
  BY ParentFacts
<1>3. Parent(j) \in 1 .. n - 1 /\ j \in 1 .. (n + 1) - 1
  BY <1>1, <1>2
<1>4. <<h[Parent(j)], h[j]>> \in R
  BY <1>3 DEF InOrder
<1>5. QED
  BY <1>3, <1>4

\* g is h with x in slot i.
Puts(g, h, i, x) ==
  DOMAIN g = DOMAIN h /\ g[i] = x /\ \A j \in DOMAIN h : j # i => g[j] = h[j]

\* An entry more.
LEMMA HoldsAdd ==
  ASSUME NEW h, NEW n \in Nat, NEW E, Holds(h, n, E), n \in DOMAIN h, NEW x, x \notin E,
         NEW g, Puts(g, h, n, x)
  PROVE  Holds(g, n + 1, E \cup {x}) /\ \A i \in 0 .. n - 1 : g[i] = h[i]
<1>1. DOMAIN g = DOMAIN h /\ 0 .. n \subseteq DOMAIN h /\ g[n] = x
  BY DEF Holds, Puts
<1>2. \A i \in 0 .. n - 1 : g[i] = h[i] /\ g[i] \in E
  BY DEF Holds, Puts
<1>3. E \cup {x} = {g[i] : i \in 0 .. n}
  <2>1. \A y \in E : \E i \in 0 .. n : y = g[i]
    BY <1>2 DEF Holds
  <2>2. \A i \in 0 .. n : g[i] \in E \cup {x}
    BY <1>1, <1>2
  <2>3. n \in 0 .. n
    OBVIOUS
  <2>4. QED
    BY <1>1, <2>1, <2>2, <2>3
<1>4. \A i, j \in 0 .. n : g[i] = g[j] => i = j
  <2>1. SUFFICES ASSUME NEW i \in 0 .. n, NEW j \in 0 .. n, g[i] = g[j] PROVE i = j
    OBVIOUS
  <2>2. CASE i # n /\ j # n
    BY <1>2, <2>1, <2>2 DEF Holds
  <2>3. CASE i = n \/ j = n
    BY <1>1, <1>2, <2>1, <2>3
  <2>4. QED
    BY <2>2, <2>3
<1>5. Holds(g, n + 1, E \cup {x})
  BY <1>1, <1>3, <1>4 DEF Holds
<1>6. QED
  BY <1>2, <1>5

\* g is h, of n + 1 = m slots, with its last entry also in the place of its first.
LastToFirst(g, h, n, m) == n \in Nat /\ m = n + 1 /\ Puts(g, h, 0, h[n])

\* An entry less: the first is gone, and the last is in its place, if there is one.
LEMMA HoldsRemove ==
  ASSUME NEW h, NEW n, NEW m, NEW E, Holds(h, m, E), NEW g, LastToFirst(g, h, n, m)
  PROVE  IF n = 0 THEN Holds(h, 0, E \ {h[0]}) ELSE Holds(g, n, E \ {h[0]})
<1> DEFINE first == h[0]
<1>1. n \in Nat /\ Holds(h, n + 1, E) /\ Puts(g, h, 0, h[n])
  BY DEF LastToFirst
<1>2. /\ DOMAIN h \in SUBSET Int /\ 0 .. n \subseteq DOMAIN h
      /\ \A x : x \in E <=> \E i \in 0 .. n : x = h[i]
      /\ \A i, j \in 0 .. n : h[i] = h[j] => i = j
  <2>1. (n + 1) - 1 = n
    BY <1>1
  <2>2. QED
    BY ONLY <1>1, <2>1 DEF Holds
<1>3. CASE n = 0
  <2>1. E = {h[0]}
    BY <1>1, <1>2, <1>3
  <2>2. QED
    BY <1>1, <1>2, <1>3, <2>1 DEF Holds, Puts
<1>4. CASE n # 0
  <2>1. DOMAIN g = DOMAIN h /\ g[0] = h[n] /\ \A i \in 1 .. n - 1 : g[i] = h[i]
    BY <1>1, <1>2 DEF Puts
  <2>2. \A i \in 0 .. n - 1 : \E j \in 1 .. n : g[i] = h[j]
    BY <1>1, <1>4, <2>1
  <2>3. \A j \in 1 .. n : \E i \in 0 .. n - 1 : g[i] = h[j]
    BY <1>1, <1>4, <2>1
  <2>4. \A x : x \in E \ {first} <=> \E j \in 1 .. n : x = h[j]
    BY <1>1, <1>2
  <2>5. E \ {first} = {g[i] : i \in 0 .. n - 1}
    BY ONLY <2>2, <2>3, <2>4
  <2>6. \A i, j \in 0 .. n - 1 : g[i] = g[j] => i = j
    <3>1. SUFFICES ASSUME NEW i \in 0 .. n - 1, NEW j \in 0 .. n - 1, g[i] = g[j] PROVE i = j
      OBVIOUS
    <3>2. CASE i # 0 /\ j # 0
      BY <1>1, <1>2, <2>1, <3>1, <3>2
    <3>3. CASE i = 0 \/ j = 0
      BY <1>1, <1>2, <2>1, <3>1, <3>3
    <3>4. QED
      BY <3>2, <3>3
  <2>7. Holds(g, n, E \ {first})
    BY <1>1, <1>2, <2>1, <2>5, <2>6 DEF Holds
  <2>8. QED
    BY <1>1, <1>4, <2>1, <2>7
<1>5. QED
  BY <1>3, <1>4

-----------------------------------------------------------------------------
(* The heap of heap.c *)

\* The instances have their own names for the operators of FiniteSets.
LEMMA HeapFiniteSets ==
  ASSUME NEW S
  PROVE  (Heap!IsFiniteSet(S) <=> IsFiniteSet(S)) /\ Heap!Cardinality(S) = Cardinality(S)
BY DEF Heap!Cardinality, Cardinality, Heap!IsFiniteSet, IsFiniteSet

\* The order of the heap of heap.c.
TimeOrder == {p \in TrainTasks \X TrainTasks : Time[p[1]] <= Time[p[2]]}

\* The inductive invariant of the heap of heap.c: its first len slots hold its entries, each
\* once and in heap order.
HeapInv ==
  /\ items \in [Heap!Slots -> TrainTasks \cup {NoTrainTask}]
  /\ len \in Nat /\ Heap!Entries \subseteq TrainTasks
  /\ Holds(items, len, Heap!Entries) /\ InOrder(TimeOrder, items, len)

\* Earlier items belong above later ones.
LEMMA TimeOrderFacts ==
  ASSUME HeapsAssumption
  PROVE  /\ \A x \in TrainTasks : Time[x] \in Nat /\ Time[x] < LARGE
         /\ LARGE \in Nat
         /\ \A E \in SUBSET TrainTasks : IsOrder(TimeOrder, E)
         /\ \A x, y \in TrainTasks : <<x, y>> \in TimeOrder <=> Time[x] <= Time[y]
<1>1. LARGE \in Nat /\ Time \in [TrainTasks -> 0 .. LARGE - 1]
  BY DEF HeapsAssumption, Heap!HeapAssumption
<1>2. \A x \in TrainTasks : Time[x] \in Nat /\ Time[x] < LARGE
  BY <1>1
<1>3. \A x, y \in TrainTasks : <<x, y>> \in TimeOrder <=> Time[x] <= Time[y]
  BY DEF TimeOrder
<1>4. IsOrder(TimeOrder, TrainTasks)
  BY <1>2, <1>3 DEF IsOrder
<1>5. QED
  BY <1>1, <1>2, <1>3, <1>4 DEF IsOrder

\* heap_add's loop makes a heap of an array in which only the last entry may be too low.
LEMMA TimeSiftUp ==
  ASSUME HeapsAssumption, NEW E \in SUBSET TrainTasks, NEW n \in Nat,
         NEW h \in [Heap!Slots -> TrainTasks \cup {NoTrainTask}],
         Holds(h, n + 1, E), OrderAbove(TimeOrder, h, n + 1, n)
  PROVE  IsHeap(Heap!Slots, TrainTasks \cup {NoTrainTask}, TimeOrder, E, n + 1, Heap!SiftUp(h, n))
<1> DEFINE S == UpStates(Heap!Slots, TrainTasks \cup {NoTrainTask}, TimeOrder, E, n + 1)
           x == [h |-> h, i |-> n]
           step == [s \in S |-> Heap!Rise(s)]
           after == CHOOSE after : after = [k \in Nat |-> IF k = 0 THEN [h |-> h, i |-> n]
                                                         ELSE Heap!Rise(after[k - 1])]
<1>1. x \in S /\ x.i = n
  BY DEF UpStates
<1>2. ASSUME NEW s \in S PROVE IsRise(TimeOrder, s, Heap!Rise(s))
  <2>1. s.i \in 0 .. n /\ \A i \in 0 .. n : s.h[i] \in TrainTasks
    BY DEF UpStates, Holds
  <2>2. CASE s.i = 0
    BY <2>2 DEF Heap!Rise, IsRise
  <2>3. CASE s.i # 0
    <3> DEFINE p == Parent(s.i)
    <3>1. p \in 0 .. n /\ p = (s.i - 1) \div 2
      BY <2>1, <2>3, ParentFacts DEF Parent
    <3> HIDE DEF p
    <3>2. s.h[s.i] \in TrainTasks /\ s.h[p] \in TrainTasks
      BY <2>1, <3>1
    <3>3. CASE Time[s.h[s.i]] < Time[s.h[p]]
      <4>1. <<s.h[s.i], s.h[p]>> \in TimeOrder
        BY <3>2, <3>3, TimeOrderFacts
      <4>2. Heap!Rise(s) = [h |-> Exchange(s.h, s.i, p), i |-> p]
        BY <2>3, <3>1, <3>3 DEF Heap!Rise, Heap!Swap, Exchange
      <4>3. QED
        BY <2>3, <4>1, <4>2 DEF IsRise, p
    <3>4. CASE ~ (Time[s.h[s.i]] < Time[s.h[p]])
      <4>1. <<s.h[p], s.h[s.i]>> \in TimeOrder
        BY <3>2, <3>4, TimeOrderFacts
      <4>2. Heap!Rise(s) = s
        BY <3>1, <3>4 DEF Heap!Rise
      <4>3. QED
        BY <4>1, <4>2 DEF IsRise, p
    <3>5. QED
      BY <3>3, <3>4
  <2>4. QED
    BY <2>2, <2>3
<1>3. S = UpStates(Heap!Slots, TrainTasks \cup {NoTrainTask}, TimeOrder, E, n + 1)
  OBVIOUS
<1> HIDE DEF S, x
<1>4. Rises(TimeOrder, S, step)
  BY <1>2 DEF Rises
<1>5. \A s \in S : step[s] = Heap!Rise(s)
  OBVIOUS
<1>6. Heap!SiftUp(h, n) = after[n].h
  BY DEF Heap!SiftUp
<1> HIDE DEF step
<1>7. IsOrder(TimeOrder, E) /\ n + 1 \in Nat
  BY TimeOrderFacts
<1>8. PICK f : IsIteration(f, S, x, step) /\ IsHeap(Heap!Slots, TrainTasks \cup {NoTrainTask}, TimeOrder, E, n + 1, f[x.i].h)
  BY <1>1, <1>4, <1>3, <1>7, UpLoop
<1>9. IsIteration(f, S, x, step) /\ IsHeap(Heap!Slots, TrainTasks \cup {NoTrainTask}, TimeOrder, E, n + 1, f[n].h)
  BY <1>1, <1>8
<1>10. f \in [Nat -> S] /\ f[0] = x /\ \A k \in Nat : f[k + 1] = Heap!Rise(f[k])
  BY <1>5, <1>9 DEF IsIteration
<1>11. f = [k \in Nat |-> IF k = 0 THEN [h |-> h, i |-> n] ELSE Heap!Rise(f[k - 1])]
  <2>1. \A k \in Nat : f[k] = IF k = 0 THEN [h |-> h, i |-> n] ELSE Heap!Rise(f[k - 1])
    <3>1. SUFFICES ASSUME NEW k \in Nat, k # 0 PROVE f[k] = Heap!Rise(f[k - 1])
      BY <1>10 DEF x
    <3>2. k - 1 \in Nat /\ (k - 1) + 1 = k
      BY <3>1
    <3>3. QED
      BY <1>10, <3>2
  <2>2. QED
    BY <1>10, <2>1
<1>12. after = [k \in Nat |-> IF k = 0 THEN [h |-> h, i |-> n] ELSE Heap!Rise(after[k - 1])]
  BY <1>11
<1> HIDE DEF after
<1>13. after[n] = f[n]
  <2> DEFINE T == {k \in Nat : after[k] = f[k]}
  <2>1. 0 \in T
    BY <1>10, <1>12 DEF x
  <2>2. ASSUME NEW k \in Nat, k \in T PROVE k + 1 \in T
    <3>1. k + 1 # 0 /\ k + 1 \in Nat /\ (k + 1) - 1 = k
      OBVIOUS
    <3>2. after[k + 1] = Heap!Rise(after[k])
      BY <1>12, <3>1
    <3>3. QED
      BY <1>10, <2>2, <3>2
  <2>3. Nat \subseteq T
    BY <2>1, <2>2, SetInduction
  <2>4. QED
    BY <2>3
<1>14. QED
  BY <1>6, <1>9, <1>13

\* heap_pop's loop makes a heap of an array in which only the first entry may be too high:
\* a round that looks at a child that does not exist never moves the item there.
LEMMA TimeSiftDown ==
  ASSUME HeapsAssumption, NEW E \in SUBSET TrainTasks, NEW n \in Nat, n # 0,
         NEW h \in [Heap!Slots -> TrainTasks \cup {NoTrainTask}],
         Holds(h, n, E), OrderBelow(TimeOrder, h, n, 0)
  PROVE  IsHeap(Heap!Slots, TrainTasks \cup {NoTrainTask}, TimeOrder, E, n, Heap!SiftDown(h, n))
<1> DEFINE S == DownStates(Heap!Slots, TrainTasks \cup {NoTrainTask}, TimeOrder, E, n)
           x == [h |-> h, i |-> 0]
           step == [s \in S |-> Heap!Sink(s, n)]
           after == CHOOSE after : after = [k \in Nat |-> IF k = 0 THEN [h |-> h, i |-> 0]
                                                         ELSE Heap!Sink(after[k - 1], n)]
<1>1. x \in S /\ x.i = 0
  BY DEF DownStates
<1>2. ASSUME NEW s \in S PROVE IsSink(TimeOrder, n, s, Heap!Sink(s, n))
  <2>1. s.i \in 0 .. n - 1 /\ \A i \in 0 .. n - 1 : s.h[i] \in TrainTasks
    BY DEF DownStates, Holds
  <2> DEFINE l == 2 * s.i + 1
             r == 2 * s.i + 2
             tl == Heap!TimeAt(s.h, n, l)
             tr == Heap!TimeAt(s.h, n, r)
             time == Time[s.h[s.i]]
             j == IF tl < tr THEN l ELSE r
  <2>2. l \in Nat /\ r \in Nat /\ l # 0 /\ r # 0 /\ s.i \in Nat
    BY <2>1
  <2>3. /\ tl = IF l < n THEN Time[s.h[l]] ELSE LARGE
        /\ tr = IF r < n THEN Time[s.h[r]] ELSE LARGE
    BY DEF Heap!TimeAt
  <2>4. time \in Nat /\ time < LARGE /\ s.h[s.i] \in TrainTasks
    BY <2>1, TimeOrderFacts
  <2>5. /\ l < n => s.h[l] \in TrainTasks /\ Time[s.h[l]] \in Nat /\ Time[s.h[l]] < LARGE
        /\ r < n => s.h[r] \in TrainTasks /\ Time[s.h[r]] \in Nat /\ Time[s.h[r]] < LARGE
        /\ LARGE \in Nat
    BY <2>1, <2>2, TimeOrderFacts
  <2>6. Parent(l) = s.i /\ Parent(r) = s.i
    BY <2>2, ParentFacts
  <2>7. \A c \in 1 .. n - 1 : Parent(c) = s.i => c = l \/ c = r
    BY <2>2, ParentFacts
  <2>8. Parent(l) = s.i /\ Parent(r) = s.i /\ \A c \in 1 .. n - 1 : Parent(c) = s.i => c = l \/ c = r
    BY <2>6, <2>7
  <2>9. Heap!Sink(s, n) = IF ~ (time < tl /\ time < tr)
                            THEN [h |-> Exchange(s.h, s.i, j), i |-> j] ELSE s
    BY <2>1 DEF Heap!Sink, Heap!Swap, Exchange
  <2> HIDE DEF l, r, tl, tr, time
  <2>10. CASE time < tl /\ time < tr
    <3>1. ASSUME NEW c \in 1 .. n - 1, Parent(c) = s.i
          PROVE  <<s.h[s.i], s.h[c]>> \in TimeOrder
      <4>1. c = l \/ c = r
        BY <2>8, <3>1
      <4>2. s.h[c] \in TrainTasks /\ time <= Time[s.h[c]]
        BY <2>3, <2>4, <2>5, <2>10, <4>1
      <4>3. QED
        BY <2>4, <4>2, TimeOrderFacts DEF time
    <3>2. QED
      BY <2>9, <2>10, <3>1 DEF IsSink
  <2>11. CASE ~ (time < tl /\ time < tr)
    <3>1. j \in 1 .. n - 1 /\ Parent(j) = s.i /\ s.h[j] \in TrainTasks
      BY <2>2, <2>3, <2>4, <2>5, <2>8, <2>11
    <3>2. /\ Time[s.h[j]] <= time
          /\ \A c \in 1 .. n - 1 : c = l \/ c = r => s.h[c] \in TrainTasks /\ Time[s.h[j]] <= Time[s.h[c]]
      BY <2>2, <2>3, <2>4, <2>5, <2>11
    <3> HIDE DEF j
    <3>3. <<s.h[j], s.h[s.i]>> \in TimeOrder
      BY <2>4, <3>1, <3>2, TimeOrderFacts DEF time
    <3>4. \A c \in 1 .. n - 1 : Parent(c) = s.i => <<s.h[j], s.h[c]>> \in TimeOrder
      BY <2>8, <3>1, <3>2, TimeOrderFacts
    <3>5. QED
      BY <2>9, <2>11, <3>1, <3>3, <3>4 DEF IsSink
  <2>12. QED
    BY <2>10, <2>11
<1>3. S = DownStates(Heap!Slots, TrainTasks \cup {NoTrainTask}, TimeOrder, E, n)
  OBVIOUS
<1> HIDE DEF S, x
<1>4. Sinks(TimeOrder, n, S, step)
  BY <1>2 DEF Sinks
<1>5. \A s \in S : step[s] = Heap!Sink(s, n)
  OBVIOUS
<1>6. Heap!SiftDown(h, n) = after[n].h
  BY DEF Heap!SiftDown
<1> HIDE DEF step
<1>7. PICK f : IsIteration(f, S, x, step) /\ IsHeap(Heap!Slots, TrainTasks \cup {NoTrainTask}, TimeOrder, E, n, f[n].h)
  <2>1. IsOrder(TimeOrder, E)
    BY TimeOrderFacts
  <2>2. QED
    BY <1>1, <1>4, <1>3, <2>1, DownLoop
<1>8. f \in [Nat -> S] /\ f[0] = x /\ \A k \in Nat : f[k + 1] = Heap!Sink(f[k], n)
  BY <1>5, <1>7 DEF IsIteration
<1>9. f = [k \in Nat |-> IF k = 0 THEN [h |-> h, i |-> 0] ELSE Heap!Sink(f[k - 1], n)]
  <2>1. \A k \in Nat : f[k] = IF k = 0 THEN [h |-> h, i |-> 0] ELSE Heap!Sink(f[k - 1], n)
    <3>1. SUFFICES ASSUME NEW k \in Nat, k # 0 PROVE f[k] = Heap!Sink(f[k - 1], n)
      BY <1>8 DEF x
    <3>2. k - 1 \in Nat /\ (k - 1) + 1 = k
      BY <3>1
    <3>3. QED
      BY <1>8, <3>2
  <2>2. QED
    BY <1>8, <2>1
<1>10. after = [k \in Nat |-> IF k = 0 THEN [h |-> h, i |-> 0] ELSE Heap!Sink(after[k - 1], n)]
  BY <1>9
<1> HIDE DEF after
<1>11. after[n] = f[n]
  <2> DEFINE T == {k \in Nat : after[k] = f[k]}
  <2>1. 0 \in T
    BY <1>8, <1>10 DEF x
  <2>2. ASSUME NEW k \in Nat, k \in T PROVE k + 1 \in T
    <3>1. k + 1 # 0 /\ k + 1 \in Nat /\ (k + 1) - 1 = k
      OBVIOUS
    <3>2. after[k + 1] = Heap!Sink(after[k], n)
      BY <1>10, <3>1
    <3>3. QED
      BY <1>8, <2>2, <3>2
  <2>3. Nat \subseteq T
    BY <2>1, <2>2, SetInduction
  <2>4. QED
    BY <2>3
<1>12. QED
  BY <1>6, <1>7, <1>11

\* heap_add keeps the heap, and adds one item to its entries.
LEMMA HeapAddStep ==
  ASSUME HeapsAssumption, HeapInv, NEW x \in TrainTasks, Heap!Add(x)
  PROVE  HeapInv' /\ Heap!Abstract!Add(x)
<1> DEFINE E == Heap!Entries
           g == [items EXCEPT ![len] = x]
<1>1. /\ items \in [Heap!Slots -> TrainTasks \cup {NoTrainTask}] /\ len \in Nat
      /\ E \in SUBSET TrainTasks /\ Holds(items, len, E) /\ InOrder(TimeOrder, items, len)
  BY DEF HeapInv
<1>2. x \notin E /\ items' = Heap!SiftUp(g, len) /\ len' = len + 1
  BY DEF Heap!Add
<1>3. len \in Heap!Slots
  <2>1. IsFiniteSet(TrainTasks)
    BY HeapFiniteSets DEF HeapsAssumption, Heap!HeapAssumption
  <2>2. Cardinality(E) = len
    BY <1>1, HoldsCardinality
  <2>3. Cardinality(E) <= Cardinality(TrainTasks) /\ Cardinality(TrainTasks) \in Nat
    BY <1>1, <2>1, FS_Subset, FS_CardinalityType
  <2>4. len \in 0 .. 2 * Cardinality(TrainTasks)
    BY <1>1, <2>2, <2>3
  <2>5. QED
    BY <2>4, HeapFiniteSets DEF Heap!Slots
<1>4. g \in [Heap!Slots -> TrainTasks \cup {NoTrainTask}] /\ Puts(g, items, len, x)
  BY <1>1, <1>3 DEF Puts
<1>5. len \in DOMAIN items
  BY <1>1, <1>3
<1> HIDE DEF g
<1>6. Holds(g, len + 1, E \cup {x}) /\ \A i \in 0 .. len - 1 : g[i] = items[i]
  <2> HIDE DEF E
  <2>1. len \in Nat /\ Holds(items, len, E) /\ x \notin E /\ Puts(g, items, len, x)
    BY <1>1, <1>2, <1>4
  <2>2. QED
    BY <1>5, <2>1, HoldsAdd
<1>7. OrderAbove(TimeOrder, g, len + 1, len)
  BY <1>1, <1>6, AddLast
<1>8. /\ items' \in [Heap!Slots -> TrainTasks \cup {NoTrainTask}]
      /\ Holds(items', len', E \cup {x}) /\ InOrder(TimeOrder, items', len')
  <2>1. E \cup {x} \in SUBSET TrainTasks
    BY <1>1
  <2>2. QED
    BY <1>1, <1>2, <1>4, <1>6, <1>7, <2>1, TimeSiftUp DEF IsHeap
<1>9. E' = E \cup {x}
  BY <1>8 DEF Holds, Heap!Entries
<1>10. HeapInv'
  BY <1>1, <1>2, <1>8, <1>9 DEF HeapInv
<1>11. QED
  BY <1>2, <1>9, <1>10 DEF Heap!Abstract!Add

\* heap_pop keeps the heap, and takes out an item of the earliest time.
LEMMA HeapPopStep ==
  ASSUME HeapsAssumption, HeapInv, NEW x \in TrainTasks, Heap!Pop(x)
  PROVE  HeapInv' /\ Heap!Abstract!Pop(x)
<1> DEFINE E == Heap!Entries
<1>1. /\ items \in [Heap!Slots -> TrainTasks \cup {NoTrainTask}] /\ len \in Nat
      /\ E \in SUBSET TrainTasks /\ Holds(items, len, E) /\ InOrder(TimeOrder, items, len)
  BY DEF HeapInv
<1>2. len > 0 /\ x = items[0]
  BY DEF Heap!Pop
<1>3. PICK n \in Nat : n + 1 = len /\ n = len - 1
  BY <1>1, <1>2
<1> DEFINE g == [items EXCEPT ![0] = items[n]]
<1>4. /\ n # 0 => Holds(g, n, E \ {x}) /\ \A i \in 1 .. n - 1 : g[i] = items[i]
      /\ n = 0 => Holds(items, 0, E \ {x})
  <2>1. Holds(items, len, E)
    BY <1>1
  <2>2. LastToFirst(g, items, n, len)
    BY <1>1, <1>2, <1>3 DEF LastToFirst, Puts, Holds
  <2> HIDE DEF E, g
  <2>3. IF n = 0 THEN Holds(items, 0, E \ {items[0]}) ELSE Holds(g, n, E \ {items[0]})
    BY ONLY <2>1, <2>2, HoldsRemove
  <2>4. \A i \in 1 .. n - 1 : g[i] = items[i]
    BY <1>1, <1>3, <2>1, <2>2 DEF LastToFirst, Puts, Holds
  <2>5. QED
    BY <1>2, <2>3, <2>4
<1>5. x \in E /\ \A y \in E : Time[x] <= Time[y]
  <2>1. IsOrder(TimeOrder, E) /\ len # 0
    BY <1>1, <1>2, TimeOrderFacts
  <2>2. x \in E /\ \A y \in E : <<x, y>> \in TimeOrder
    BY <1>1, <1>2, <2>1, RootIsFirst
  <2>3. QED
    BY <1>1, <2>2, TimeOrderFacts
<1>6. /\ items' \in [Heap!Slots -> TrainTasks \cup {NoTrainTask}] /\ len' \in Nat
      /\ Holds(items', len', E \ {x}) /\ InOrder(TimeOrder, items', len')
  <2>1. CASE n = 0
    <3>1. items' = items /\ len' = 0
      BY <1>3, <2>1 DEF Heap!Pop
    <3>2. QED
      BY <1>1, <1>4, <2>1, <3>1 DEF InOrder
  <2>2. CASE n # 0
    <3>1. items' = Heap!SiftDown(g, n) /\ len' = n
      BY <1>3, <2>2 DEF Heap!Pop
    <3>2. Holds(g, n, E \ {x}) /\ \A i \in 1 .. n - 1 : g[i] = items[i]
      BY <1>4, <2>2
    <3>3. g \in [Heap!Slots -> TrainTasks \cup {NoTrainTask}]
      <4>1. items[n] \in TrainTasks
        BY <1>1, <1>3 DEF Holds
      <4>2. QED
        BY <1>1, <4>1
    <3> HIDE DEF g
    <3>4. OrderBelow(TimeOrder, g, n, 0)
      BY <1>1, <1>3, <3>2, ReplaceFirst
    <3>5. E \ {x} \in SUBSET TrainTasks
      BY <1>1
    <3>6. QED
      BY <1>3, <2>2, <3>1, <3>2, <3>3, <3>4, <3>5, TimeSiftDown DEF IsHeap
  <2>3. QED
    BY <2>1, <2>2
<1>7. E' = E \ {x}
  BY <1>6 DEF Holds, Heap!Entries
<1>8. HeapInv'
  BY <1>1, <1>6, <1>7 DEF HeapInv
<1>9. \A y \in E : -Time[y] <= -Time[x]
  BY <1>1, <1>5, TimeOrderFacts
<1>10. Heap!Abstract!Pop(x)
  BY <1>1, <1>5, <1>7, <1>9 DEF Heap!Abstract!Pop
<1>11. QED
  BY <1>8, <1>10

-----------------------------------------------------------------------------
(* The ready queue *)

\* The same for the instance of ReadyQueue.
LEMMA ReadyFiniteSets ==
  ASSUME NEW S
  PROVE  (Ready!IsFiniteSet(S) <=> IsFiniteSet(S)) /\ Ready!Cardinality(S) = Cardinality(S)
BY DEF Ready!Cardinality, Cardinality, Ready!IsFiniteSet, IsFiniteSet

\* The order of the ready queue, by which it depends on the timestamps.
ReadyOrder(times) == {p \in Descriptors \X Descriptors : ~ Ready!Beats(p[2], p[1], times)}

\* A task belongs above those it is not beaten by.
LEMMA ReadyOrderFacts ==
  ASSUME HeapsAssumption, NEW times \in [Descriptors -> Nat]
  PROVE  /\ \A E \in SUBSET Descriptors : IsOrder(ReadyOrder(times), E)
         /\ IsOrder(ReadyOrder(times), Descriptors)
         /\ \A x, y \in Descriptors : Ready!Beats(x, y, times) => <<x, y>> \in ReadyOrder(times)
         /\ \A x, y \in Descriptors : ~ Ready!Beats(x, y, times) <=> <<y, x>> \in ReadyOrder(times)
<1>1. \A x \in Descriptors : Priority[x] \in Int /\ times[x] \in Nat
  BY DEF HeapsAssumption, Ready!QueueAssumption
<1>2. \A x, y \in Descriptors : ~ Ready!Beats(x, y, times) <=> <<y, x>> \in ReadyOrder(times)
  BY DEF ReadyOrder
<1>3. \A x, y \in Descriptors : Ready!Beats(x, y, times) => ~ Ready!Beats(y, x, times)
  BY <1>1 DEF Ready!Beats
<1>4. \A x, y, z \in Descriptors :
        ~ Ready!Beats(y, x, times) /\ ~ Ready!Beats(z, y, times) => ~ Ready!Beats(z, x, times)
  BY <1>1 DEF Ready!Beats
<1>5. IsOrder(ReadyOrder(times), Descriptors)
  BY <1>2, <1>3, <1>4 DEF IsOrder
<1>6. \A E \in SUBSET Descriptors : IsOrder(ReadyOrder(times), E)
  BY <1>5 DEF IsOrder
<1>7. QED
  BY <1>2, <1>3, <1>5, <1>6

\* add_to_ready_queue's loop makes a heap of an array in which only the last entry may be
\* too low.
LEMMA ReadySiftUp ==
  ASSUME HeapsAssumption, NEW times \in [Descriptors -> Nat], NEW E \in SUBSET Descriptors, NEW n \in Nat,
         NEW h \in [Ready!Slots -> Descriptors \cup {NoDescriptor}],
         Holds(h, n + 1, E), OrderAbove(ReadyOrder(times), h, n + 1, n)
  PROVE  IsHeap(Ready!Slots, Descriptors \cup {NoDescriptor}, ReadyOrder(times), E, n + 1, Ready!SiftUp(h, n, times))
<1>1. PICK R :
        /\ R = ReadyOrder(times) /\ OrderAbove(R, h, n + 1, n)
        /\ IsOrder(R, E) /\ IsOrder(R, Descriptors)
        /\ \A y, z \in Descriptors : Ready!Beats(y, z, times) => <<y, z>> \in R
        /\ \A y, z \in Descriptors : ~ Ready!Beats(y, z, times) => <<z, y>> \in R
  BY ReadyOrderFacts
<1> DEFINE S == UpStates(Ready!Slots, Descriptors \cup {NoDescriptor}, R, E, n + 1)
           x == [h |-> h, i |-> n]
           step == [s \in S |-> Ready!Rise(s, times)]
           after == CHOOSE after : after = [k \in Nat |-> IF k = 0 THEN [h |-> h, i |-> n]
                                                         ELSE Ready!Rise(after[k - 1], times)]
<1>2. x \in S /\ x.i = n
  BY <1>1 DEF UpStates
<1>3. ASSUME NEW s \in S PROVE IsRise(R, s, Ready!Rise(s, times))
  <2>1. s.i \in 0 .. n /\ \A i \in 0 .. n : s.h[i] \in Descriptors
    <3>1. s.i \in 0 .. (n + 1) - 1 /\ Holds(s.h, n + 1, E) /\ (n + 1) - 1 = n
      BY DEF UpStates
    <3>2. \A i \in 0 .. (n + 1) - 1 : s.h[i] \in E
      BY <3>1 DEF Holds
    <3>3. QED
      BY <3>1, <3>2
  <2>2. CASE s.i = 0
    BY <2>2 DEF Ready!Rise, IsRise
  <2>3. CASE s.i # 0
    <3> DEFINE p == Parent(s.i)
    <3>1. p \in 0 .. n /\ p = (s.i - 1) \div 2
      BY <2>1, <2>3, ParentFacts DEF Parent
    <3> HIDE DEF p
    <3>2. s.h[s.i] \in Descriptors /\ s.h[p] \in Descriptors
      BY <2>1, <3>1
    <3>3. CASE Ready!Beats(s.h[s.i], s.h[p], times)
      <4>1. <<s.h[s.i], s.h[p]>> \in R
        BY <3>2, <3>3, <1>1
      <4>2. Ready!Rise(s, times) = [h |-> Exchange(s.h, s.i, p), i |-> p]
        BY <2>3, <3>1, <3>3 DEF Ready!Rise, Ready!Swap, Exchange
      <4>3. QED
        BY <2>3, <4>1, <4>2 DEF IsRise, p
    <3>4. CASE ~ Ready!Beats(s.h[s.i], s.h[p], times)
      <4>1. <<s.h[p], s.h[s.i]>> \in R
        BY <3>2, <3>4, <1>1
      <4>2. Ready!Rise(s, times) = s
        BY <3>1, <3>4 DEF Ready!Rise
      <4>3. QED
        BY <4>1, <4>2 DEF IsRise, p
    <3>5. QED
      BY <3>3, <3>4
  <2>4. QED
    BY <2>2, <2>3
<1>4. S = UpStates(Ready!Slots, Descriptors \cup {NoDescriptor}, R, E, n + 1)
  OBVIOUS
<1> HIDE DEF S, x
<1>5. Rises(R, S, step)
  BY <1>3 DEF Rises
<1>6. \A s \in S : step[s] = Ready!Rise(s, times)
  OBVIOUS
<1>7. Ready!SiftUp(h, n, times) = after[n].h
  BY DEF Ready!SiftUp
<1> HIDE DEF step
<1>8. IsOrder(R, E) /\ n + 1 \in Nat
  BY <1>1
<1>9. PICK f : IsIteration(f, S, x, step) /\ IsHeap(Ready!Slots, Descriptors \cup {NoDescriptor}, R, E, n + 1, f[x.i].h)
  BY <1>2, <1>5, <1>4, <1>8, UpLoop
<1>10. IsIteration(f, S, x, step) /\ IsHeap(Ready!Slots, Descriptors \cup {NoDescriptor}, R, E, n + 1, f[n].h)
  BY <1>2, <1>9
<1>11. f \in [Nat -> S] /\ f[0] = x /\ \A k \in Nat : f[k + 1] = Ready!Rise(f[k], times)
  BY <1>6, <1>10 DEF IsIteration
<1>12. f = [k \in Nat |-> IF k = 0 THEN [h |-> h, i |-> n] ELSE Ready!Rise(f[k - 1], times)]
  <2>1. \A k \in Nat : f[k] = IF k = 0 THEN [h |-> h, i |-> n] ELSE Ready!Rise(f[k - 1], times)
    <3>1. SUFFICES ASSUME NEW k \in Nat, k # 0 PROVE f[k] = Ready!Rise(f[k - 1], times)
      BY <1>11 DEF x
    <3>2. k - 1 \in Nat /\ (k - 1) + 1 = k
      BY <3>1
    <3>3. QED
      BY <1>11, <3>2
  <2>2. QED
    BY <1>11, <2>1
<1>13. after = [k \in Nat |-> IF k = 0 THEN [h |-> h, i |-> n] ELSE Ready!Rise(after[k - 1], times)]
  BY <1>12
<1> HIDE DEF after
<1>14. after[n] = f[n]
  <2> DEFINE T == {k \in Nat : after[k] = f[k]}
  <2>1. 0 \in T
    BY <1>11, <1>13 DEF x
  <2>2. ASSUME NEW k \in Nat, k \in T PROVE k + 1 \in T
    <3>1. k + 1 # 0 /\ k + 1 \in Nat /\ (k + 1) - 1 = k
      OBVIOUS
    <3>2. after[k + 1] = Ready!Rise(after[k], times)
      BY <1>13, <3>1
    <3>3. QED
      BY <1>11, <2>2, <3>2
  <2>3. Nat \subseteq T
    BY <2>1, <2>2, SetInduction
  <2>4. QED
    BY <2>3
<1>15. QED
  BY <1>1, <1>7, <1>10, <1>14

\* top_down_heapify(0) makes a heap of an array in which only the first entry may be too
\* high.
LEMMA ReadyHeapify ==
  ASSUME HeapsAssumption, NEW times \in [Descriptors -> Nat], NEW E \in SUBSET Descriptors, NEW n \in Nat, n # 0,
         NEW h \in [Ready!Slots -> Descriptors \cup {NoDescriptor}],
         Holds(h, n, E), OrderBelow(ReadyOrder(times), h, n, 0)
  PROVE  IsHeap(Ready!Slots, Descriptors \cup {NoDescriptor}, ReadyOrder(times), E, n, Ready!Heapify(h, n, times))
<1>1. PICK R :
        /\ R = ReadyOrder(times) /\ OrderBelow(R, h, n, 0)
        /\ IsOrder(R, E) /\ IsOrder(R, Descriptors)
        /\ \A y, z \in Descriptors : Ready!Beats(y, z, times) => <<y, z>> \in R
        /\ \A y, z \in Descriptors : ~ Ready!Beats(y, z, times) => <<z, y>> \in R
  BY ReadyOrderFacts
<1> DEFINE S == DownStates(Ready!Slots, Descriptors \cup {NoDescriptor}, R, E, n)
           x == [h |-> h, i |-> 0]
           step == [s \in S |-> Ready!Sink(s, n, times)]
           after == CHOOSE after : after = [k \in Nat |-> IF k = 0 THEN [h |-> h, i |-> 0]
                                                         ELSE Ready!Sink(after[k - 1], n, times)]
<1>2. x \in S /\ x.i = 0
  BY <1>1 DEF DownStates
<1>3. ASSUME NEW s \in S PROVE IsSink(R, n, s, Ready!Sink(s, n, times))
  <2>1. s.i \in 0 .. n - 1 /\ \A i \in 0 .. n - 1 : s.h[i] \in Descriptors
    BY DEF DownStates, Holds
  <2> DEFINE l == 2 * s.i + 1
             r == 2 * s.i + 2
             m == IF l < n /\ Ready!Beats(s.h[l], s.h[s.i], times) THEN l ELSE s.i
             largest == IF r < n /\ Ready!Beats(s.h[r], s.h[m], times) THEN r ELSE m
  <2>2. l \in Nat /\ r \in Nat /\ l # 0 /\ r # 0 /\ s.i \in Nat /\ l # s.i /\ r # s.i
    BY <2>1
  <2>3. ASSUME NEW c \in 1 .. n - 1, Parent(c) = s.i
        PROVE  c = l \/ c = r
    <3>1. c \in Nat /\ c # 0
      OBVIOUS
    <3>2. QED
      BY <2>2, <2>3, <3>1, ParentFacts
  <2>4. Parent(l) = s.i /\ Parent(r) = s.i
    BY <2>2, ParentFacts
  <2>5. Ready!Sink(s, n, times) = IF largest # s.i
                                  THEN [h |-> Exchange(s.h, s.i, largest), i |-> largest] ELSE s
    BY DEF Ready!Sink, Ready!Swap, Exchange
  <2>6. /\ l < n => l \in 1 .. n - 1 /\ s.h[l] \in Descriptors
        /\ r < n => r \in 1 .. n - 1 /\ s.h[r] \in Descriptors
        /\ s.h[s.i] \in Descriptors
    BY <2>1, <2>2
  <2>7. /\ \A y, z \in Descriptors : Ready!Beats(y, z, times) => <<y, z>> \in R
        /\ \A y, z \in Descriptors : ~ Ready!Beats(y, z, times) => <<z, y>> \in R
        /\ IsOrder(R, Descriptors)
    BY <1>1
  <2>8. \A w, y, z \in Descriptors : <<w, y>> \in R /\ <<y, z>> \in R => <<w, z>> \in R
    BY <2>7 DEF IsOrder
  <2>9. \A y \in Descriptors : <<y, y>> \in R
    BY <2>7 DEF IsOrder
  <2> HIDE DEF l, r
  <2>10. CASE largest = s.i
    <3>1. /\ l < n => ~ Ready!Beats(s.h[l], s.h[s.i], times)
          /\ r < n => ~ Ready!Beats(s.h[r], s.h[s.i], times)
      BY <2>2, <2>10
    <3>2. \A c \in 1 .. n - 1 : Parent(c) = s.i => <<s.h[s.i], s.h[c]>> \in R
      BY <2>3, <2>6, <2>7, <3>1
    <3>3. QED
      BY <2>5, <2>10, <3>2 DEF IsSink
  <2>11. CASE largest # s.i
    <3>1. /\ largest \in 1 .. n - 1 /\ Parent(largest) = s.i
          /\ <<s.h[largest], s.h[s.i]>> \in R
          /\ l < n => <<s.h[largest], s.h[l]>> \in R
          /\ r < n => <<s.h[largest], s.h[r]>> \in R
      <4>1. CASE r < n /\ Ready!Beats(s.h[r], s.h[m], times)
        <5>1. largest = r
          BY <4>1
        <5>2. CASE m = l /\ l < n /\ Ready!Beats(s.h[l], s.h[s.i], times)
          <6>1. <<s.h[r], s.h[l]>> \in R /\ <<s.h[l], s.h[s.i]>> \in R
            BY <2>6, <2>7, <4>1, <5>2
          <6>2. QED
            BY <2>4, <2>6, <2>8, <2>9, <4>1, <5>1, <5>2, <6>1
        <5>3. CASE m = s.i /\ ~ (l < n /\ Ready!Beats(s.h[l], s.h[s.i], times))
          <6>1. <<s.h[r], s.h[s.i]>> \in R /\ (l < n => <<s.h[s.i], s.h[l]>> \in R)
            BY <2>6, <2>7, <4>1, <5>3
          <6>2. QED
            BY <2>4, <2>6, <2>8, <2>9, <4>1, <5>1, <6>1
        <5>4. QED
          BY <5>2, <5>3
      <4>2. CASE ~ (r < n /\ Ready!Beats(s.h[r], s.h[m], times))
        <5>1. largest = l /\ m = l /\ l < n /\ Ready!Beats(s.h[l], s.h[s.i], times)
          BY <2>11, <4>2
        <5>2. r < n => ~ Ready!Beats(s.h[r], s.h[l], times)
          BY <4>2, <5>1
        <5>3. QED
          BY <2>4, <2>6, <2>7, <2>9, <5>1, <5>2
      <4>3. QED
        BY <4>1, <4>2
    <3> HIDE DEF largest
    <3>2. \A c \in 1 .. n - 1 : Parent(c) = s.i => <<s.h[largest], s.h[c]>> \in R
      BY <2>3, <3>1
    <3>3. QED
      BY <2>5, <2>11, <3>1, <3>2 DEF IsSink
  <2>12. QED
    BY <2>10, <2>11
<1>4. S = DownStates(Ready!Slots, Descriptors \cup {NoDescriptor}, R, E, n)
  OBVIOUS
<1> HIDE DEF S, x
<1>5. Sinks(R, n, S, step)
  BY <1>3 DEF Sinks
<1>6. \A s \in S : step[s] = Ready!Sink(s, n, times)
  OBVIOUS
<1>7. Ready!Heapify(h, n, times) = after[n].h
  BY DEF Ready!Heapify
<1> HIDE DEF step
<1>8. PICK f : IsIteration(f, S, x, step) /\ IsHeap(Ready!Slots, Descriptors \cup {NoDescriptor}, R, E, n, f[n].h)
  <2>1. IsOrder(R, E)
    BY <1>1
  <2>2. QED
    BY <1>2, <1>5, <1>4, <2>1, DownLoop
<1>9. f \in [Nat -> S] /\ f[0] = x /\ \A k \in Nat : f[k + 1] = Ready!Sink(f[k], n, times)
  BY <1>6, <1>8 DEF IsIteration
<1>10. f = [k \in Nat |-> IF k = 0 THEN [h |-> h, i |-> 0] ELSE Ready!Sink(f[k - 1], n, times)]
  <2>1. \A k \in Nat : f[k] = IF k = 0 THEN [h |-> h, i |-> 0] ELSE Ready!Sink(f[k - 1], n, times)
    <3>1. SUFFICES ASSUME NEW k \in Nat, k # 0 PROVE f[k] = Ready!Sink(f[k - 1], n, times)
      BY <1>9 DEF x
    <3>2. k - 1 \in Nat /\ (k - 1) + 1 = k
      BY <3>1
    <3>3. QED
      BY <1>9, <3>2
  <2>2. QED
    BY <1>9, <2>1
<1>11. after = [k \in Nat |-> IF k = 0 THEN [h |-> h, i |-> 0] ELSE Ready!Sink(after[k - 1], n, times)]
  BY <1>10
<1> HIDE DEF after
<1>12. after[n] = f[n]
  <2> DEFINE T == {k \in Nat : after[k] = f[k]}
  <2>1. 0 \in T
    BY <1>9, <1>11 DEF x
  <2>2. ASSUME NEW k \in Nat, k \in T PROVE k + 1 \in T
    <3>1. k + 1 # 0 /\ k + 1 \in Nat /\ (k + 1) - 1 = k
      OBVIOUS
    <3>2. after[k + 1] = Ready!Sink(after[k], n, times)
      BY <1>11, <3>1
    <3>3. QED
      BY <1>9, <2>2, <3>2
  <2>3. Nat \subseteq T
    BY <2>1, <2>2, SetInduction
  <2>4. QED
    BY <2>3
<1>13. QED
  BY <1>1, <1>7, <1>8, <1>12


\* The inductive invariant of the ready queue: the same, and a queued task has the timestamp
\* that TIMER3 had when it was added.
ReadyInv ==
  /\ ready_queue \in [Ready!Slots -> Descriptors \cup {NoDescriptor}]
  /\ ready_count \in Nat /\ Ready!Entries \subseteq Descriptors
  /\ added_time \in [Descriptors -> Nat] /\ added_at \in [Descriptors -> Nat] /\ clock \in Nat
  /\ Holds(ready_queue, ready_count, Ready!Entries)
  /\ InOrder(ReadyOrder(added_time), ready_queue, ready_count)
  /\ \A t \in Ready!Entries : added_time[t] = TIMER3LOAD - (added_at[t] % (TIMER3LOAD + 1))

\* Between two reloads of TIMER3 the later of two counts has the larger remainder.
LEMMA Modulo ==
  ASSUME NEW a \in Nat, NEW b \in Nat, NEW m \in Nat, 0 < m
  PROVE  /\ a % m \in 0 .. m - 1
         /\ a \div m = b \div m /\ a < b => a % m < b % m
  OBVIOUS

\* add_to_ready_queue keeps the heap, although it changes a timestamp: that of a task which
\* is not in the queue.
LEMMA ReadyAddStep ==
  ASSUME HeapsAssumption, ReadyInv, NEW t \in Descriptors, Ready!Add(t)
  PROVE  ReadyInv' /\ Ready!Abstract!Add(t)
<1> DEFINE E == Ready!Entries
           g == [ready_queue EXCEPT ![ready_count] = t]
<1>1. /\ ready_queue \in [Ready!Slots -> Descriptors \cup {NoDescriptor}] /\ ready_count \in Nat
      /\ E \in SUBSET Descriptors /\ Holds(ready_queue, ready_count, E)
      /\ InOrder(ReadyOrder(added_time), ready_queue, ready_count)
      /\ added_time \in [Descriptors -> Nat] /\ added_at \in [Descriptors -> Nat] /\ clock \in Nat
      /\ \A u \in E : added_time[u] = TIMER3LOAD - (added_at[u] % (TIMER3LOAD + 1))
  BY DEF ReadyInv
<1>2. /\ t \notin E /\ ready_queue' = Ready!SiftUp(g, ready_count, added_time')
      /\ ready_count' = ready_count + 1
      /\ added_time' = [added_time EXCEPT ![t] = Ready!Timer3]
      /\ added_at' = [added_at EXCEPT ![t] = clock] /\ clock' = clock
  BY DEF Ready!Add
<1>3. ready_count \in Ready!Slots
  <2>1. IsFiniteSet(Descriptors)
    BY ReadyFiniteSets DEF HeapsAssumption, Ready!QueueAssumption
  <2>2. IsFiniteSet(E) /\ Cardinality(E) = ready_count
    BY <1>1, HoldsCardinality
  <2>3. Cardinality(E \cup {t}) = ready_count + 1
    BY <1>2, <2>2, FS_AddElement
  <2>4. Cardinality(E \cup {t}) <= Cardinality(Descriptors) /\ Cardinality(Descriptors) \in Nat
    BY <1>1, <2>1, FS_Subset, FS_CardinalityType
  <2>5. ready_count \in 0 .. Cardinality(Descriptors) - 1
    BY <1>1, <2>3, <2>4
  <2>6. QED
    BY <2>5, ReadyFiniteSets DEF Ready!Slots, Ready!Capacity
<1>4. /\ g \in [Ready!Slots -> Descriptors \cup {NoDescriptor}]
      /\ Puts(g, ready_queue, ready_count, t) /\ ready_count \in DOMAIN ready_queue
  BY <1>1, <1>3 DEF Puts
<1> HIDE DEF g
<1>5. Holds(g, ready_count + 1, E \cup {t}) /\ \A i \in 0 .. ready_count - 1 : g[i] = ready_queue[i]
  <2> HIDE DEF E
  <2>1. /\ ready_count \in Nat /\ Holds(ready_queue, ready_count, E) /\ t \notin E
        /\ Puts(g, ready_queue, ready_count, t) /\ ready_count \in DOMAIN ready_queue
    BY <1>1, <1>2, <1>4
  <2>2. QED
    BY <2>1, HoldsAdd
<1>6. /\ TIMER3LOAD \in Nat
      /\ Ready!Timer3 = TIMER3LOAD - (clock % (TIMER3LOAD + 1)) /\ Ready!Timer3 \in Nat
  <2>1. TIMER3LOAD \in Nat
    BY DEF HeapsAssumption, Ready!QueueAssumption
  <2>2. clock % (TIMER3LOAD + 1) \in 0 .. (TIMER3LOAD + 1) - 1
    BY <1>1, <2>1, Modulo
  <2>3. QED
    BY <2>1, <2>2 DEF Ready!Timer3
<1>7. /\ added_time' \in [Descriptors -> Nat] /\ added_at' \in [Descriptors -> Nat]
      /\ \A u \in E : added_time'[u] = added_time[u] /\ added_at'[u] = added_at[u]
      /\ added_time'[t] = TIMER3LOAD - (clock % (TIMER3LOAD + 1)) /\ added_at'[t] = clock
  BY <1>1, <1>2, <1>6
<1>8. InOrder(ReadyOrder(added_time'), ready_queue, ready_count)
  <2>1. ASSUME NEW j \in 1 .. ready_count - 1
        PROVE  <<ready_queue[Parent(j)], ready_queue[j]>> \in ReadyOrder(added_time')
    <3>1. Parent(j) \in 0 .. ready_count - 1 /\ j \in 0 .. ready_count - 1
      <4>1. j \in Nat /\ j # 0 /\ ready_count \in Nat /\ j < ready_count
        BY <1>1
      <4>2. Parent(j) \in 0 .. j - 1
        BY <4>1, ParentFacts
      <4>3. QED
        BY <4>1, <4>2
    <3>2. ready_queue[Parent(j)] \in E /\ ready_queue[j] \in E
      BY <1>1, <3>1 DEF Holds
    <3>3. <<ready_queue[Parent(j)], ready_queue[j]>> \in ReadyOrder(added_time)
      BY <1>1 DEF InOrder
    <3>4. ~ Ready!Beats(ready_queue[j], ready_queue[Parent(j)], added_time)
      BY <1>1, <3>2, <3>3, ReadyOrderFacts
    <3>5. ~ Ready!Beats(ready_queue[j], ready_queue[Parent(j)], added_time')
      BY <1>7, <3>2, <3>4 DEF Ready!Beats
    <3>6. QED
      BY <1>1, <1>7, <3>2, <3>5, ReadyOrderFacts
  <2>2. QED
    BY <2>1 DEF InOrder
<1>9. OrderAbove(ReadyOrder(added_time'), g, ready_count + 1, ready_count)
  BY <1>1, <1>5, <1>8, AddLast
<1>10. /\ ready_queue' \in [Ready!Slots -> Descriptors \cup {NoDescriptor}]
       /\ Holds(ready_queue', ready_count', E \cup {t})
       /\ InOrder(ReadyOrder(added_time'), ready_queue', ready_count')
  <2>1. E \cup {t} \in SUBSET Descriptors
    BY <1>1
  <2>2. QED
    BY <1>1, <1>2, <1>4, <1>5, <1>7, <1>9, <2>1, ReadySiftUp DEF IsHeap
<1>11. E' = E \cup {t}
  BY <1>10 DEF Holds, Ready!Entries
<1>12. ReadyOrder(added_time') = ReadyOrder(added_time)'
  BY DEF ReadyOrder, Ready!Beats
<1>13. \A u \in E \cup {t} : added_time'[u] = TIMER3LOAD - (added_at'[u] % (TIMER3LOAD + 1))
  BY <1>1, <1>7
<1>14. ReadyInv'
  <2>1. ready_count' \in Nat /\ clock' \in Nat /\ E \cup {t} \in SUBSET Descriptors
    BY <1>1, <1>2
  <2>2. QED
    BY <1>7, <1>10, <1>11, <1>12, <1>13, <2>1 DEF ReadyInv
<1>15. QED
  BY <1>2, <1>11, <1>14 DEF Ready!Abstract!Add

\* pop_ready_queue keeps the heap, and takes out a task that no other beats.
LEMMA ReadyPopStep ==
  ASSUME HeapsAssumption, ReadyInv, NEW t \in Descriptors, Ready!Pop(t)
  PROVE  /\ ReadyInv' /\ Ready!Abstract!Pop(t)
         /\ t \in Ready!Entries /\ Ready!Entries' = Ready!Entries \ {t}
         /\ \A u \in Ready!Entries : ~ Ready!Beats(u, t, added_time)
<1> DEFINE E == Ready!Entries
<1>1. /\ ready_queue \in [Ready!Slots -> Descriptors \cup {NoDescriptor}] /\ ready_count \in Nat
      /\ E \in SUBSET Descriptors /\ Holds(ready_queue, ready_count, E)
      /\ InOrder(ReadyOrder(added_time), ready_queue, ready_count)
      /\ added_time \in [Descriptors -> Nat] /\ added_at \in [Descriptors -> Nat] /\ clock \in Nat
      /\ \A u \in E : added_time[u] = TIMER3LOAD - (added_at[u] % (TIMER3LOAD + 1))
  BY DEF ReadyInv
<1>2. /\ ready_count > 0 /\ t = ready_queue[0] /\ ready_count' = ready_count - 1
      /\ UNCHANGED <<added_time, clock, added_at>>
  BY DEF Ready!Pop
<1>3. PICK n \in Nat : n + 1 = ready_count /\ n = ready_count - 1
  BY <1>1, <1>2
<1> DEFINE g == [ready_queue EXCEPT ![0] = ready_queue[n]]
<1>4. t \in E /\ \A u \in E : ~ Ready!Beats(u, t, added_time)
  <2>1. IsOrder(ReadyOrder(added_time), E) /\ ready_count # 0
    BY <1>1, <1>2, ReadyOrderFacts
  <2>2. t \in E /\ \A u \in E : <<t, u>> \in ReadyOrder(added_time)
    BY <1>1, <1>2, <2>1, RootIsFirst
  <2>3. QED
    BY <1>1, <2>2, ReadyOrderFacts
<1>5. /\ n # 0 => Holds(g, n, E \ {t}) /\ \A i \in 1 .. n - 1 : g[i] = ready_queue[i]
      /\ n = 0 => Holds(ready_queue, 0, E \ {t})
  <2>1. Holds(ready_queue, ready_count, E)
    BY <1>1
  <2>2. LastToFirst(g, ready_queue, n, ready_count)
    BY <1>1, <1>2, <1>3 DEF LastToFirst, Puts, Holds
  <2> HIDE DEF E, g
  <2>3. IF n = 0 THEN Holds(ready_queue, 0, E \ {ready_queue[0]}) ELSE Holds(g, n, E \ {ready_queue[0]})
    BY ONLY <2>1, <2>2, HoldsRemove
  <2>4. \A i \in 1 .. n - 1 : g[i] = ready_queue[i]
    BY <1>1, <1>3, <2>1, <2>2 DEF LastToFirst, Puts, Holds
  <2>5. QED
    BY <1>2, <2>3, <2>4
<1>6. /\ ready_queue' \in [Ready!Slots -> Descriptors \cup {NoDescriptor}]
      /\ Holds(ready_queue', n, E \ {t}) /\ InOrder(ReadyOrder(added_time), ready_queue', n)
  <2>1. CASE n = 0
    <3>1. ready_queue' = ready_queue
      BY <1>3, <2>1 DEF Ready!Pop
    <3>2. QED
      BY <1>1, <1>5, <2>1, <3>1 DEF InOrder
  <2>2. CASE n # 0
    <3>1. ready_queue' = Ready!Heapify(g, n, added_time)
      BY <1>3, <2>2 DEF Ready!Pop
    <3>2. g \in [Ready!Slots -> Descriptors \cup {NoDescriptor}]
      <4>1. ready_queue[n] \in Descriptors
        BY <1>1, <1>3 DEF Holds
      <4>2. QED
        BY <1>1, <4>1
    <3> HIDE DEF g
    <3>3. OrderBelow(ReadyOrder(added_time), g, n, 0)
      BY <1>1, <1>3, <1>5, <2>2, ReplaceFirst
    <3>4. E \ {t} \in SUBSET Descriptors
      BY <1>1
    <3>5. QED
      BY <1>1, <1>3, <1>5, <2>2, <3>1, <3>2, <3>3, <3>4, ReadyHeapify DEF IsHeap
  <2>3. QED
    BY <2>1, <2>2
<1>7. E' = E \ {t}
  BY <1>2, <1>3, <1>6 DEF Holds, Ready!Entries
<1>8. ReadyOrder(added_time) = ReadyOrder(added_time)'
  BY <1>2 DEF ReadyOrder, Ready!Beats
<1>9. ReadyInv'
  BY <1>1, <1>2, <1>3, <1>6, <1>7, <1>8 DEF ReadyInv
<1>10. \A u \in E : Priority[u] <= Priority[t]
  <2>1. \A u \in Descriptors : Priority[u] \in Int
    BY DEF HeapsAssumption, Ready!QueueAssumption
  <2>2. QED
    BY <1>1, <1>4, <2>1 DEF Ready!Beats
<1>11. Ready!Abstract!Pop(t)
  BY <1>4, <1>7, <1>10 DEF Ready!Abstract!Pop
<1>12. QED
  BY <1>4, <1>7, <1>9, <1>11

\* Only the queue and the timestamps matter to the invariant.
LEMMA ReadyInvUnchanged ==
  ASSUME ReadyInv, UNCHANGED <<ready_queue, ready_count, added_time, added_at>>, clock' \in Nat
  PROVE  ReadyInv' /\ Ready!Entries' = Ready!Entries
<1>1. Ready!Entries' = Ready!Entries
  BY DEF Ready!Entries
<1>2. ReadyOrder(added_time)' = ReadyOrder(added_time)
  BY DEF ReadyOrder, Ready!Beats
<1>3. QED
  BY <1>1, <1>2 DEF ReadyInv

-----------------------------------------------------------------------------
\* Both invariants.
HeapsInv == ReadyInv /\ HeapInv

\* Both heaps start empty.
LEMMA HeapsInitInv == ASSUME HeapsAssumption, HeapsInit PROVE HeapsInv /\ Ready!Entries = {} /\ Heap!Entries = {}
<1>1. /\ ready_count = 0 /\ ready_queue \in [Ready!Slots -> Descriptors \cup {NoDescriptor}]
      /\ added_time \in [Descriptors -> Nat] /\ added_at \in [Descriptors -> Nat] /\ clock = 0
  BY DEF HeapsInit, Ready!Init
<1>2. len = 0 /\ items \in [Heap!Slots -> TrainTasks \cup {NoTrainTask}]
  BY DEF HeapsInit, Heap!Init
<1>3. Ready!Entries = {} /\ Heap!Entries = {}
  BY <1>1, <1>2 DEF Ready!Entries, Heap!Entries
<1>4. DOMAIN ready_queue \in SUBSET Int /\ DOMAIN items \in SUBSET Int
  BY <1>1, <1>2 DEF Ready!Slots, Heap!Slots
<1>5. Holds(ready_queue, 0, {}) /\ Holds(items, 0, {})
  BY <1>4 DEF Holds
<1>6. ReadyInv
  BY <1>1, <1>3, <1>5 DEF ReadyInv, InOrder
<1>7. HeapInv
  BY <1>2, <1>3, <1>5 DEF HeapInv, InOrder
<1>8. QED
  BY <1>3, <1>6, <1>7 DEF HeapsInv

\* A step of the kernel leaves the train server's heap alone.
LEMMA HeapInvUnchanged ==
  ASSUME HeapInv, UNCHANGED heapVars PROVE HeapInv' /\ Heap!Entries' = Heap!Entries
BY DEF HeapInv, heapVars, Heap!Entries

\* A step of the ready queue keeps its invariant and is one of the priority queue, or none.
LEMMA ReadyNextStep ==
  ASSUME HeapsAssumption, ReadyInv, [Ready!Next]_readyVars
  PROVE  ReadyInv' /\ [Ready!Abstract!Next]_(Ready!Entries)
<1>1. ASSUME NEW t \in Descriptors, Ready!Add(t) PROVE ReadyInv' /\ Ready!Abstract!Next
  BY <1>1, ReadyAddStep DEF Ready!Abstract!Next
<1>2. ASSUME NEW t \in Descriptors, Ready!Pop(t) PROVE ReadyInv' /\ Ready!Abstract!Next
  BY <1>2, ReadyPopStep DEF Ready!Abstract!Next
<1>3. CASE Ready!Count
  BY <1>3, ReadyInvUnchanged DEF Ready!Count, ReadyInv
<1>4. CASE UNCHANGED readyVars
  BY <1>4, ReadyInvUnchanged DEF readyVars, ReadyInv
<1>5. QED
  BY <1>1, <1>2, <1>3, <1>4 DEF Ready!Next

\* So does one of the train server's heap.
LEMMA HeapNextStep ==
  ASSUME HeapsAssumption, HeapInv, [Heap!Next]_heapVars
  PROVE  HeapInv' /\ [Heap!Abstract!Next]_(Heap!Entries)
<1>1. ASSUME NEW x \in TrainTasks, Heap!Add(x) PROVE HeapInv' /\ Heap!Abstract!Next
  BY <1>1, HeapAddStep DEF Heap!Abstract!Next
<1>2. ASSUME NEW x \in TrainTasks, Heap!Pop(x) PROVE HeapInv' /\ Heap!Abstract!Next
  BY <1>2, HeapPopStep DEF Heap!Abstract!Next
<1>3. CASE UNCHANGED heapVars
  BY <1>3, HeapInvUnchanged
<1>4. QED
  BY <1>1, <1>2, <1>3 DEF Heap!Next

\* The two together.
LEMMA HeapsStep ==
  ASSUME HeapsAssumption, HeapsInv, [HeapsNext]_heaps
  PROVE  /\ HeapsInv'
         /\ [Ready!Abstract!Next]_(Ready!Entries) /\ [Heap!Abstract!Next]_(Heap!Entries)
<1>1. [Ready!Next]_readyVars /\ [Heap!Next]_heapVars
  BY DEF HeapsNext, heaps
<1>2. QED
  BY <1>1, ReadyNextStep, HeapNextStep DEF HeapsInv

\* For every number of tasks and of commands, all priorities and all times below LARGE: the
\* heap of task.c gives the kernel a task of the highest priority and the one of heap.c the
\* train server a command of the earliest time, whatever is added and popped in between.
THEOREM HeapsImplementPriorityQueues ==
  ASSUME HeapsAssumption PROVE HeapsSpec => HeapsImplement
<1>1. HeapsInit => HeapsInv /\ Ready!Abstract!Init /\ Heap!Abstract!Init
  BY HeapsInitInv DEF Ready!Abstract!Init, Heap!Abstract!Init
<1>2. HeapsInv /\ [HeapsNext]_heaps
        => HeapsInv' /\ [Ready!Abstract!Next]_(Ready!Entries) /\ [Heap!Abstract!Next]_(Heap!Entries)
  BY HeapsStep
<1>3. QED
  BY <1>1, <1>2, PTL DEF HeapsSpec, HeapsImplement, Ready!ImplementsPriorityQueue,
     Heap!ImplementsPriorityQueue, Ready!Abstract!Spec, Heap!Abstract!Spec

\* One step of the ready queue keeps the order of the tasks of one priority.
KeepsOrder ==
  \A t, u \in Descriptors :
    Ready!Popped(t) /\ u \in Ready!Entries /\ Priority[t] = Priority[u] /\ added_at[u] < added_at[t]
      => Ready!Reloaded(t, u)

\* No step of the ready queue lets a task pass one of its priority that came earlier in the
\* period of TIMER3.
LEMMA FifoStep ==
  ASSUME HeapsAssumption, HeapsInv, [HeapsNext]_heaps
  PROVE  [KeepsOrder]_(Ready!vars)
<1>1. ReadyInv
  BY DEF HeapsInv
<1>2. CASE UNCHANGED readyVars
  BY <1>2 DEF readyVars, Ready!vars
<1>3. CASE Ready!Count
  <2>1. Ready!Entries' = Ready!Entries
    BY <1>3 DEF Ready!Count, Ready!Entries
  <2>2. QED
    BY <2>1 DEF KeepsOrder, Ready!Popped
<1>4. ASSUME NEW x \in Descriptors, Ready!Add(x) PROVE KeepsOrder
  <2>1. Ready!Entries' = Ready!Entries \cup {x}
    BY <1>1, <1>4, ReadyAddStep DEF Ready!Abstract!Add
  <2>2. QED
    BY <2>1 DEF KeepsOrder, Ready!Popped
<1>5. ASSUME NEW x \in Descriptors, Ready!Pop(x) PROVE KeepsOrder
  <2>1. SUFFICES ASSUME NEW t \in Descriptors, NEW u \in Descriptors,
                        Ready!Popped(t), u \in Ready!Entries, Priority[t] = Priority[u],
                        added_at[u] < added_at[t], ~ Ready!Reloaded(t, u)
                 PROVE  FALSE
    BY DEF KeepsOrder
  <2>2. /\ t = x /\ t \in Ready!Entries /\ ~ Ready!Beats(u, t, added_time)
    BY <1>1, <1>5, <2>1, ReadyPopStep DEF Ready!Popped
  <2>3. ~ (added_time[u] > added_time[t])
    BY <2>1, <2>2 DEF Ready!Beats
  <2>4. /\ added_time[t] = TIMER3LOAD - (added_at[t] % (TIMER3LOAD + 1))
        /\ added_time[u] = TIMER3LOAD - (added_at[u] % (TIMER3LOAD + 1))
        /\ added_at[t] \in Nat /\ added_at[u] \in Nat /\ TIMER3LOAD \in Nat
    BY <1>1, <2>1, <2>2 DEF ReadyInv, HeapsAssumption, Ready!QueueAssumption
  <2>5. added_at[u] \div (TIMER3LOAD + 1) = added_at[t] \div (TIMER3LOAD + 1)
    BY <2>1 DEF Ready!Reloaded
  <2>6. /\ added_at[u] % (TIMER3LOAD + 1) < added_at[t] % (TIMER3LOAD + 1)
        /\ added_at[u] % (TIMER3LOAD + 1) \in Nat /\ added_at[t] % (TIMER3LOAD + 1) \in Nat
    <3>1. TIMER3LOAD + 1 \in Nat /\ 0 < TIMER3LOAD + 1
      BY <2>4
    <3>2. QED
      BY <2>1, <2>4, <2>5, <3>1, Modulo
  <2>7. QED
    BY <2>3, <2>4, <2>6
<1>6. QED
  BY <1>2, <1>3, <1>4, <1>5 DEF HeapsNext, heaps, Ready!Next

\* For every load value of TIMER3: tasks of one priority leave the ready queue in the order in
\* which they were added, unless they were added within one count of TIMER3 or on the two
\* sides of a reload of it.
THEOREM ReadyQueueIsFifo == ASSUME HeapsAssumption PROVE HeapsSpec => ReadyQueueFifo
<1>1. HeapsInit => HeapsInv
  BY HeapsInitInv
<1>2. HeapsInv /\ [HeapsNext]_heaps => HeapsInv' /\ [KeepsOrder]_(Ready!vars)
  BY HeapsStep, FifoStep
<1>3. QED
  BY <1>1, <1>2, PTL DEF HeapsSpec, ReadyQueueFifo, Ready!FifoWithinPeriod, KeepsOrder
=============================================================================
