----------------------------- MODULE Uart1Proofs -----------------------------
(***************************************************************************)
(* Proofs of the train line's server, for all sets of tasks with programs  *)
(* of any length and answers of any length, and of the serial lines        *)
(* together.                                                               *)
(***************************************************************************)
EXTENDS Uart2Proofs

LineMessages == [from : Clients \cup {Line!Tx, Line!Rx},
             type : {"NOTIFIER_TX_GOOD", "NOTIFIER_RX_GOOD", "SEND_CHAR", "GET_CHAR",
                     "RELEASE_LOCK"},
             data : Line!Sent \cup 0 .. Bytes]

\* Queues of tasks, in which each is once.
Elements(q) == {q[i] : i \in 1 .. Len(q)}

Distinct(q) == \A i, j \in 1 .. Len(q) : i # j => q[i] # q[j]

\* A task's message is what its next call sends, and its sender waits.
MessageOK(m) ==
  /\ m.from \in Clients => line_client[m.from] = "sent" /\ m = Line!Request(m.from)
  /\ m.from = Line!Tx => m.type = "NOTIFIER_TX_GOOD" /\ line_notifier[Line!Tx] = "sent"
  /\ m.from = Line!Rx => m.type = "NOTIFIER_RX_GOOD" /\ line_notifier[Line!Rx] = "sent" /\ m.data \in 0 .. Bytes

\* The messages in want_send: one at most of each task.
LineMailboxOK ==
  /\ \A i \in 1 .. Len(line_mailbox) : MessageOK(line_mailbox[i])
  /\ \A i, j \in 1 .. Len(line_mailbox) : line_mailbox[i].from = line_mailbox[j].from => i = j

\* The byte before has left, and the controller is ready for the next.
Clear == thr = Line!NoByte /\ cts /\ controller[1] = "clear"

\* From the reply that lets the transmit notifier go until the rise of CTS has been seen the
\* server does not send; whatever is behind that instant finds the line clear.
LineOK ==
  /\ thr # Line!NoByte => controller[1] = "clear"
  /\ controller[1] = "busy" <=> ~cts
  /\ line_notifier[Line!Tx] \in {"woken", "sent", "held"} => Clear
  /\ line_notifier[Line!Tx] = "awaiting" => ("CTS" \in uart1_tx_flag \/ (dcts /\ cts) => Clear)
  /\ can_send => \/ line_notifier[Line!Tx] = "held"
                 \/ line_notifier[Line!Tx] = "sent" /\ line_mailbox # <<>> /\ line_mailbox[1].from = Line!Tx
  /\ ~can_send => line_notifier[Line!Tx] # "held"

\* What the kernel has seen it does not wait for, and it never waits with all seen.
FlagsOK ==
  /\ uart1_tx_flag # {"TX", "CTS"}
  /\ "TX" \in uart1_tx_flag => "UART1TXINTR" \notin intr
  /\ "CTS" \in uart1_tx_flag => "UART1CTSINTR" \notin intr

\* The owner waits for a byte of an answer.
Reading == line_owned_by \in Clients /\ line_client[line_owned_by] = "received" /\ Line!Step(line_owned_by) = "get"

\* The receive notifier's first message, which comes before any request.
First ==
  /\ line_owned_by = NoOwner
  /\ \E i \in {1, 2} : /\ i <= Len(line_mailbox) /\ line_mailbox[i].from = Line!Rx
                       /\ i = 2 => line_mailbox[1].from = Line!Tx

\* The receive notifier is under way only while the owner waits for a byte, and what is
\* buffered is the byte that the task sends next.
WaitingOK ==
  /\ line_notifier[Line!Rx] \in {"released", "awaiting", "woken"} => Reading
  /\ line_notifier[Line!Rx] = "sent" => Reading \/ First
  /\ want_send => line_owned_by \in Clients
  /\ \A c \in Clients : line_client[c] = "received" /\ Line!Step(c) \in {"put", "ask"} =>
       send_buffer[c] = Line!Data(c)

\* The two halves of LocksConsistent: the lock, and the interrupts.
LockOK ==
  /\ Distinct(line_lock_cb)
  /\ Elements(line_lock_cb) = {c \in Clients : line_client[c] = "received" /\ line_owned_by # c}
  /\ line_owned_by = NoOwner => line_lock_cb = <<>>
  /\ \A c \in Clients : Line!Step(c) \in {"get", "release"} => line_owned_by = c
  /\ want_send => ~can_send /\ line_client[line_owned_by] = "received" /\ Line!Step(line_owned_by) \in {"put", "ask"}

IntrOK ==
  /\ {"UART1TXINTR", "UART1CTSINTR"} \cap intr # {} => line_notifier[Line!Tx] = "awaiting"
  /\ "UART1RXINTR" \in intr => line_notifier[Line!Rx] = "awaiting"

LineInv == Line!TypeOK /\ LockOK /\ IntrOK /\ LineMailboxOK /\ LineOK /\ FlagsOK /\ WaitingOK

-----------------------------------------------------------------------------
\* At its step i, c reads byte k of the answer.
At(c, i, k) == k < i /\ Program[c][i - k] = "ask"

Asked == thr = Line!Ask \/ controller[2] = Line!Ask

\* Nothing of an answer is on its way.
Quiet == ~Asked /\ toSend = 0 /\ rdr = Line!NoByte

\* Byte k of the answer is the next to be read: the question is under way, or the byte is
\* still to come, or in the register, or with the receive notifier.
Expecting(k) ==
  \/ /\ Asked /\ k = 1 /\ toSend = 0 /\ rdr = Line!NoByte /\ line_notifier[Line!Rx] \notin {"sent", "woken"}
  \/ /\ ~Asked
     /\ line_notifier[Line!Rx] = "woken" => rdr # Line!NoByte
     /\ \A i \in 1 .. Len(line_mailbox) : line_mailbox[i].from = Line!Rx => line_mailbox[i].data = k
     /\ LET first == IF line_notifier[Line!Rx] = "sent" THEN k + 1 ELSE k
        IN  \/ rdr = Line!NoByte /\ Bytes - toSend = first - 1
            \/ rdr = first /\ Bytes - toSend = first

AnswerOK ==
  /\ controller[1] = "clear" => controller[2] = Line!NoByte
  /\ \A c \in Clients, k \in 1 .. Bytes :
       line_owned_by = c /\ Line!Step(c) = "get" /\ At(c, pc[c], k) => Expecting(k)
  /\ (line_owned_by \in Clients => Line!Step(line_owned_by) # "get") => Quiet
-----------------------------------------------------------------------------
(* Queues *)

LEMMA QueueAppend ==
  ASSUME NEW S, NEW q \in Seq(S), Distinct(q), NEW c \in S, c \notin Elements(q)
  PROVE  /\ Append(q, c) \in Seq(S) /\ Len(Append(q, c)) = Len(q) + 1
         /\ Distinct(Append(q, c)) /\ Elements(Append(q, c)) = Elements(q) \cup {c}
<1> DEFINE n == Len(q)
           r == Append(q, c)
<1>1. /\ n \in Nat /\ r \in Seq(S) /\ Len(r) = n + 1 /\ r[n + 1] = c
      /\ \A i \in 1 .. n : r[i] = q[i]
  OBVIOUS
<1>2. \A i \in 1 .. n + 1 : i \in 1 .. n \/ i = n + 1
  BY <1>1
<1>3. \A i \in 1 .. n : q[i] # c
  BY DEF Elements
<1> HIDE DEF r
<1>4. Distinct(r)
  BY <1>1, <1>2, <1>3 DEF Distinct
<1>5. Elements(r) = Elements(q) \cup {c}
  <2>1. ASSUME NEW i \in 1 .. n + 1 PROVE r[i] \in Elements(q) \cup {c}
    BY <1>1, <1>2 DEF Elements
  <2>2. ASSUME NEW i \in 1 .. n PROVE q[i] \in Elements(r)
    <3>1. i \in 1 .. Len(r) /\ r[i] = q[i]
      BY <1>1
    <3>2. QED
      BY <3>1 DEF Elements
  <2>3. c \in Elements(r)
    <3>1. n + 1 \in 1 .. Len(r)
      BY <1>1
    <3>2. QED
      BY <1>1, <3>1 DEF Elements
  <2>4. QED
    BY <1>1, <2>1, <2>2, <2>3 DEF Elements
<1>6. QED
  BY <1>1, <1>4, <1>5 DEF r

LEMMA QueueTail ==
  ASSUME NEW S, NEW q \in Seq(S), Distinct(q), q # <<>>
  PROVE  /\ Tail(q) \in Seq(S) /\ Len(Tail(q)) = Len(q) - 1 /\ Head(q) \in Elements(q)
         /\ Head(q) \in S /\ Distinct(Tail(q)) /\ Elements(Tail(q)) = Elements(q) \ {Head(q)}
<1> DEFINE n == Len(q)
           r == Tail(q)
<1>1. /\ n \in Nat /\ n >= 1 /\ r \in Seq(S) /\ Len(r) = n - 1 /\ Head(q) = q[1] /\ q[1] \in S
      /\ \A i \in 1 .. n - 1 : r[i] = q[i + 1] /\ i + 1 \in 1 .. n /\ i + 1 # 1
      /\ 1 \in 1 .. n
  OBVIOUS
<1> HIDE DEF r
<1>2. Distinct(r)
  <2>1. ASSUME NEW i \in 1 .. n - 1, NEW j \in 1 .. n - 1, i # j PROVE r[i] # r[j]
    <3>1. i + 1 # j + 1
      BY <1>1, <2>1
    <3>2. QED
      BY <1>1, <3>1 DEF Distinct
  <2>2. QED
    BY <1>1, <2>1 DEF Distinct
<1>3. Elements(r) = Elements(q) \ {q[1]}
  <2>1. ASSUME NEW i \in 1 .. n - 1 PROVE r[i] \in Elements(q) \ {q[1]}
    BY <1>1 DEF Elements, Distinct
  <2>2. ASSUME NEW i \in 1 .. n, q[i] # q[1] PROVE q[i] \in Elements(r)
    <3>1. i - 1 \in 1 .. n - 1 /\ (i - 1) + 1 = i
      BY <1>1, <2>2
    <3>2. r[i - 1] = q[i]
      BY <1>1, <3>1
    <3>3. QED
      BY <1>1, <3>1, <3>2 DEF Elements
  <2>3. QED
    BY <1>1, <2>1, <2>2 DEF Elements
<1>4. Head(q) \in Elements(q)
  BY <1>1 DEF Elements
<1>5. QED
  BY <1>1, <1>2, <1>3, <1>4 DEF r

LEMMA QueueLength ==
  ASSUME NEW S, IsFiniteSet(S), NEW q \in Seq(S), Distinct(q)
  PROVE  Len(q) <= Cardinality(S)
<1> DEFINE n == Len(q)
           f == [i \in 1 .. n |-> q[i]]
<1>1. n \in Nat
  OBVIOUS
<1>2. f \in Injection(1 .. n, S)
  <2>1. f \in [1 .. n -> S]
    OBVIOUS
  <2>2. \A i, j \in 1 .. n : f[i] = f[j] => i = j
    BY DEF Distinct
  <2>3. QED
    BY <2>1, <2>2 DEF Injection, IsInjective
<1>3. \A k \in Nat : IsFiniteSet(1 .. k) /\ Cardinality(1 .. k) = k
  <2>1. TAKE k \in Nat
  <2>2. IsFiniteSet(1 .. k)
    BY FS_Interval
  <2>3. Cardinality(1 .. k) = IF 1 > k THEN 0 ELSE k - 1 + 1
    BY FS_Interval
  <2>4. QED
    BY <2>2, <2>3
<1>4. IsFiniteSet(1 .. n) /\ Cardinality(1 .. n) = n
  BY <1>1, <1>3
<1> DEFINE I == 1 .. n
<1> HIDE DEF f, n
<1>5. IsFiniteSet(I) /\ Cardinality(I) = n /\ f \in Injection(I, S)
  BY <1>2, <1>4
<1> HIDE DEF I
<1>6. Cardinality(I) <= Cardinality(S)
  BY <1>5, FS_Injection
<1>7. QED
  BY <1>5, <1>6 DEF n
-----------------------------------------------------------------------------
(* The programs of the tasks *)

LEMMA ProgramFacts ==
  ASSUME Line!Uart1Assumption, NEW c \in Clients
  PROVE  /\ Program[c] \in Seq({"put", "ask", "get", "release"})
         /\ Len(Program[c]) \in Nat /\ 1 \in 1 .. Len(Program[c])
         /\ Program[c][1] \in {"put", "ask"}
         /\ \A i \in 1 .. Len(Program[c]) :
              /\ Program[c][i] \in {"put", "ask", "get", "release"}
              /\ Program[c][i] = "release" => i = Len(Program[c])
              /\ Program[c][i] = "ask" => i + Bytes <= Len(Program[c])
              /\ Program[c][i] = "ask" => \A k \in 1 .. Bytes : Program[c][i + k] = "get"
              /\ Program[c][i] = "get" => \E k \in 1 .. Bytes : At(c, i, k)
         /\ Bytes \in Nat /\ Bytes >= 1
<1> DEFINE p == Program[c]
<1>1. p \in Seq({"put", "ask", "get", "release"}) /\ Line!ProgramFits(p) /\ Bytes \in Nat /\ Bytes >= 1
  BY DEF Line!Uart1Assumption
<1>2. Len(p) \in Nat /\ 1 \in 1 .. Len(p)
  BY <1>1 DEF Line!ProgramFits
<1>3. \A i \in 1 .. Len(p) : p[i] \in {"put", "ask", "get", "release"}
  BY <1>1
<1>4. QED
  BY <1>1, <1>2, <1>3 DEF Line!ProgramFits, At

\* The step after i.
After(c, i) == IF i = Len(Program[c]) THEN 1 ELSE i + 1

\* The steps after a question read the answer.
LEMMA AskedFacts ==
  ASSUME Line!Uart1Assumption, NEW c \in Clients, NEW i \in 1 .. Len(Program[c]),
         Program[c][i] = "ask", NEW j \in Nat, i < j, j <= i + Bytes
  PROVE  j \in 1 .. Len(Program[c]) /\ Program[c][j] = "get"
<1>1. j - i \in 1 .. Bytes /\ i + (j - i) = j /\ i + Bytes <= Len(Program[c])
  BY ProgramFacts
<1>2. Program[c][i + (j - i)] = "get"
  BY <1>1, ProgramFacts
<1>3. QED
  BY <1>1, <1>2, ProgramFacts

\* Two questions that are answered at one step are the same.
LEMMA PlaceFacts ==
  ASSUME Line!Uart1Assumption, NEW c \in Clients, NEW i \in 1 .. Len(Program[c]),
         NEW j \in 1 .. Len(Program[c]), Program[c][i] = "ask", Program[c][j] = "ask",
         NEW n \in Nat, i < n, j < n, n <= i + Bytes, n <= j + Bytes
  PROVE  i = j
<1>1. i \in Nat /\ j \in Nat /\ Bytes \in Nat
  BY ProgramFacts
<1>2. CASE i < j
  <2>1. j <= i + Bytes
    BY <1>1, <1>2
  <2>2. Program[c][j] = "get"
    BY <1>1, <1>2, <2>1, AskedFacts
  <2>3. QED
    BY <2>2
<1>3. CASE j < i
  <2>1. i <= j + Bytes
    BY <1>1, <1>3
  <2>2. Program[c][i] = "get"
    BY <1>1, <1>3, <2>1, AskedFacts
  <2>3. QED
    BY <2>2
<1>4. QED
  BY <1>1, <1>2, <1>3

\* What comes after a step: no byte is read after a "put", the first after an "ask", and the
\* next after a "get", if there is one.
LEMMA AfterFacts ==
  ASSUME Line!Uart1Assumption, NEW c \in Clients, NEW i \in 1 .. Len(Program[c])
  PROVE  LET n == After(c, i)
         IN  /\ n \in 1 .. Len(Program[c])
             /\ Program[c][n] \in {"get", "release"} => Program[c][i] # "release"
             /\ Program[c][i] = "put" => Program[c][n] # "get"
             /\ Program[c][i] = "release" => Program[c][n] # "get"
             /\ Program[c][i] = "ask" => Program[c][n] = "get" /\ \A k \in 1 .. Bytes : At(c, n, k) => k = 1
             /\ Program[c][i] = "get" => \A k \in 1 .. Bytes : At(c, i, k) =>
                  /\ Program[c][n] = "get" <=> k < Bytes
                  /\ Program[c][n] = "get" => \A l \in 1 .. Bytes : At(c, n, l) => l = k + 1
                  /\ n # i
<1> DEFINE p == Program[c]
           n == After(c, i)
<1>1. n \in 1 .. Len(p) /\ (n = 1 \/ n = i + 1) /\ (i = Len(p) <=> n # i + 1)
  BY ProgramFacts DEF After
<1>2. p[n] \in {"get", "release"} => n = i + 1 /\ i # Len(p)
  BY <1>1, ProgramFacts
<1>3. p[n] \in {"get", "release"} => p[i] # "release"
  BY <1>2, ProgramFacts
<1>4. ASSUME p[n] = "get", p[i] # "get" PROVE p[i] = "ask" /\ \A k \in 1 .. Bytes : At(c, n, k) => k = 1
  <2>1. ASSUME NEW k \in 1 .. Bytes, At(c, n, k) PROVE k = 1
    <3>1. n - k \in 1 .. Len(p) /\ p[n - k] = "ask" /\ n = i + 1
      BY <1>1, <1>2, <1>4, <2>1 DEF At
    <3>2. CASE k # 1
      <4>1. PICK a \in 1 .. Len(p) : a = n - k /\ p[a] = "ask"
        BY <3>1
      <4>2. a < i /\ i <= a + Bytes /\ i \in Nat
        BY <2>1, <3>1, <3>2, <4>1, ProgramFacts
      <4>3. p[i] = "get"
        BY <4>1, <4>2, AskedFacts
      <4>4. QED
        BY <1>4, <4>3
    <3>3. QED
      BY <3>2
  <2>2. PICK k \in 1 .. Bytes : At(c, n, k)
    BY <1>1, <1>4, ProgramFacts
  <2>3. p[i] = "ask"
    BY <1>2, <1>4, <2>1, <2>2 DEF At
  <2>4. QED
    BY <2>1, <2>3
<1>5. p[i] = "ask" => p[n] = "get"
  <2>1. ASSUME p[i] = "ask" PROVE p[n] = "get"
    <3>1. i + Bytes <= Len(p) /\ 1 \in 1 .. Bytes
      BY <2>1, ProgramFacts
    <3>2. n = i + 1
      BY <1>1, <3>1, ProgramFacts
    <3>3. QED
      BY <2>1, <3>1, <3>2, ProgramFacts
  <2>2. QED
    BY <2>1
<1>6. ASSUME p[i] = "get", NEW k \in 1 .. Bytes, At(c, i, k)
      PROVE  /\ p[n] = "get" <=> k < Bytes
             /\ p[n] = "get" => \A l \in 1 .. Bytes : At(c, n, l) => l = k + 1
             /\ n # i
  <2>1. /\ i - k \in 1 .. Len(p) /\ p[i - k] = "ask" /\ (i - k) + Bytes <= Len(p)
        /\ Bytes \in Nat
    BY <1>6, ProgramFacts DEF At
  <2>2. k < Bytes => p[n] = "get"
    <3>1. ASSUME k < Bytes PROVE p[n] = "get"
      <4>1. PICK a \in 1 .. Len(p) : a = i - k /\ p[a] = "ask" /\ a + Bytes <= Len(p)
        BY <2>1
      <4>2. a < i + 1 /\ i + 1 <= a + Bytes /\ i + 1 \in Nat
        BY <1>6, <2>1, <3>1, <4>1
      <4>3. i + 1 \in 1 .. Len(p) /\ p[i + 1] = "get"
        BY <4>1, <4>2, AskedFacts
      <4>4. QED
        BY <1>1, <4>3
    <3>2. QED
      BY <3>1
  <2>3. ASSUME p[n] = "get", NEW l \in 1 .. Bytes, At(c, n, l) PROVE l = k + 1 /\ k < Bytes
    <3>1. n = i + 1 /\ n - l \in 1 .. Len(p) /\ p[n - l] = "ask"
      BY <1>1, <1>2, <2>3 DEF At
    <3>2. n - l # i
      BY <1>6, <3>1
    <3>3. n - l < i /\ i <= (n - l) + Bytes /\ i <= (i - k) + Bytes /\ i - k < i /\ i \in Nat
      BY <1>6, <2>1, <2>3, <3>1, <3>2
    <3>4. n - l = i - k
      BY <2>1, <3>1, <3>3, PlaceFacts
    <3>5. QED
      BY <2>1, <2>3, <3>1, <3>4
  <2>4. p[n] = "get" => \E l \in 1 .. Bytes : At(c, n, l)
    BY <1>1, ProgramFacts
  <2>5. n # i
    BY <1>1, <1>6, ProgramFacts
  <2>6. QED
    BY <2>2, <2>3, <2>4, <2>5
<1>7. QED
  BY <1>1, <1>3, <1>4, <1>5, <1>6

\* The question a byte answers is the last before it.
LEMMA LastAsk ==
  ASSUME Line!Uart1Assumption, NEW c \in Clients, NEW i \in 1 .. Len(Program[c]),
         Program[c][i] = "get", NEW k \in 1 .. Bytes, At(c, i, k)
  PROVE  LET asks == {j \in 1 .. i : Program[c][j] = "ask"}
         IN  i - (CHOOSE j \in asks : \A l \in asks : l <= j) = k
<1> DEFINE asks == {j \in 1 .. i : Program[c][j] = "ask"}
           a == i - k
<1>1. a \in asks /\ a \in 1 .. Len(Program[c]) /\ Len(Program[c]) \in Nat /\ Bytes \in Nat
  BY ProgramFacts DEF At
<1>2. ASSUME NEW l \in asks PROVE l <= a
  <2>1. l \in 1 .. Len(Program[c]) /\ Program[c][l] = "ask" /\ l # i
    BY <1>1
  <2>2. CASE l > a
    <3>1. l < i /\ a < i /\ i <= l + Bytes /\ i <= a + Bytes /\ i \in Nat
      BY <1>1, <2>1, <2>2
    <3>2. l = a
      BY <1>1, <2>1, <3>1, PlaceFacts
    <3>3. QED
      BY <2>2, <3>2
  <2>3. QED
    BY <1>1, <2>1, <2>2
<1>3. \A j \in asks : (\A l \in asks : l <= j) => j = a
  BY <1>1, <1>2
<1> HIDE DEF asks, a
<1>4. (CHOOSE j \in asks : \A l \in asks : l <= j) = a
  BY <1>1, <1>2, <1>3
<1>5. i - a = k
  BY <1>1 DEF a
<1>6. i - (CHOOSE j \in asks : \A l \in asks : l <= j) = k
  BY <1>4, <1>5
<1>7. QED
  BY <1>6 DEF asks
-----------------------------------------------------------------------------
LEMMA LineTypeFacts ==
  ASSUME Line!Uart1Assumption, LineInv
  PROVE  /\ line_owned_by \in Clients \cup {NoOwner} /\ NoOwner \notin Clients
         /\ Line!Tx \notin Clients /\ Line!Rx \notin Clients /\ Line!Tx # Line!Rx
         /\ line_lock_cb \in Seq(Clients) /\ Len(line_lock_cb) \in Nat
         /\ send_buffer \in [Clients -> Line!Sent \cup {Line!NoByte}]
         /\ line_client \in [Clients -> {"ready", "sent", "received"}]
         /\ line_notifier \in [{Line!Tx, Line!Rx} -> {"woken", "sent", "held", "released", "awaiting"}]
         /\ line_mailbox \in Seq(LineMessages) /\ Len(line_mailbox) \in Nat
         /\ \A i \in 1 .. Len(line_mailbox) : line_mailbox[i] \in LineMessages
         /\ rdr \in 0 .. Bytes /\ toSend \in 0 .. Bytes /\ Bytes \in Nat
         /\ Line!NoByte \notin Line!Sent /\ Line!Ask \in Line!Sent /\ Line!Command \in Line!Sent
         /\ Line!Command # Line!Ask /\ Line!NoByte \in 0 .. Bytes
         /\ thr \in Line!Sent \cup {Line!NoByte}
         /\ \A c \in Clients : /\ pc[c] \in 1 .. Len(Program[c])
                               /\ Line!Step(c) \in {"put", "ask", "get", "release"}
                               /\ Line!Step(c) \in {"put", "ask"} => Line!Data(c) \in Line!Sent
                               /\ Line!Step(c) = "ask" <=> Line!Data(c) = Line!Ask
<1>1. /\ line_mailbox \in Seq(LineMessages) /\ line_lock_cb \in Seq(Clients)
      /\ line_owned_by \in Clients \cup {NoOwner}
      /\ send_buffer \in [Clients -> Line!Sent \cup {Line!NoByte}]
      /\ line_client \in [Clients -> {"ready", "sent", "received"}]
      /\ line_notifier \in [{Line!Tx, Line!Rx} -> {"woken", "sent", "held", "released", "awaiting"}]
      /\ rdr \in 0 .. Bytes /\ toSend \in 0 .. Bytes /\ thr \in Line!Sent \cup {Line!NoByte}
      /\ \A c \in Clients : pc[c] \in 1 .. Len(Program[c])
  BY DEF LineInv, Line!TypeOK, LineMessages
<1>2. /\ Len(line_mailbox) \in Nat /\ Len(line_lock_cb) \in Nat
      /\ \A i \in 1 .. Len(line_mailbox) : line_mailbox[i] \in LineMessages
  BY <1>1
<1>3. /\ NoOwner \notin Clients /\ Line!Tx \notin Clients /\ Line!Rx \notin Clients
      /\ Bytes \in Nat /\ Bytes >= 1
  BY DEF Line!Uart1Assumption
<1>4. Line!Tx # Line!Rx
  BY DEF Line!Tx, Line!Rx
<1>5. Line!NoByte \notin Line!Sent /\ Line!Ask \in Line!Sent /\ Line!Command \in Line!Sent /\ Line!Command # Line!Ask /\ Line!NoByte \in 0 .. Bytes
  BY <1>3 DEF Line!NoByte, Line!Sent, Line!Ask, Line!Command
<1>6. ASSUME NEW c \in Clients
      PROVE  /\ Line!Step(c) \in {"put", "ask", "get", "release"}
             /\ Line!Step(c) \in {"put", "ask"} => Line!Data(c) \in Line!Sent
             /\ Line!Step(c) = "ask" <=> Line!Data(c) = Line!Ask
  <2>1. Line!Step(c) \in {"put", "ask", "get", "release"}
    BY <1>1, ProgramFacts DEF Line!Step
  <2>2. QED
    BY <1>5, <2>1 DEF Line!Data
<1>7. QED
  BY <1>1, <1>2, <1>3, <1>4, <1>5, <1>6

LEMMA LineInitInv == ASSUME Line!Uart1Assumption PROVE Line!Init => LineInv /\ AnswerOK
<1> SUFFICES ASSUME Line!Init PROVE LineInv /\ AnswerOK
  OBVIOUS
<1> DEFINE s == [from |-> Line!Tx, type |-> "NOTIFIER_TX_GOOD", data |-> Line!NoByte]
           r == [from |-> Line!Rx, type |-> "NOTIFIER_RX_GOOD", data |-> Line!NoByte]
<1>1. /\ line_mailbox = <<s, r>> /\ s \in LineMessages /\ r \in LineMessages
      /\ s.from = Line!Tx /\ s.type = "NOTIFIER_TX_GOOD" /\ r.from = Line!Rx
      /\ r.type = "NOTIFIER_RX_GOOD"
      /\ r.data = Line!NoByte /\ Line!NoByte \in 0 .. Bytes
  BY DEF Line!Init, LineMessages, Line!Uart1Assumption, Line!NoByte
<1> HIDE DEF s, r
<1>2. /\ line_mailbox \in Seq(LineMessages) /\ Len(line_mailbox) = 2 /\ line_mailbox[1] = s
      /\ line_mailbox[2] = r
      /\ \A i \in 1 .. Len(line_mailbox) : i \in {1, 2}
  BY <1>1
<1>3. /\ Line!Tx # Line!Rx /\ Line!Tx \notin Clients /\ Line!Rx \notin Clients /\ Bytes \in Nat
      /\ LockCapacity \in Nat
      /\ NoOwner \notin Clients
  BY DEF Line!Uart1Assumption, Line!Tx, Line!Rx
<1>4. \A c \in Clients : pc[c] = 1 /\ 1 \in 1 .. Len(Program[c]) /\ Line!Step(c) \in {"put", "ask"}
  BY ProgramFacts DEF Line!Init, Line!Step
<1>5. Line!TypeOK
  <2>1. /\ line_lock_cb \in Seq(Clients) /\ Len(line_lock_cb) <= LockCapacity
        /\ rdr \in 0 .. Bytes /\ toSend \in 0 .. Bytes
        /\ result \in [Clients -> 0 .. Bytes]
    BY <1>3 DEF Line!Init, Line!NoByte
  <2>2. /\ send_buffer \in [Clients -> Line!Sent \cup {Line!NoByte}]
        /\ line_client \in [Clients -> {"ready", "sent", "received"}]
        /\ line_notifier \in [{Line!Tx, Line!Rx} -> {"woken", "sent", "held", "released", "awaiting"}]
        /\ controller \in {"clear", "receiving", "busy"} \X (Line!Sent \cup {Line!NoByte})
    BY DEF Line!Init
  <2>3. /\ line_owned_by \in Clients \cup {NoOwner} /\ can_send \in BOOLEAN /\ want_send \in BOOLEAN
        /\ uart1_tx_flag \in SUBSET {"TX", "CTS"}
        /\ intr \in SUBSET {"UART1TXINTR", "UART1CTSINTR", "UART1RXINTR"}
        /\ thr \in Line!Sent \cup {Line!NoByte} /\ cts \in BOOLEAN /\ dcts \in BOOLEAN
    BY DEF Line!Init
  <2>4. QED
    BY <1>2, <1>4, <2>1, <2>2, <2>3 DEF Line!TypeOK, LineMessages
<1>6. LockOK /\ IntrOK
  <2>1. /\ line_lock_cb = <<>> /\ Len(line_lock_cb) = 0 /\ want_send = FALSE /\ intr = {}
        /\ \A c \in Clients : line_client[c] = "ready"
    BY DEF Line!Init
  <2>2. QED
    BY <1>4, <2>1 DEF LockOK, IntrOK, Distinct, Elements
<1>7. LineMailboxOK
  BY <1>1, <1>2, <1>3 DEF Line!Init, LineMailboxOK, MessageOK
<1>8. LineOK /\ FlagsOK
  <2>1. /\ thr = Line!NoByte /\ cts = TRUE /\ controller[1] = "clear" /\ can_send = TRUE
        /\ line_notifier[Line!Tx] = "sent" /\ uart1_tx_flag = {}
    BY DEF Line!Init
  <2>2. QED
    BY <1>1, <1>2, <2>1 DEF LineOK, FlagsOK, Clear
<1>9. WaitingOK
  <2>1. First
    BY <1>1, <1>2 DEF First, Line!Init
  <2>2. /\ line_notifier[Line!Rx] = "sent" /\ want_send = FALSE
        /\ \A c \in Clients : line_client[c] = "ready"
    BY DEF Line!Init
  <2>3. QED
    BY <2>1, <2>2 DEF WaitingOK
<1>10. AnswerOK
  <2>1. /\ thr = Line!NoByte /\ controller[1] = "clear" /\ controller[2] = Line!NoByte
        /\ toSend = 0 /\ rdr = Line!NoByte
        /\ line_owned_by = NoOwner
    BY DEF Line!Init
  <2>2. QED
    BY <1>3, <2>1 DEF AnswerOK, Quiet, Asked, Line!NoByte, Line!Ask
<1>11. QED
  BY <1>5, <1>6, <1>7, <1>8, <1>9, <1>10 DEF LineInv

LEMMA LineStutterInv == ASSUME LineInv, UNCHANGED Line!vars PROVE LineInv' /\ (AnswerOK => AnswerOK')
<1>1. /\ UNCHANGED <<line_owned_by, line_lock_cb, can_send, want_send, send_buffer, line_mailbox, line_notifier>>
      /\ UNCHANGED <<uart1_tx_flag, intr, thr, rdr, cts, dcts, controller, toSend, line_client, pc, result>>
  BY DEF Line!vars, Line!server, Line!kernel, Line!line, Line!tasks
<1>2. Line!TypeOK'
  BY <1>1 DEF LineInv, Line!TypeOK
<1>3. LockOK' /\ IntrOK' /\ LineMailboxOK'
  BY <1>1 DEF LineInv, LockOK, IntrOK, LineMailboxOK, MessageOK, Line!Step, Line!Request, Line!Data
<1>4. LineOK' /\ FlagsOK' /\ WaitingOK'
  BY <1>1 DEF LineInv, LineOK, Clear, FlagsOK, WaitingOK, Reading, First, Line!Step, Line!Data
<1>5. AnswerOK => AnswerOK'
  BY <1>1 DEF AnswerOK, Quiet, Asked, Expecting, Line!Step
<1>6. QED
  BY <1>2, <1>3, <1>4, <1>5 DEF LineInv

LEMMA LocksHold == ASSUME LineInv PROVE Line!LocksConsistent
<1>1. \A c : c \in {line_lock_cb[i] : i \in 1 .. Len(line_lock_cb)} <=> c \in Elements(line_lock_cb)
  BY DEF Elements
<1>2. \A c \in Clients : c \in Elements(line_lock_cb) <=> line_client[c] = "received" /\ line_owned_by # c
  BY DEF LineInv, LockOK
<1>3. \A c \in Clients :
        (c \in {line_lock_cb[i] : i \in 1 .. Len(line_lock_cb)}) <=> (line_client[c] = "received" /\ line_owned_by # c)
  BY <1>1, <1>2
<1>4. QED
  BY <1>3 DEF LineInv, LockOK, IntrOK, Line!LocksConsistent, Distinct

-----------------------------------------------------------------------------
(* The line and the controller *)

\* A step of the line leaves the rest alone.
LEMMA LineFrame ==
  ASSUME LineInv, UNCHANGED <<Line!server, line_mailbox, line_notifier, Line!kernel, Line!tasks>>, Line!TypeOK', LineOK'
  PROVE  LineInv'
<1>1. /\ UNCHANGED <<line_owned_by, line_lock_cb, can_send, want_send, send_buffer, line_mailbox, line_notifier>>
      /\ UNCHANGED <<uart1_tx_flag, intr, line_client, pc, result>>
  BY DEF Line!server, Line!kernel, Line!tasks
<1>2. LockOK' /\ IntrOK'
  BY <1>1 DEF LineInv, LockOK, IntrOK, Line!Step
<1>3. LineMailboxOK'
  <2>1. \A c : Line!Request(c)' = Line!Request(c)
    BY <1>1 DEF Line!Request, Line!Data, Line!Step
  <2>2. QED
    BY <1>1, <2>1 DEF LineInv, LineMailboxOK, MessageOK
<1>4. FlagsOK' /\ WaitingOK'
  BY <1>1 DEF LineInv, FlagsOK, WaitingOK, Reading, First, Line!Step, Line!Data
<1>5. QED
  BY <1>2, <1>3, <1>4 DEF LineInv

\* As long as no task gets on, what it expects stays.
LEMMA AnswerFrame ==
  ASSUME AnswerOK, UNCHANGED <<line_owned_by, pc>>, controller'[1] = "clear" => controller'[2] = Line!NoByte,
         Quiet => Quiet', \A k \in 1 .. Bytes : Expecting(k) => Expecting(k)'
  PROVE  AnswerOK'
BY DEF AnswerOK, Line!Step

LEMMA LineOKInv ==
  ASSUME Line!Uart1Assumption, LineInv, Line!Line
  PROVE  LineInv' /\ (Prompt /\ AnswerOK => AnswerOK')
<1> USE LineTypeFacts
<1>1. CASE Line!ShiftOut
  <2>1. /\ thr # Line!NoByte /\ thr' = Line!NoByte /\ controller' = <<"receiving", thr>>
        /\ UNCHANGED <<Line!server, line_mailbox, line_notifier, Line!kernel, rdr, cts, dcts, toSend, Line!tasks>>
    BY <1>1 DEF Line!ShiftOut
  <2>2. controller'[1] = "receiving" /\ controller'[2] = thr /\ controller[1] = "clear" /\ cts
    BY <2>1 DEF LineInv, LineOK
  <2>3. Line!TypeOK'
    BY <2>1 DEF LineInv, Line!TypeOK, Line!server, Line!kernel, Line!tasks
  <2>4. LineOK'
    BY <2>1, <2>2 DEF LineInv, LineOK, Clear, Line!server, Line!kernel
  <2>5. LineInv'
    BY <2>1, <2>3, <2>4, LineFrame
  <2>6. ASSUME AnswerOK PROVE AnswerOK'
    <3>1. controller[2] = Line!NoByte
      BY <2>2, <2>6 DEF AnswerOK
    <3>2. Asked' <=> Asked
      BY <2>1, <2>2, <3>1 DEF Asked
    <3>3. UNCHANGED <<rdr, toSend, line_notifier, line_mailbox, line_owned_by, pc>>
      BY <2>1 DEF Line!server, Line!tasks
    <3>4. (Quiet => Quiet') /\ \A k \in 1 .. Bytes : Expecting(k) => Expecting(k)'
      BY <3>2, <3>3 DEF Quiet, Expecting
    <3>5. QED
      BY <2>2, <2>6, <3>3, <3>4, AnswerFrame
  <2>7. QED
    BY <2>5, <2>6
<1>2. CASE Line!LowerCts
  <2>1. /\ controller[1] = "receiving" /\ controller' = <<"busy", controller[2]>>
        /\ cts' = FALSE /\ dcts' = TRUE
        /\ UNCHANGED <<Line!server, line_mailbox, line_notifier, Line!kernel, thr, rdr, toSend, Line!tasks>>
    BY <1>2 DEF Line!LowerCts
  <2>2. controller'[1] = "busy" /\ controller'[2] = controller[2] /\ ~Clear
    BY <2>1 DEF Clear
  <2>3. Line!TypeOK'
    BY <2>1 DEF LineInv, Line!TypeOK, Line!server, Line!kernel, Line!tasks
  <2>4. LineOK'
    BY <2>1, <2>2 DEF LineInv, LineOK, Line!server, Line!kernel
  <2>5. LineInv'
    BY <2>1, <2>3, <2>4, LineFrame
  <2>6. ASSUME AnswerOK PROVE AnswerOK'
    <3>1. UNCHANGED <<rdr, toSend, line_notifier, line_mailbox, line_owned_by, pc, thr>>
      BY <2>1 DEF Line!server, Line!tasks
    <3>2. (Quiet => Quiet') /\ \A k \in 1 .. Bytes : Expecting(k) => Expecting(k)'
      BY <2>2, <3>1 DEF Quiet, Expecting, Asked
    <3>3. QED
      BY <2>2, <2>6, <3>1, <3>2, AnswerFrame
  <2>7. QED
    BY <2>5, <2>6
<1>3. CASE Line!RaiseCts
  <2>1. /\ controller[1] = "busy" /\ controller' = <<"clear", Line!NoByte>>
        /\ cts' = TRUE /\ dcts' = TRUE
        /\ toSend' = IF controller[2] = Line!Ask THEN Bytes ELSE toSend
        /\ UNCHANGED <<Line!server, line_mailbox, line_notifier, Line!kernel, thr, rdr, Line!tasks>>
    BY <1>3 DEF Line!RaiseCts
  <2>2. controller'[1] = "clear" /\ controller'[2] = Line!NoByte /\ thr = Line!NoByte /\ Clear' /\ thr' = Line!NoByte
    BY <2>1 DEF LineInv, LineOK, Clear
  <2>3. Line!TypeOK'
    <3>1. toSend' \in 0 .. Bytes
      BY <2>1
    <3>2. QED
      BY <2>1, <3>1 DEF LineInv, Line!TypeOK, Line!server, Line!kernel, Line!tasks
  <2>4. LineOK'
    BY <2>1, <2>2 DEF LineInv, LineOK, Line!server, Line!kernel
  <2>5. LineInv'
    BY <2>1, <2>3, <2>4, LineFrame
  <2>6. ASSUME AnswerOK PROVE AnswerOK'
    <3>1. UNCHANGED <<rdr, line_notifier, line_mailbox, line_owned_by, pc>> /\ ~Asked'
      BY <2>1, <2>2 DEF Line!server, Line!tasks, Asked
    <3>2. Asked <=> controller[2] = Line!Ask
      BY <2>2 DEF Asked
    <3>3. Quiet => Quiet'
      BY <2>1, <3>1, <3>2 DEF Quiet
    <3>4. ASSUME NEW k \in 1 .. Bytes, Expecting(k) PROVE Expecting(k)'
      <4>1. CASE Asked
        <5>1. k = 1 /\ rdr = Line!NoByte /\ line_notifier[Line!Rx] \notin {"sent", "woken"} /\ toSend' = Bytes
          BY <2>1, <3>2, <3>4, <4>1 DEF Expecting
        <5>2. \A i \in 1 .. Len(line_mailbox) : line_mailbox[i].from # Line!Rx
          BY <5>1 DEF LineInv, LineMailboxOK, MessageOK
        <5>3. QED
          BY <3>1, <5>1, <5>2 DEF Expecting
      <4>2. CASE ~Asked
        <5>1. toSend' = toSend
          BY <2>1, <3>2, <4>2
        <5>2. QED
          BY <3>1, <3>4, <4>2, <5>1 DEF Expecting
      <4>3. QED
        BY <4>1, <4>2
    <3>5. QED
      BY <2>2, <2>6, <3>1, <3>3, <3>4, AnswerFrame
  <2>7. QED
    BY <2>5, <2>6
<1>4. CASE Line!ByteArrives
  <2>1. /\ toSend > 0 /\ rdr' = Bytes - toSend + 1 /\ toSend' = toSend - 1
        /\ Prompt => rdr = Line!NoByte
        /\ UNCHANGED <<Line!server, line_mailbox, line_notifier, Line!kernel, thr, cts, dcts, controller, Line!tasks>>
    BY <1>4 DEF Line!ByteArrives
  <2>2. Line!TypeOK'
    <3>1. toSend' \in 0 .. Bytes /\ rdr' \in 0 .. Bytes
      BY <2>1
    <3>2. QED
      BY <2>1, <3>1 DEF LineInv, Line!TypeOK, Line!server, Line!kernel, Line!tasks
  <2>3. LineOK'
    BY <2>1 DEF LineInv, LineOK, Clear, Line!server, Line!kernel
  <2>4. LineInv'
    BY <2>1, <2>2, <2>3, LineFrame
  <2>5. ASSUME Prompt, AnswerOK PROVE AnswerOK'
    <3>1. /\ UNCHANGED <<line_notifier, line_mailbox, line_owned_by, pc, controller>>
          /\ rdr = Line!NoByte
          /\ (Asked' <=> Asked)
      BY <2>1, <2>5 DEF Line!server, Line!tasks, Asked
    <3>2. ~Quiet
      BY <2>1 DEF Quiet
    <3>3. ASSUME NEW k \in 1 .. Bytes, Expecting(k) PROVE Expecting(k)'
      <4>1. ~Asked
        BY <2>1, <3>3 DEF Expecting
      <4> DEFINE first == IF line_notifier[Line!Rx] = "sent" THEN k + 1 ELSE k
      <4>2. Bytes - toSend = first - 1 /\ first \in Nat /\ first >= 1
        BY <3>1, <3>3, <4>1 DEF Expecting, Line!NoByte
      <4>3. rdr' = first /\ Bytes - toSend' = first /\ rdr' # Line!NoByte
        BY <2>1, <4>2 DEF Line!NoByte
      <4>4. QED
        BY <3>1, <3>3, <4>1, <4>3 DEF Expecting
    <3>4. QED
      BY <2>5, <3>1, <3>2, <3>3, AnswerFrame DEF AnswerOK
  <2>6. QED
    BY <2>4, <2>5
<1>5. QED
  BY <1>1, <1>2, <1>3, <1>4 DEF Line!Line
-----------------------------------------------------------------------------
(* The notifiers and the kernel *)

LEMMA TxAwaitsInv ==
  ASSUME Line!Uart1Assumption, LineInv, Line!TxAwaits
  PROVE  LineInv' /\ (AnswerOK => AnswerOK')
<1>1. /\ line_notifier[Line!Tx] = "released"
      /\ line_notifier' = [line_notifier EXCEPT ![Line!Tx] = "awaiting"]
      /\ dcts' = FALSE /\ intr' = intr \cup {"UART1TXINTR", "UART1CTSINTR"} /\ uart1_tx_flag' = {}
      /\ UNCHANGED <<line_owned_by, line_lock_cb, can_send, want_send, send_buffer>>
      /\ UNCHANGED <<line_mailbox, thr, rdr, cts, controller, toSend, line_client, pc, result>>
  BY DEF Line!TxAwaits, Line!server, Line!tasks
<1>2. /\ line_notifier' \in [{Line!Tx, Line!Rx} -> {"woken", "sent", "held", "released", "awaiting"}]
      /\ line_notifier'[Line!Tx] = "awaiting" /\ line_notifier'[Line!Rx] = line_notifier[Line!Rx]
  BY <1>1, LineTypeFacts
<1>3. Line!TypeOK'
  BY <1>1, <1>2 DEF LineInv, Line!TypeOK
<1>4. LockOK' /\ IntrOK'
  BY <1>1, <1>2 DEF LineInv, LockOK, IntrOK, Line!Step
<1>5. LineMailboxOK'
  <2>1. \A c : Line!Request(c)' = Line!Request(c)
    BY <1>1 DEF Line!Request, Line!Data, Line!Step
  <2>2. \A i \in 1 .. Len(line_mailbox) : line_mailbox[i].from # Line!Tx
    BY <1>1 DEF LineInv, LineMailboxOK, MessageOK
  <2>3. QED
    BY <1>1, <1>2, <2>1, <2>2 DEF LineInv, LineMailboxOK, MessageOK
<1>6. LineOK' /\ FlagsOK'
  BY <1>1, <1>2 DEF LineInv, LineOK, FlagsOK, Clear
<1>7. WaitingOK'
  BY <1>1, <1>2 DEF LineInv, WaitingOK, Reading, First, Line!Step, Line!Data
<1>8. ASSUME AnswerOK PROVE AnswerOK'
  <2>1. (Quiet => Quiet') /\ \A k \in 1 .. Bytes : Expecting(k) => Expecting(k)'
    BY <1>1, <1>2 DEF Quiet, Asked, Expecting
  <2>2. QED
    BY <1>1, <1>8, <2>1, AnswerFrame DEF AnswerOK
<1>9. QED
  BY <1>3, <1>4, <1>5, <1>6, <1>7, <1>8 DEF LineInv

LEMMA RxAwaitsInv ==
  ASSUME Line!Uart1Assumption, LineInv, Line!RxAwaits
  PROVE  LineInv' /\ (AnswerOK => AnswerOK')
<1>1. /\ line_notifier[Line!Rx] = "released"
      /\ line_notifier' = [line_notifier EXCEPT ![Line!Rx] = "awaiting"]
      /\ intr' = intr \cup {"UART1RXINTR"}
      /\ UNCHANGED <<line_owned_by, line_lock_cb, can_send, want_send, send_buffer, uart1_tx_flag>>
      /\ UNCHANGED <<line_mailbox, thr, rdr, cts, dcts, controller, toSend, line_client, pc, result>>
  BY DEF Line!RxAwaits, Line!server, Line!tasks, Line!line
<1>2. /\ line_notifier' \in [{Line!Tx, Line!Rx} -> {"woken", "sent", "held", "released", "awaiting"}]
      /\ line_notifier'[Line!Rx] = "awaiting" /\ line_notifier'[Line!Tx] = line_notifier[Line!Tx]
  BY <1>1, LineTypeFacts
<1>3. Line!TypeOK'
  BY <1>1, <1>2 DEF LineInv, Line!TypeOK
<1>4. LockOK' /\ IntrOK'
  BY <1>1, <1>2 DEF LineInv, LockOK, IntrOK, Line!Step
<1>5. LineMailboxOK'
  <2>1. \A c : Line!Request(c)' = Line!Request(c)
    BY <1>1 DEF Line!Request, Line!Data, Line!Step
  <2>2. \A i \in 1 .. Len(line_mailbox) : line_mailbox[i].from # Line!Rx
    BY <1>1 DEF LineInv, LineMailboxOK, MessageOK
  <2>3. QED
    BY <1>1, <1>2, <2>1, <2>2 DEF LineInv, LineMailboxOK, MessageOK
<1>6. LineOK' /\ FlagsOK'
  BY <1>1, <1>2 DEF LineInv, LineOK, FlagsOK, Clear
<1>7. WaitingOK'
  BY <1>1, <1>2 DEF LineInv, WaitingOK, Reading, First, Line!Step, Line!Data
<1>8. ASSUME AnswerOK PROVE AnswerOK'
  <2>1. (Quiet => Quiet') /\ \A k \in 1 .. Bytes : Expecting(k) => Expecting(k)'
    BY <1>1, <1>2 DEF Quiet, Asked, Expecting
  <2>2. QED
    BY <1>1, <1>8, <2>1, AnswerFrame DEF AnswerOK
<1>9. QED
  BY <1>3, <1>4, <1>5, <1>6, <1>7, <1>8 DEF LineInv

LEMMA InterruptInv ==
  ASSUME Line!Uart1Assumption, LineInv, Line!Interrupt
  PROVE  LineInv' /\ (AnswerOK => AnswerOK')
<1> DEFINE flag == uart1_tx_flag \cup Line!Seen
           woken == (IF Line!Ris THEN {Line!Rx} ELSE {}) \cup (IF Line!Complete(flag) THEN {Line!Tx} ELSE {})
<1>1. /\ Line!Ris \/ Line!Tis \/ Line!Mis
      /\ line_notifier' = [n \in {Line!Tx, Line!Rx} |-> IF n \in woken THEN "woken" ELSE line_notifier[n]]
      /\ uart1_tx_flag' = IF Line!Complete(flag) THEN {} ELSE flag
      /\ intr' = intr \ ((IF Line!Ris THEN {"UART1RXINTR"} ELSE {})
                      \cup (IF "TX" \in Line!Seen THEN {"UART1TXINTR"} ELSE {})
                      \cup (IF "CTS" \in Line!Seen THEN {"UART1CTSINTR"} ELSE {}))
      /\ dcts' = IF Line!Mis THEN FALSE ELSE dcts
      /\ UNCHANGED <<line_owned_by, line_lock_cb, can_send, want_send, send_buffer, line_mailbox>>
      /\ UNCHANGED <<thr, rdr, cts, controller, toSend, line_client, pc, result>>
  BY DEF Line!Interrupt, Line!server, Line!tasks
<1>2. /\ "TX" \in Line!Seen <=> Line!Tis
      /\ "CTS" \in Line!Seen <=> Line!Mis /\ cts
      /\ Line!Seen \subseteq {"TX", "CTS"} /\ uart1_tx_flag \subseteq {"TX", "CTS"}
  BY DEF Line!Seen, LineInv, Line!TypeOK
<1>3. /\ Line!Tis => line_notifier[Line!Tx] = "awaiting" /\ thr = Line!NoByte
      /\ Line!Mis => line_notifier[Line!Tx] = "awaiting" /\ dcts
      /\ Line!Ris => line_notifier[Line!Rx] = "awaiting" /\ rdr # Line!NoByte
  BY DEF Line!Tis, Line!Mis, Line!Ris, LineInv, IntrOK
<1>4. Line!Complete(flag) <=> "TX" \in flag /\ "CTS" \in flag
  BY <1>2 DEF Line!Complete
<1>5. Line!Complete(flag) => line_notifier[Line!Tx] = "awaiting"
  <2>1. ASSUME Line!Complete(flag), ~Line!Tis, ~Line!Mis PROVE FALSE
    <3>1. flag = uart1_tx_flag
      BY <2>1 DEF Line!Seen
    <3>2. QED
      BY <2>1, <3>1 DEF Line!Complete, LineInv, FlagsOK
  <2>2. QED
    BY <1>3, <2>1
<1>6. /\ line_notifier' \in [{Line!Tx, Line!Rx} -> {"woken", "sent", "held", "released", "awaiting"}]
      /\ line_notifier'[Line!Tx] = (IF Line!Complete(flag) THEN "woken" ELSE line_notifier[Line!Tx])
      /\ line_notifier'[Line!Rx] = (IF Line!Ris THEN "woken" ELSE line_notifier[Line!Rx])
  BY <1>1, LineTypeFacts
<1>7. "CTS" \in flag /\ line_notifier[Line!Tx] = "awaiting" => Clear
  BY <1>2, <1>3 DEF LineInv, LineOK
<1> HIDE DEF flag, woken
<1>8. Line!TypeOK'
  <2>1. uart1_tx_flag' \in SUBSET {"TX", "CTS"} /\ dcts' \in BOOLEAN
    BY <1>1, <1>2 DEF flag, LineInv, Line!TypeOK
  <2>2. intr' \in SUBSET {"UART1TXINTR", "UART1CTSINTR", "UART1RXINTR"}
    BY <1>1 DEF LineInv, Line!TypeOK
  <2>3. QED
    BY <1>1, <1>6, <2>1, <2>2 DEF LineInv, Line!TypeOK
<1>9. LockOK'
  BY <1>1 DEF LineInv, LockOK, Line!Step
<1>10. FlagsOK'
  <2>1. "TX" \in flag => "UART1TXINTR" \notin intr'
    BY <1>1 DEF flag, LineInv, FlagsOK
  <2>2. "CTS" \in flag => "UART1CTSINTR" \notin intr'
    BY <1>1 DEF flag, LineInv, FlagsOK
  <2>3. QED
    BY <1>1, <2>1, <2>2 DEF FlagsOK, Line!Complete
<1>11. IntrOK'
  <2>1. CASE Line!Complete(flag)
    <3>1. "UART1TXINTR" \notin intr' /\ "UART1CTSINTR" \notin intr'
      BY <1>1, <1>4, <2>1 DEF flag, LineInv, FlagsOK
    <3>2. "UART1RXINTR" \in intr' => line_notifier'[Line!Rx] = "awaiting"
      BY <1>1, <1>6 DEF LineInv, IntrOK
    <3>3. QED
      BY <3>1, <3>2 DEF IntrOK
  <2>2. CASE ~Line!Complete(flag)
    <3>1. intr' \subseteq intr
      BY <1>1
    <3>2. "UART1RXINTR" \in intr' => line_notifier'[Line!Rx] = "awaiting"
      BY <1>1, <1>6 DEF LineInv, IntrOK
    <3>3. QED
      BY <1>6, <2>2, <3>1, <3>2 DEF LineInv, IntrOK
  <2>3. QED
    BY <2>1, <2>2
<1>12. LineMailboxOK'
  <2>1. \A c : Line!Request(c)' = Line!Request(c)
    BY <1>1 DEF Line!Request, Line!Data, Line!Step
  <2>2. \A n \in {Line!Tx, Line!Rx} : line_notifier[n] = "sent" => line_notifier'[n] = "sent"
    BY <1>3, <1>5, <1>6
  <2>3. QED
    BY <1>1, <2>1, <2>2 DEF LineInv, LineMailboxOK, MessageOK
<1>13. LineOK'
  <2>1. Clear' <=> Clear
    BY <1>1 DEF Clear
  <2>2. ASSUME line_notifier'[Line!Tx] = "awaiting", "CTS" \in uart1_tx_flag' \/ (dcts' /\ cts') PROVE Clear
    <3>1. line_notifier[Line!Tx] = "awaiting" /\ ~Line!Complete(flag)
      BY <1>6, <2>2
    <3>2. CASE "CTS" \in uart1_tx_flag'
      BY <1>1, <1>7, <3>1, <3>2
    <3>3. CASE dcts' /\ cts'
      <4>1. dcts /\ cts
        BY <1>1, <3>3
      <4>2. QED
        BY <3>1, <4>1 DEF LineInv, LineOK
    <3>4. QED
      BY <2>2, <3>2, <3>3
  <2>3. line_notifier'[Line!Tx] \in {"woken", "sent", "held"} => Clear
    BY <1>4, <1>5, <1>6, <1>7 DEF LineInv, LineOK
  <2>4. can_send => ~Line!Complete(flag)
    BY <1>5 DEF LineInv, LineOK
  <2>5. QED
    BY <1>1, <1>6, <2>1, <2>2, <2>3, <2>4 DEF LineInv, LineOK
<1>14. WaitingOK'
  <2>1. Reading' <=> Reading
    BY <1>1 DEF Reading, Line!Step
  <2>2. First' <=> First
    BY <1>1 DEF First
  <2>3. line_notifier'[Line!Rx] # line_notifier[Line!Rx] => line_notifier[Line!Rx] = "awaiting" /\ line_notifier'[Line!Rx] = "woken"
    BY <1>3, <1>6
  <2>4. QED
    BY <1>1, <2>1, <2>2, <2>3 DEF LineInv, WaitingOK, Line!Step, Line!Data
<1>15. ASSUME AnswerOK PROVE AnswerOK'
  <2>1. /\ line_notifier'[Line!Rx] = "sent" <=> line_notifier[Line!Rx] = "sent"
        /\ line_notifier'[Line!Rx] = "woken" => rdr # Line!NoByte \/ line_notifier[Line!Rx] = "woken"
    BY <1>3, <1>6
  <2>2. (Quiet => Quiet') /\ \A k \in 1 .. Bytes : Expecting(k) => Expecting(k)'
    BY <1>1, <2>1 DEF Quiet, Asked, Expecting
  <2>3. QED
    BY <1>1, <1>15, <2>2, AnswerFrame DEF AnswerOK
<1>16. QED
  BY <1>8, <1>9, <1>10, <1>11, <1>12, <1>13, <1>14, <1>15 DEF LineInv

\* A task whose message the mailbox does not hold sends one.
LEMMA AppendFacts ==
  ASSUME Line!Uart1Assumption, LineInv, NEW m \in LineMessages, line_mailbox' = Append(line_mailbox, m),
         \A i \in 1 .. Len(line_mailbox) : line_mailbox[i].from # m.from,
         MessageOK(m)', \A q \in LineMessages : q.from # m.from /\ MessageOK(q) => MessageOK(q)'
  PROVE  /\ line_mailbox' \in Seq(LineMessages) /\ LineMailboxOK'
         /\ Len(line_mailbox') = Len(line_mailbox) + 1 /\ line_mailbox'[Len(line_mailbox) + 1] = m
         /\ \A i \in 1 .. Len(line_mailbox) : line_mailbox'[i] = line_mailbox[i]
         /\ line_mailbox # <<>> => line_mailbox' # <<>> /\ line_mailbox'[1] = line_mailbox[1]
         /\ First /\ UNCHANGED line_owned_by => First'
<1> DEFINE n == Len(line_mailbox)
<1>1. line_mailbox \in Seq(LineMessages) /\ n \in Nat
  BY LineTypeFacts
<1>2. /\ line_mailbox' \in Seq(LineMessages) /\ Len(line_mailbox') = n + 1
      /\ line_mailbox'[n + 1] = m
      /\ \A i \in 1 .. n : line_mailbox'[i] = line_mailbox[i]
      /\ \A i \in 1 .. n + 1 : i \in 1 .. n \/ i = n + 1
      /\ line_mailbox # <<>> => line_mailbox' # <<>> /\ 1 \in 1 .. n
  BY <1>1
<1>3. \A i \in 1 .. n : line_mailbox[i] \in LineMessages /\ MessageOK(line_mailbox[i])
  BY LineTypeFacts DEF LineInv, LineMailboxOK
<1>4. ASSUME NEW q, \E i \in 1 .. n + 1 : q = line_mailbox'[i] PROVE MessageOK(q)'
  BY <1>2, <1>3, <1>4
<1>5. \A i, j \in 1 .. n + 1 : line_mailbox'[i].from = line_mailbox'[j].from => i = j
  <2>1. \A i, j \in 1 .. n : line_mailbox[i].from = line_mailbox[j].from => i = j
    BY DEF LineInv, LineMailboxOK
  <2>2. QED
    BY <1>2, <2>1
<1>6. LineMailboxOK'
  <2>1. \A i \in 1 .. Len(line_mailbox') : \E j \in 1 .. n + 1 : line_mailbox'[i] = line_mailbox'[j]
    BY <1>2
  <2>2. QED
    BY <1>2, <1>4, <1>5, <2>1 DEF LineMailboxOK, MessageOK, Line!Request, Line!Data, Line!Step
<1>7. First /\ UNCHANGED line_owned_by => First'
  <2>1. ASSUME First, UNCHANGED line_owned_by PROVE First'
    <3>1. PICK i \in {1, 2} : /\ i <= n /\ line_mailbox[i].from = Line!Rx
                              /\ i = 2 => line_mailbox[1].from = Line!Tx
      BY <2>1 DEF First
    <3>2. i <= Len(line_mailbox') /\ line_mailbox'[i] = line_mailbox[i] /\ line_mailbox'[1] = line_mailbox[1]
      BY <1>1, <1>2, <3>1
    <3>3. QED
      BY <2>1, <3>1, <3>2 DEF First
  <2>2. QED
    BY <2>1
<1>8. QED
  BY <1>2, <1>6, <1>7

LEMMA TxSendsInv ==
  ASSUME Line!Uart1Assumption, LineInv, Line!TxSends
  PROVE  LineInv' /\ (AnswerOK => AnswerOK')
<1> DEFINE m == [from |-> Line!Tx, type |-> "NOTIFIER_TX_GOOD", data |-> Line!NoByte]
<1>1. /\ line_notifier[Line!Tx] = "woken"
      /\ line_notifier' = [line_notifier EXCEPT ![Line!Tx] = "sent"]
      /\ line_mailbox' = Append(line_mailbox, m)
      /\ UNCHANGED <<line_owned_by, line_lock_cb, can_send, want_send, send_buffer, uart1_tx_flag, intr>>
      /\ UNCHANGED <<thr, rdr, cts, dcts, controller, toSend, line_client, pc, result>>
  BY DEF Line!TxSends, Line!server, Line!kernel, Line!line, Line!tasks
<1>2. /\ line_notifier' \in [{Line!Tx, Line!Rx} -> {"woken", "sent", "held", "released", "awaiting"}]
      /\ line_notifier'[Line!Tx] = "sent" /\ line_notifier'[Line!Rx] = line_notifier[Line!Rx]
  BY <1>1, LineTypeFacts
<1>3. m \in LineMessages /\ m.from = Line!Tx /\ m.type = "NOTIFIER_TX_GOOD"
  BY LineTypeFacts DEF LineMessages
<1> HIDE DEF m
<1>4. \A i \in 1 .. Len(line_mailbox) : line_mailbox[i].from # m.from
  BY <1>1, <1>3 DEF LineInv, LineMailboxOK, MessageOK
<1>5. \A c : Line!Request(c)' = Line!Request(c)
  BY <1>1 DEF Line!Request, Line!Data, Line!Step
<1>6. MessageOK(m)' /\ \A q \in LineMessages : q.from # m.from /\ MessageOK(q) => MessageOK(q)'
  BY <1>1, <1>2, <1>3, <1>5, LineTypeFacts DEF MessageOK
<1>7. /\ line_mailbox' \in Seq(LineMessages) /\ LineMailboxOK' /\ (First => First')
      /\ \A i \in 1 .. Len(line_mailbox') : line_mailbox'[i].from = Line!Rx => i \in 1 .. Len(line_mailbox) /\ line_mailbox'[i] = line_mailbox[i]
  <2>1. /\ line_mailbox' \in Seq(LineMessages) /\ LineMailboxOK' /\ (First => First')
        /\ Len(line_mailbox') = Len(line_mailbox) + 1 /\ line_mailbox'[Len(line_mailbox) + 1] = m
        /\ \A i \in 1 .. Len(line_mailbox) : line_mailbox'[i] = line_mailbox[i]
    BY <1>1, <1>3, <1>4, <1>6, AppendFacts
  <2>2. QED
    BY <1>3, <2>1, LineTypeFacts
<1>8. Line!TypeOK'
  BY <1>1, <1>2, <1>7 DEF LineInv, Line!TypeOK, LineMessages
<1>9. LockOK' /\ IntrOK' /\ FlagsOK'
  BY <1>1, <1>2 DEF LineInv, LockOK, IntrOK, FlagsOK, Line!Step
<1>10. LineOK'
  BY <1>1, <1>2 DEF LineInv, LineOK, Clear
<1>11. WaitingOK'
  BY <1>1, <1>2, <1>7 DEF LineInv, WaitingOK, Reading, Line!Step, Line!Data
<1>12. ASSUME AnswerOK PROVE AnswerOK'
  <2>1. (Quiet => Quiet') /\ \A k \in 1 .. Bytes : Expecting(k) => Expecting(k)'
    BY <1>1, <1>2, <1>7 DEF Quiet, Asked, Expecting
  <2>2. QED
    BY <1>1, <1>12, <2>1, AnswerFrame DEF AnswerOK
<1>13. QED
  BY <1>7, <1>8, <1>9, <1>10, <1>11, <1>12 DEF LineInv

LEMMA RxSendsInv ==
  ASSUME Line!Uart1Assumption, LineInv, Line!RxSends
  PROVE  LineInv' /\ (AnswerOK => AnswerOK')
<1>1. PICK m : m = [from |-> Line!Rx, type |-> "NOTIFIER_RX_GOOD", data |-> rdr]
  OBVIOUS
<1>2. /\ line_notifier[Line!Rx] = "woken"
      /\ line_notifier' = [line_notifier EXCEPT ![Line!Rx] = "sent"]
      /\ line_mailbox' = Append(line_mailbox, m) /\ rdr' = Line!NoByte
      /\ UNCHANGED <<line_owned_by, line_lock_cb, can_send, want_send, send_buffer, uart1_tx_flag, intr>>
      /\ UNCHANGED <<thr, cts, dcts, controller, toSend, line_client, pc, result>>
  BY <1>1 DEF Line!RxSends, Line!server, Line!kernel, Line!tasks
<1>3. /\ line_notifier' \in [{Line!Tx, Line!Rx} -> {"woken", "sent", "held", "released", "awaiting"}]
      /\ line_notifier'[Line!Rx] = "sent" /\ line_notifier'[Line!Tx] = line_notifier[Line!Tx]
  BY <1>2, LineTypeFacts
<1>4. m \in LineMessages /\ m.from = Line!Rx /\ m.type = "NOTIFIER_RX_GOOD" /\ m.data = rdr /\ rdr \in 0 .. Bytes
  BY <1>1, LineTypeFacts DEF LineMessages
<1>5. \A i \in 1 .. Len(line_mailbox) : line_mailbox[i].from # m.from
  BY <1>2, <1>4 DEF LineInv, LineMailboxOK, MessageOK
<1>6. \A c : Line!Request(c)' = Line!Request(c)
  BY <1>2 DEF Line!Request, Line!Data, Line!Step
<1>7. MessageOK(m)' /\ \A q \in LineMessages : q.from # m.from /\ MessageOK(q) => MessageOK(q)'
  BY <1>2, <1>3, <1>4, <1>6, LineTypeFacts DEF MessageOK
<1>8. /\ line_mailbox' \in Seq(LineMessages) /\ LineMailboxOK'
      /\ line_mailbox # <<>> => line_mailbox' # <<>> /\ line_mailbox'[1] = line_mailbox[1]
      /\ \A i \in 1 .. Len(line_mailbox') : line_mailbox'[i].from = Line!Rx => line_mailbox'[i].data = rdr
  <2>1. /\ line_mailbox' \in Seq(LineMessages) /\ LineMailboxOK'
        /\ line_mailbox # <<>> => line_mailbox' # <<>> /\ line_mailbox'[1] = line_mailbox[1]
        /\ Len(line_mailbox') = Len(line_mailbox) + 1 /\ line_mailbox'[Len(line_mailbox) + 1] = m
        /\ \A i \in 1 .. Len(line_mailbox) : line_mailbox'[i] = line_mailbox[i]
    BY <1>2, <1>4, <1>5, <1>7, AppendFacts
  <2>2. QED
    BY <1>4, <1>5, <2>1, LineTypeFacts
<1>9. Line!TypeOK'
  <2>1. rdr' \in 0 .. Bytes
    BY <1>2, LineTypeFacts
  <2>2. QED
    BY <1>2, <1>3, <1>8, <2>1 DEF LineInv, Line!TypeOK, LineMessages
<1>10. LockOK' /\ IntrOK' /\ FlagsOK'
  BY <1>2, <1>3 DEF LineInv, LockOK, IntrOK, FlagsOK, Line!Step
<1>11. LineOK'
  BY <1>2, <1>3, <1>8 DEF LineInv, LineOK, Clear
<1>12. WaitingOK'
  BY <1>2, <1>3 DEF LineInv, WaitingOK, Reading, Line!Step, Line!Data
<1>13. ASSUME AnswerOK PROVE AnswerOK'
  <2>1. Quiet => Quiet'
    BY <1>2 DEF Quiet, Asked
  <2>2. ASSUME NEW k \in 1 .. Bytes, Expecting(k) PROVE Expecting(k)'
    <3>1. ~Asked /\ rdr = k /\ Bytes - toSend = k /\ k \in Nat
      BY <1>2, <2>2, LineTypeFacts DEF Expecting
    <3>2. ~Asked' /\ rdr' = Line!NoByte /\ Bytes - toSend' = (k + 1) - 1
      BY <1>2, <3>1 DEF Asked
    <3>3. QED
      BY <1>3, <1>8, <3>1, <3>2 DEF Expecting
  <2>3. QED
    BY <1>2, <1>13, <2>1, <2>2, AnswerFrame DEF AnswerOK
<1>14. QED
  BY <1>8, <1>9, <1>10, <1>11, <1>12, <1>13 DEF LineInv

LEMMA CallInv ==
  ASSUME Line!Uart1Assumption, LineInv, NEW c \in Clients, Line!Call(c)
  PROVE  LineInv' /\ (AnswerOK => AnswerOK')
<1>1. PICK m : m = Line!Request(c)
  OBVIOUS
<1>2. /\ line_client[c] = "ready" /\ line_client' = [line_client EXCEPT ![c] = "sent"]
      /\ line_mailbox' = Append(line_mailbox, m)
      /\ UNCHANGED <<line_owned_by, line_lock_cb, can_send, want_send, send_buffer, uart1_tx_flag, intr>>
      /\ UNCHANGED <<line_notifier, thr, rdr, cts, dcts, controller, toSend, pc, result>>
  BY <1>1 DEF Line!Call, Line!server, Line!kernel, Line!line
<1>3. /\ line_client' \in [Clients -> {"ready", "sent", "received"}]
      /\ line_client'[c] = "sent" /\ \A d \in Clients \ {c} : line_client'[d] = line_client[d]
  BY <1>2, LineTypeFacts
<1>4. m \in LineMessages /\ m.from = c
  <2>1. /\ Line!Step(c) \in {"put", "ask", "get", "release"} /\ Line!NoByte \in 0 .. Bytes
        /\ Line!Ask \in Line!Sent /\ Line!Command \in Line!Sent
    BY LineTypeFacts
  <2>2. m.type \in {"SEND_CHAR", "GET_CHAR", "RELEASE_LOCK"} /\ m.data \in Line!Sent \cup 0 .. Bytes
    BY <1>1, <2>1 DEF Line!Request, Line!Data
  <2>3. QED
    BY <1>1, <2>2 DEF Line!Request, LineMessages
<1>5. \A d : Line!Request(d)' = Line!Request(d)
  BY <1>2 DEF Line!Request, Line!Data, Line!Step
<1>6. c # Line!Tx /\ c # Line!Rx /\ m = Line!Request(c)
  BY <1>1, LineTypeFacts
<1>7. \A i \in 1 .. Len(line_mailbox) : line_mailbox[i].from # m.from
  BY <1>2, <1>4 DEF LineInv, LineMailboxOK, MessageOK
<1>8. MessageOK(m)' /\ \A q \in LineMessages : q.from # m.from /\ MessageOK(q) => MessageOK(q)'
  BY <1>2, <1>3, <1>4, <1>5, <1>6 DEF MessageOK
<1>9. /\ line_mailbox' \in Seq(LineMessages) /\ LineMailboxOK' /\ (First => First')
      /\ line_mailbox # <<>> => line_mailbox' # <<>> /\ line_mailbox'[1] = line_mailbox[1]
      /\ \A i \in 1 .. Len(line_mailbox') : line_mailbox'[i].from = Line!Rx => i \in 1 .. Len(line_mailbox) /\ line_mailbox'[i] = line_mailbox[i]
  <2>1. /\ line_mailbox' \in Seq(LineMessages) /\ LineMailboxOK' /\ (First => First')
        /\ line_mailbox # <<>> => line_mailbox' # <<>> /\ line_mailbox'[1] = line_mailbox[1]
        /\ Len(line_mailbox') = Len(line_mailbox) + 1 /\ line_mailbox'[Len(line_mailbox) + 1] = m
        /\ \A i \in 1 .. Len(line_mailbox) : line_mailbox'[i] = line_mailbox[i]
    BY <1>2, <1>4, <1>7, <1>8, AppendFacts
  <2>2. ASSUME NEW i \in 1 .. Len(line_mailbox'), line_mailbox'[i].from = Line!Rx
        PROVE  i \in 1 .. Len(line_mailbox) /\ line_mailbox'[i] = line_mailbox[i]
    <3>1. line_mailbox'[Len(line_mailbox) + 1].from # Line!Rx
      BY <1>4, <1>6, <2>1
    <3>2. Len(line_mailbox) \in Nat
      BY LineTypeFacts
    <3>3. i # Len(line_mailbox) + 1
      BY <2>2, <3>1
    <3>4. i \in 1 .. Len(line_mailbox)
      BY <2>1, <3>2, <3>3
    <3>5. QED
      BY <2>1, <3>4
  <2>3. QED
    BY <2>1, <2>2
<1>10. Line!TypeOK'
  BY <1>2, <1>3, <1>9 DEF LineInv, Line!TypeOK, LineMessages
<1>11. \A d \in Clients : line_client'[d] = "received" <=> line_client[d] = "received"
  BY <1>2, <1>3
<1>12. LockOK'
  <2>1. want_send => line_owned_by \in Clients
    BY DEF LineInv, WaitingOK
  <2>2. QED
    BY <1>2, <1>11, <2>1 DEF LineInv, LockOK, Line!Step
<1>13. IntrOK' /\ FlagsOK'
  BY <1>2 DEF LineInv, IntrOK, FlagsOK
<1>14. LineOK'
  BY <1>2, <1>9 DEF LineInv, LineOK, Clear
<1>15. WaitingOK'
  BY <1>2, <1>9, <1>11 DEF LineInv, WaitingOK, Reading, Line!Step, Line!Data
<1>16. ASSUME AnswerOK PROVE AnswerOK'
  <2>1. (Quiet => Quiet') /\ \A k \in 1 .. Bytes : Expecting(k) => Expecting(k)'
    BY <1>2, <1>9 DEF Quiet, Asked, Expecting
  <2>2. QED
    BY <1>2, <1>16, <2>1, AnswerFrame DEF AnswerOK
<1>17. QED
  BY <1>9, <1>10, <1>12, <1>13, <1>14, <1>15, <1>16 DEF LineInv
-----------------------------------------------------------------------------
(* The server *)

\* What TransmitsWhenClear, RepliesAwaited and ReadsInOrder say of a step.
ClearStep == thr' \notin {Line!NoByte, thr} => Clear

RepliesStep ==
  /\ \A c \in Clients : line_client[c] # "ready" /\ line_client'[c] = "ready" =>
       line_client[c] = "received" \/ Head(line_mailbox).from = c
  /\ \A c \in Clients : pc'[c] # pc[c] => line_client[c] # "ready"
  /\ \A n \in {Line!Tx, Line!Rx} : line_notifier[n] # "released" /\ line_notifier'[n] = "released" =>
       line_notifier[n] = "held" \/ Head(line_mailbox).from = n

ReadsStep ==
  \A c \in Clients : pc'[c] # pc[c] /\ Line!Step(c) = "get" =>
    LET asks == {i \in 1 .. pc[c] : Program[c][i] = "ask"}
        ask == CHOOSE i \in asks : \A j \in asks : j <= i
    IN  result'[c] = pc[c] - ask

Served == LineInv' /\ ClearStep /\ RepliesStep /\ (AnswerOK => AnswerOK' /\ ReadsStep)

\* The message at the head of the mailbox, and those behind it.
LEMMA LineReceivedFacts ==
  ASSUME Line!Uart1Assumption, LineInv, NEW m, Line!Received(m)
  PROVE  /\ m \in LineMessages /\ MessageOK(m) /\ m = Head(line_mailbox) /\ line_mailbox # <<>>
         /\ m = line_mailbox[1]
         /\ line_mailbox' \in Seq(LineMessages) /\ Len(line_mailbox') \in Nat
         /\ \A i \in 1 .. Len(line_mailbox') :
              /\ i + 1 \in 1 .. Len(line_mailbox) /\ line_mailbox'[i] = line_mailbox[i + 1]
              /\ line_mailbox'[i].from # m.from
         /\ First /\ m.from = Line!Tx /\ UNCHANGED line_owned_by => First'
         /\ m.from \notin {Line!Tx, Line!Rx} => m.from \in Clients /\ ~First
<1>1. line_mailbox # <<>> /\ m = Head(line_mailbox) /\ line_mailbox' = Tail(line_mailbox) /\ line_mailbox \in Seq(LineMessages)
  BY LineTypeFacts DEF Line!Received
<1>2. /\ Len(line_mailbox) \in Nat /\ 1 \in 1 .. Len(line_mailbox) /\ m = line_mailbox[1]
      /\ line_mailbox' \in Seq(LineMessages) /\ Len(line_mailbox') = Len(line_mailbox) - 1
      /\ Len(line_mailbox') \in Nat
      /\ \A i \in 1 .. Len(line_mailbox') : i + 1 \in 1 .. Len(line_mailbox) /\ line_mailbox'[i] = line_mailbox[i + 1]
  BY <1>1
<1>3. m \in LineMessages /\ (m.from \in {Line!Tx, Line!Rx} \/ m.from \in Clients)
  BY <1>2, LineTypeFacts DEF LineMessages
<1>4. MessageOK(m)
  BY <1>2 DEF LineInv, LineMailboxOK
<1>5. \A i \in 1 .. Len(line_mailbox') : line_mailbox'[i].from # m.from
  <2>1. \A i \in 1 .. Len(line_mailbox) : line_mailbox[i].from = line_mailbox[1].from => i = 1
    BY <1>2 DEF LineInv, LineMailboxOK
  <2>2. QED
    BY <1>2, <2>1
<1>6. ASSUME First, m.from = Line!Tx, UNCHANGED line_owned_by PROVE First'
  <2>1. 2 <= Len(line_mailbox) /\ line_mailbox[2].from = Line!Rx
    BY <1>2, <1>6, LineTypeFacts DEF First
  <2>2. 1 <= Len(line_mailbox') /\ line_mailbox'[1] = line_mailbox[2]
    BY <1>2, <2>1
  <2>3. QED
    BY <1>6, <2>1, <2>2 DEF First
<1>7. First => m.from \in {Line!Tx, Line!Rx}
  BY <1>2 DEF First
<1>8. QED
  BY <1>1, <1>2, <1>3, <1>4, <1>5, <1>6, <1>7

\* The replies go to tasks that wait, and leave the other messages as they are.
LEMMA ReplyFacts ==
  ASSUME Line!Uart1Assumption, LineInv, NEW m, Line!Received(m), NEW C \in SUBSET Clients,
         NEW d \in 0 .. Bytes, NEW N \in SUBSET {Line!Tx, Line!Rx}, Line!Reply(m, C, d, N),
         \A c \in C : c = m.from \/ line_client[c] = "received",
         \A n \in N : n = m.from \/ line_notifier[n] = "held"
  PROVE  /\ line_client' \in [Clients -> {"ready", "sent", "received"}]
         /\ result' \in [Clients -> 0 .. Bytes]
         /\ line_notifier' \in [{Line!Tx, Line!Rx} -> {"woken", "sent", "held", "released", "awaiting"}]
         /\ \A c \in Clients :
              /\ line_client'[c] = IF c \in C THEN "ready" ELSE IF c = m.from THEN "received" ELSE line_client[c]
              /\ pc'[c] = (IF c \in C THEN After(c, pc[c]) ELSE pc[c])
              /\ pc'[c] \in 1 .. Len(Program[c])
              /\ c \in C => result'[c] = d
         /\ \A n \in {Line!Tx, Line!Rx} :
              line_notifier'[n] = IF n \in N THEN "released" ELSE IF n = m.from THEN "held" ELSE line_notifier[n]
         /\ line_mailbox' \in Seq(LineMessages) /\ LineMailboxOK' /\ RepliesStep
<1>1. /\ line_client' = [c \in Clients |-> IF c \in C THEN "ready" ELSE Line!Clients1(m)[c]]
      /\ pc' = [c \in Clients |-> IF c \notin C THEN pc[c]
                                  ELSE IF pc[c] = Len(Program[c]) THEN 1 ELSE pc[c] + 1]
      /\ result' = [c \in Clients |-> IF c \in C THEN d ELSE result[c]]
      /\ line_notifier' = [n \in {Line!Tx, Line!Rx} |-> IF n \in N THEN "released" ELSE Line!Notifiers1(m)[n]]
  BY DEF Line!Reply
<1>2. \A c \in Clients : Line!Clients1(m)[c] = IF c = m.from THEN "received" ELSE line_client[c]
  BY LineTypeFacts DEF Line!Clients1
<1>3. \A n \in {Line!Tx, Line!Rx} : Line!Notifiers1(m)[n] = IF n = m.from THEN "held" ELSE line_notifier[n]
  BY LineTypeFacts DEF Line!Notifiers1
<1>4. /\ line_client' \in [Clients -> {"ready", "sent", "received"}]
      /\ \A c \in Clients :
           line_client'[c] = IF c \in C THEN "ready" ELSE IF c = m.from THEN "received" ELSE line_client[c]
  BY <1>1, <1>2, LineTypeFacts
<1>5. /\ line_notifier' \in [{Line!Tx, Line!Rx} -> {"woken", "sent", "held", "released", "awaiting"}]
      /\ \A n \in {Line!Tx, Line!Rx} :
           line_notifier'[n] = IF n \in N THEN "released" ELSE IF n = m.from THEN "held" ELSE line_notifier[n]
  BY <1>1, <1>3, LineTypeFacts
<1>6. /\ result' \in [Clients -> 0 .. Bytes]
      /\ \A c \in C : result'[c] = d
  <2>1. result \in [Clients -> 0 .. Bytes]
    BY DEF LineInv, Line!TypeOK
  <2>2. QED
    BY <1>1, <2>1
<1>7. ASSUME NEW c \in Clients
      PROVE  pc'[c] = (IF c \in C THEN After(c, pc[c]) ELSE pc[c]) /\ pc'[c] \in 1 .. Len(Program[c])
  <2>1. pc'[c] = IF c \in C THEN After(c, pc[c]) ELSE pc[c]
    BY <1>1 DEF After
  <2>2. pc[c] \in 1 .. Len(Program[c]) /\ After(c, pc[c]) \in 1 .. Len(Program[c])
    BY LineTypeFacts, AfterFacts
  <2>3. QED
    BY <2>1, <2>2
<1>8. ASSUME NEW q \in LineMessages, MessageOK(q), q.from # m.from PROVE MessageOK(q)'
  <2>1. CASE q.from \in Clients
    <3>1. line_client[q.from] = "sent" /\ q = Line!Request(q.from) /\ q.from \notin C
      BY <1>8, <2>1 DEF MessageOK
    <3>2. line_client'[q.from] = "sent" /\ pc'[q.from] = pc[q.from]
      BY <1>4, <1>7, <1>8, <2>1, <3>1
    <3>3. Line!Request(q.from)' = Line!Request(q.from)
      BY <3>2 DEF Line!Request, Line!Data, Line!Step
    <3>4. QED
      BY <2>1, <3>1, <3>2, <3>3, LineTypeFacts DEF MessageOK
  <2>2. CASE q.from \notin Clients
    BY <1>5, <1>8, <2>2, LineTypeFacts DEF MessageOK
  <2>3. QED
    BY <2>1, <2>2
<1>9. line_mailbox' \in Seq(LineMessages) /\ LineMailboxOK'
  <2>1. ASSUME NEW q, \E i \in 1 .. Len(line_mailbox') : q = line_mailbox'[i] PROVE MessageOK(q)'
    <3>1. PICK i \in 1 .. Len(line_mailbox') : q = line_mailbox'[i]
      BY <2>1
    <3>2. i + 1 \in 1 .. Len(line_mailbox) /\ q = line_mailbox[i + 1] /\ q.from # m.from
      BY <3>1, LineReceivedFacts
    <3>3. q \in LineMessages /\ MessageOK(q)
      BY <3>2, LineTypeFacts DEF LineInv, LineMailboxOK
    <3>4. QED
      BY <1>8, <3>2, <3>3
  <2>2. ASSUME NEW i \in 1 .. Len(line_mailbox'), NEW j \in 1 .. Len(line_mailbox'),
               line_mailbox'[i].from = line_mailbox'[j].from
        PROVE  i = j
    <3>1. /\ i + 1 \in 1 .. Len(line_mailbox) /\ line_mailbox'[i] = line_mailbox[i + 1]
          /\ j + 1 \in 1 .. Len(line_mailbox) /\ line_mailbox'[j] = line_mailbox[j + 1]
      BY LineReceivedFacts
    <3>2. i + 1 = j + 1
      BY <2>2, <3>1 DEF LineInv, LineMailboxOK
    <3>3. QED
      BY <3>2
  <2>3. \A i \in 1 .. Len(line_mailbox') : \E j \in 1 .. Len(line_mailbox') : line_mailbox'[i] = line_mailbox'[j]
    OBVIOUS
  <2>4. QED
    BY <2>1, <2>2, <2>3, LineReceivedFacts DEF LineMailboxOK, MessageOK, Line!Request, Line!Data, Line!Step
<1>10. RepliesStep
  <2>1. m = Head(line_mailbox)
    BY LineReceivedFacts
  <2>2. \A c \in C : line_client[c] = "received" \/ m.from = c
    OBVIOUS
  <2>3. \A c \in C : line_client[c] # "ready"
    <3>1. m.from \in Clients => line_client[m.from] = "sent"
      BY LineReceivedFacts DEF MessageOK
    <3>2. QED
      BY <2>2, <3>1
  <2>4. QED
    BY <1>4, <1>5, <1>7, <2>1, <2>2, <2>3 DEF RepliesStep
<1>11. QED
  BY <1>4, <1>5, <1>6, <1>7, <1>9, <1>10

\* A byte that is read is the one that was expected.
LEMMA ReadsFacts ==
  ASSUME Line!Uart1Assumption, LineInv, NEW C \in SUBSET Clients, NEW d,
         \A c \in Clients : pc'[c] # pc[c] => c \in C, \A c \in C : result'[c] = d,
         \A c \in C : Line!Step(c) = "get" => \A k \in 1 .. Bytes : At(c, pc[c], k) => d = k
  PROVE  ReadsStep
<1> SUFFICES ASSUME NEW c \in Clients, pc'[c] # pc[c], Line!Step(c) = "get"
             PROVE  LET asks == {i \in 1 .. pc[c] : Program[c][i] = "ask"}
                        ask == CHOOSE i \in asks : \A j \in asks : j <= i
                    IN  result'[c] = pc[c] - ask
  BY DEF ReadsStep
<1> DEFINE asks == {i \in 1 .. pc[c] : Program[c][i] = "ask"}
           ask == CHOOSE i \in asks : \A j \in asks : j <= i
<1>1. pc[c] \in 1 .. Len(Program[c]) /\ Program[c][pc[c]] = "get"
  BY LineTypeFacts DEF Line!Step
<1>2. PICK k \in 1 .. Bytes : At(c, pc[c], k)
  BY <1>1, ProgramFacts
<1>3. result'[c] = k
  BY <1>2
<1>4. pc[c] - ask = k
  BY <1>1, <1>2, LastAsk
<1>5. QED
  BY <1>3, <1>4

\* Nothing is on its way, and the task that has the line next does not read.
LEMMA QuietAnswer ==
  ASSUME AnswerOK, Quiet, UNCHANGED <<thr, controller, rdr, toSend>>,
         \A c \in Clients : line_owned_by' = c => Program[c][pc'[c]] # "get"
  PROVE  AnswerOK'
<1>1. Quiet'
  BY DEF Quiet, Asked
<1>2. QED
  BY <1>1 DEF AnswerOK, Line!Step

\* c's byte is put in the transmit register.
LEMMA PutAnswer ==
  ASSUME Line!Uart1Assumption, LineInv, AnswerOK, Quiet, Clear,
         NEW c \in Clients, Line!Step(c) \in {"put", "ask"}, line_owned_by' = c,
         pc'[c] = After(c, pc[c]), thr' = Line!Data(c), UNCHANGED <<controller, rdr, toSend>>,
         line_notifier'[Line!Rx] \notin {"sent", "woken"}
  PROVE  AnswerOK'
<1> DEFINE n == After(c, pc[c])
<1>1. controller[2] = Line!NoByte /\ toSend = 0 /\ rdr = Line!NoByte
  BY DEF AnswerOK, Clear, Quiet
<1>2. pc[c] \in 1 .. Len(Program[c]) /\ Line!Step(c) = Program[c][pc[c]] /\ Line!Ask # Line!NoByte /\ Line!Command # Line!Ask
  BY LineTypeFacts DEF Line!Step, Line!Ask, Line!NoByte, Line!Command
<1>3. CASE Line!Step(c) = "put"
  <2>1. Program[c][n] # "get"
    BY <1>2, <1>3, AfterFacts
  <2>2. thr' # Line!Ask
    BY <1>2, <1>3 DEF Line!Data
  <2>3. Quiet'
    BY <1>1, <1>2, <2>2 DEF Quiet, Asked
  <2>4. QED
    BY <1>1, <2>1, <2>3 DEF AnswerOK, Line!Step
<1>4. CASE Line!Step(c) = "ask"
  <2>1. Program[c][n] = "get" /\ \A k \in 1 .. Bytes : At(c, n, k) => k = 1
    BY <1>2, <1>4, AfterFacts
  <2>2. Asked'
    BY <1>4, LineTypeFacts DEF Asked
  <2>3. \A k \in 1 .. Bytes : At(c, n, k) => Expecting(k)'
    BY <1>1, <2>1, <2>2 DEF Expecting
  <2>4. QED
    BY <1>1, <2>1, <2>3 DEF AnswerOK, Line!Step
<1>5. QED
  BY <1>3, <1>4

\* The owner c has read byte k.
LEMMA ReadAnswer ==
  ASSUME Line!Uart1Assumption, LineInv, AnswerOK, NEW c \in Clients, Line!Step(c) = "get",
         line_owned_by' = c, pc'[c] = After(c, pc[c]), NEW k \in 1 .. Bytes, At(c, pc[c], k),
         ~Asked, UNCHANGED <<thr, controller, toSend>>,
         line_notifier'[Line!Rx] \notin {"sent", "woken"},
         \A i \in 1 .. Len(line_mailbox') : line_mailbox'[i].from # Line!Rx,
         \/ rdr' = Line!NoByte /\ Bytes - toSend = k
         \/ rdr' = k + 1 /\ Bytes - toSend = k + 1
  PROVE  AnswerOK'
<1> DEFINE n == After(c, pc[c])
<1>1. /\ pc[c] \in 1 .. Len(Program[c]) /\ Line!Step(c) = Program[c][pc[c]]
      /\ Bytes \in Nat /\ toSend \in 0 .. Bytes
  BY LineTypeFacts DEF Line!Step
<1>2. /\ Program[c][n] = "get" <=> k < Bytes
      /\ Program[c][n] = "get" => \A l \in 1 .. Bytes : At(c, n, l) => l = k + 1
  BY <1>1, AfterFacts
<1>3. ~Asked' /\ (controller'[1] = "clear" => controller'[2] = Line!NoByte)
  BY DEF Asked, AnswerOK
<1>4. CASE k < Bytes
  <2>1. Expecting(k + 1)'
    BY <1>1, <1>3, <1>4 DEF Expecting
  <2>2. \A l \in 1 .. Bytes : At(c, n, l) => Expecting(l)'
    BY <1>2, <1>4, <2>1
  <2>3. QED
    BY <1>2, <1>3, <1>4, <2>2 DEF AnswerOK, Line!Step
<1>5. CASE ~(k < Bytes)
  <2>1. Quiet'
    BY <1>1, <1>3, <1>5 DEF Quiet, Line!NoByte
  <2>2. QED
    BY <1>2, <1>3, <1>5, <2>1 DEF AnswerOK, Line!Step
<1>6. QED
  BY <1>4, <1>5

\* The owner that waits for a byte has a place in an answer.
LEMMA AnswerFacts ==
  ASSUME Line!Uart1Assumption, LineInv, AnswerOK
  PROVE  /\ \A c \in Clients : line_owned_by = c /\ Line!Step(c) = "get" =>
              \E k \in 1 .. Bytes : At(c, pc[c], k) /\ Expecting(k)
         /\ (\A c \in Clients : line_owned_by = c => Line!Step(c) # "get") => Quiet
<1>1. ASSUME NEW c \in Clients, line_owned_by = c, Line!Step(c) = "get"
      PROVE  \E k \in 1 .. Bytes : At(c, pc[c], k) /\ Expecting(k)
  <2>1. PICK k \in 1 .. Bytes : At(c, pc[c], k)
    BY <1>1, LineTypeFacts, ProgramFacts DEF Line!Step
  <2>2. QED
    BY <1>1, <2>1 DEF AnswerOK
<1>2. QED
  BY <1>1 DEF AnswerOK

\* The lock stays, and nobody but its owner is replied to.
LEMMA LockKept ==
  ASSUME Line!Uart1Assumption, LineInv, UNCHANGED <<line_lock_cb, line_owned_by>>,
         \A d \in Clients : d # line_owned_by =>
           pc'[d] = pc[d] /\ (line_client'[d] = "received" <=> line_client[d] = "received"),
         want_send' => /\ want_send /\ ~can_send' /\ line_owned_by \in Clients
                       /\ line_client'[line_owned_by] = "received"
                       /\ pc'[line_owned_by] = pc[line_owned_by]
  PROVE  LockOK'
<1>1. {c \in Clients : line_client'[c] = "received" /\ line_owned_by' # c}
        = {c \in Clients : line_client[c] = "received" /\ line_owned_by # c}
  OBVIOUS
<1>2. Elements(line_lock_cb)' = Elements(line_lock_cb) /\ (Distinct(line_lock_cb)' <=> Distinct(line_lock_cb))
  BY DEF Elements, Distinct
<1>3. ASSUME NEW d \in Clients, Program[d][pc'[d]] \in {"get", "release"} PROVE line_owned_by = d
  BY <1>3 DEF LineInv, LockOK, Line!Step
<1>4. want_send' => ~can_send' /\ line_client'[line_owned_by'] = "received"
                    /\ Program[line_owned_by'][pc'[line_owned_by']] \in {"put", "ask"}
  BY DEF LineInv, LockOK, Line!Step
<1>5. QED
  BY <1>1, <1>2, <1>3, <1>4 DEF LineInv, LockOK, Line!Step

\* Whoever asks the server for something is not the owner that waits for a byte, so the
\* receive notifier waits for its reply.
LEMMA ClientFacts ==
  ASSUME Line!Uart1Assumption, LineInv, NEW m, Line!Received(m), m.from \notin {Line!Tx, Line!Rx},
         m.type = "SEND_CHAR" => line_owned_by \in {NoOwner, m.from}
  PROVE  /\ m.from \in Clients /\ line_client[m.from] = "sent" /\ m = Line!Request(m.from)
         /\ m.type = "SEND_CHAR" <=> Line!Step(m.from) \in {"put", "ask"}
         /\ m.type = "GET_CHAR" <=> Line!Step(m.from) = "get"
         /\ m.type = "RELEASE_LOCK" <=> Line!Step(m.from) = "release"
         /\ m.data = Line!Data(m.from)
         /\ line_owned_by \in {NoOwner, m.from} /\ ~Reading /\ line_notifier[Line!Rx] = "held"
         /\ want_send = FALSE
         /\ can_send => Clear /\ line_notifier[Line!Tx] = "held"
<1>1. m.from \in Clients /\ ~First /\ MessageOK(m)
  BY LineReceivedFacts
<1>2. line_client[m.from] = "sent" /\ m = Line!Request(m.from)
  BY <1>1 DEF MessageOK
<1>3. Line!Step(m.from) \in {"put", "ask", "get", "release"}
  BY <1>1, LineTypeFacts
<1>4. /\ m.type = "SEND_CHAR" <=> Line!Step(m.from) \in {"put", "ask"}
      /\ m.type = "GET_CHAR" <=> Line!Step(m.from) = "get"
      /\ m.type = "RELEASE_LOCK" <=> Line!Step(m.from) = "release"
      /\ m.data = Line!Data(m.from)
  BY <1>2, <1>3 DEF Line!Request
<1>5. line_owned_by \in {NoOwner, m.from}
  BY <1>1, <1>3, <1>4 DEF LineInv, LockOK
<1>6. ~Reading
  BY <1>1, <1>2, <1>5, LineTypeFacts DEF Reading
<1>7. line_notifier[Line!Rx] = "held"
  BY <1>1, <1>6, LineTypeFacts DEF LineInv, WaitingOK
<1>8. want_send = FALSE
  <2>1. want_send \in BOOLEAN /\ (want_send => line_owned_by \in Clients)
    BY DEF LineInv, Line!TypeOK, WaitingOK
  <2>2. want_send => line_client[line_owned_by] = "received"
    BY DEF LineInv, LockOK
  <2>3. QED
    BY <1>2, <1>5, <2>1, <2>2, LineTypeFacts
<1>9. can_send => Clear /\ line_notifier[Line!Tx] = "held"
  BY LineReceivedFacts DEF LineInv, LineOK
<1>10. QED
  BY <1>1, <1>2, <1>4, <1>5, <1>6, <1>7, <1>8, <1>9

LEMMA RxGoodInv ==
  ASSUME Line!Uart1Assumption, LineInv, NEW m, Line!RxGood(m)
  PROVE  Served
<1> DEFINE C == IF line_owned_by = NoOwner THEN {} ELSE {line_owned_by}
           N == {}
<1>1. /\ Line!Received(m) /\ m.type = "NOTIFIER_RX_GOOD" /\ Line!Reply(m, C, m.data, N)
      /\ UNCHANGED <<line_owned_by, line_lock_cb, can_send, want_send, send_buffer, uart1_tx_flag, intr>>
      /\ UNCHANGED <<thr, rdr, cts, dcts, controller, toSend>>
  BY DEF Line!RxGood, Line!server, Line!kernel, Line!line
<1>2. m.from = Line!Rx /\ line_notifier[Line!Rx] = "sent" /\ m.data \in 0 .. Bytes
  <2>1. m \in LineMessages /\ MessageOK(m) /\ (m.from \notin {Line!Tx, Line!Rx} => m.from \in Clients)
    BY <1>1, LineReceivedFacts
  <2>2. m.from \in Clients => m.type # "NOTIFIER_RX_GOOD"
    <3>1. m.from \in Clients => Line!Step(m.from) \in {"put", "ask", "get", "release"}
      BY LineTypeFacts
    <3>2. QED
      BY <2>1, <3>1 DEF MessageOK, Line!Request
  <2>3. QED
    BY <1>1, <2>1, <2>2 DEF MessageOK
<1>3. line_owned_by # NoOwner => Reading
  BY <1>2 DEF LineInv, WaitingOK, First
<1>4. C \in SUBSET Clients /\ \A c \in C : line_client[c] = "received" /\ Line!Step(c) = "get" /\ line_owned_by = c
  BY <1>3, LineTypeFacts DEF Reading
<1> HIDE DEF C
<1>5. N \in SUBSET {Line!Tx, Line!Rx} /\ \A n \in N : n = m.from \/ line_notifier[n] = "held"
  OBVIOUS
<1> HIDE DEF N
<1>6. /\ line_client' \in [Clients -> {"ready", "sent", "received"}]
      /\ result' \in [Clients -> 0 .. Bytes]
      /\ line_notifier' \in [{Line!Tx, Line!Rx} -> {"woken", "sent", "held", "released", "awaiting"}]
      /\ \A c \in Clients :
           /\ line_client'[c] = IF c \in C THEN "ready" ELSE IF c = m.from THEN "received" ELSE line_client[c]
           /\ pc'[c] = (IF c \in C THEN After(c, pc[c]) ELSE pc[c])
           /\ pc'[c] \in 1 .. Len(Program[c])
           /\ c \in C => result'[c] = m.data
      /\ \A n \in {Line!Tx, Line!Rx} :
           line_notifier'[n] = IF n \in N THEN "released" ELSE IF n = m.from THEN "held" ELSE line_notifier[n]
      /\ line_mailbox' \in Seq(LineMessages) /\ LineMailboxOK' /\ RepliesStep
  BY <1>1, <1>2, <1>4, <1>5, ReplyFacts
<1>7. line_notifier'[Line!Rx] = "held" /\ line_notifier'[Line!Tx] = line_notifier[Line!Tx]
  BY <1>2, <1>6, LineTypeFacts DEF N
<1>8. \A c \in Clients : c # line_owned_by => line_client'[c] = line_client[c] /\ pc'[c] = pc[c]
  BY <1>2, <1>4, <1>6, LineTypeFacts
<1>9. want_send = FALSE
  <2>1. want_send \in BOOLEAN /\ (want_send => line_owned_by \in Clients /\ Line!Step(line_owned_by) \in {"put", "ask"})
    BY DEF LineInv, Line!TypeOK, WaitingOK, LockOK
  <2>2. QED
    BY <1>3, <2>1, LineTypeFacts DEF Reading
<1>10. Line!TypeOK'
  BY <1>1, <1>6 DEF LineInv, Line!TypeOK, LineMessages
<1>11. LockOK'
  BY <1>1, <1>8, <1>9, LockKept
<1>12. IntrOK' /\ FlagsOK'
  BY <1>1, <1>2, <1>7 DEF LineInv, IntrOK, FlagsOK
<1>13. LineOK'
  <2>1. can_send => line_notifier[Line!Tx] = "held"
    BY <1>1, <1>2, LineReceivedFacts, LineTypeFacts DEF LineInv, LineOK
  <2>2. QED
    BY <1>1, <1>7, <2>1 DEF LineInv, LineOK, Clear
<1>14. WaitingOK'
  <2>1. ASSUME NEW c \in Clients, line_client'[c] = "received", Program[c][pc'[c]] \in {"put", "ask"}
        PROVE  line_client[c] = "received" /\ pc'[c] = pc[c]
    BY <1>2, <1>6, <2>1, LineTypeFacts
  <2>2. QED
    BY <1>1, <1>7, <1>9, <2>1 DEF LineInv, WaitingOK, Line!Step, Line!Data
<1>15. ClearStep
  BY <1>1 DEF ClearStep
<1>16. ASSUME AnswerOK PROVE AnswerOK' /\ ReadsStep
  <2>1. CASE line_owned_by = NoOwner
    <3>1. C = {} /\ Quiet
      BY <2>1, <1>16, LineTypeFacts, AnswerFacts DEF C
    <3>2. ReadsStep
      BY <1>6, <3>1 DEF ReadsStep
    <3>3. AnswerOK'
      BY <1>1, <1>16, <2>1, <3>1, LineTypeFacts, QuietAnswer
    <3>4. QED
      BY <3>2, <3>3
  <2>2. CASE line_owned_by # NoOwner
    <3>1. line_owned_by \in Clients /\ Line!Step(line_owned_by) = "get" /\ C = {line_owned_by}
      BY <1>3, <2>2 DEF Reading, C
    <3>2. PICK k \in 1 .. Bytes : At(line_owned_by, pc[line_owned_by], k) /\ Expecting(k)
      BY <1>16, <3>1, AnswerFacts
    <3>3. 1 \in 1 .. Len(line_mailbox) /\ line_mailbox[1].from = Line!Rx /\ line_mailbox[1].data = m.data
      BY <1>1, <1>2, LineReceivedFacts, LineTypeFacts
    <3>4. /\ ~Asked /\ m.data = k /\ k \in Nat
          /\ \/ rdr = Line!NoByte /\ Bytes - toSend = (k + 1) - 1
             \/ rdr = k + 1 /\ Bytes - toSend = k + 1
      BY <1>2, <3>2, <3>3 DEF Expecting
    <3>5. \A i \in 1 .. Len(line_mailbox') : line_mailbox'[i].from # Line!Rx
      BY <1>1, <1>2, LineReceivedFacts
    <3>6. /\ pc'[line_owned_by] = After(line_owned_by, pc[line_owned_by])
          /\ \/ rdr' = Line!NoByte /\ Bytes - toSend = k
             \/ rdr' = k + 1 /\ Bytes - toSend = k + 1
      BY <1>1, <1>6, <3>1, <3>4, LineTypeFacts
    <3>7. AnswerOK'
      BY <1>1, <1>7, <1>16, <3>1, <3>2, <3>4, <3>5, <3>6, ReadAnswer
    <3>8. \A l \in 1 .. Bytes : At(line_owned_by, pc[line_owned_by], l) => m.data = l
      <4>1. ASSUME NEW l \in 1 .. Bytes, At(line_owned_by, pc[line_owned_by], l) PROVE m.data = l
        <5>1. Expecting(l)
          BY <1>16, <3>1, <4>1 DEF AnswerOK
        <5>2. QED
          BY <1>2, <3>3, <3>4, <5>1 DEF Expecting
      <4>2. QED
        BY <4>1
    <3>9. ReadsStep
      <4>1. /\ \A c \in Clients : pc'[c] # pc[c] => c \in C
            /\ \A c \in C : result'[c] = m.data
        BY <1>4, <1>6
      <4>2. \A c \in C : Line!Step(c) = "get" => \A l \in 1 .. Bytes : At(c, pc[c], l) => m.data = l
        BY <3>1, <3>8
      <4>3. QED
        BY <1>4, <4>1, <4>2, ReadsFacts
    <3>10. QED
      BY <3>7, <3>9
  <2>3. QED
    BY <2>1, <2>2
<1>17. QED
  BY <1>6, <1>10, <1>11, <1>12, <1>13, <1>14, <1>15, <1>16 DEF LineInv, Served

\* NOTIFIER_TX_GOOD comes from the transmit notifier.
LEMMA TxGoodFacts ==
  ASSUME Line!Uart1Assumption, LineInv, NEW m, Line!Received(m), m.type = "NOTIFIER_TX_GOOD"
  PROVE  m.from = Line!Tx /\ line_notifier[Line!Tx] = "sent" /\ Clear
<1>1. m \in LineMessages /\ MessageOK(m) /\ (m.from \notin {Line!Tx, Line!Rx} => m.from \in Clients)
  BY LineReceivedFacts
<1>2. m.from \in Clients => m.type # "NOTIFIER_TX_GOOD"
  <2>1. m.from \in Clients => Line!Step(m.from) \in {"put", "ask", "get", "release"}
    BY LineTypeFacts
  <2>2. QED
    BY <1>1, <2>1 DEF MessageOK, Line!Request
<1>3. m.from = Line!Tx /\ line_notifier[Line!Tx] = "sent"
  BY <1>1, <1>2 DEF MessageOK
<1>4. QED
  BY <1>3 DEF LineInv, LineOK

\* A byte waits: it is sent.
LEMMA TxGoodSends ==
  ASSUME Line!Uart1Assumption, LineInv, NEW m, Line!TxGood(m), want_send
  PROVE  Served
<1> DEFINE C == {line_owned_by}
           N == {Line!Tx}
<1>1. /\ Line!Received(m) /\ m.type = "NOTIFIER_TX_GOOD" /\ Line!Reply(m, C, Line!NoByte, N)
      /\ want_send' = FALSE /\ thr' = send_buffer[line_owned_by]
      /\ UNCHANGED <<line_owned_by, line_lock_cb, can_send, send_buffer, uart1_tx_flag, intr>>
      /\ UNCHANGED <<rdr, cts, dcts, controller, toSend>>
  BY DEF Line!TxGood, Line!PutChar, Line!kernel
<1>2. m.from = Line!Tx /\ line_notifier[Line!Tx] = "sent" /\ Clear
  BY <1>1, TxGoodFacts
<1>3. /\ line_owned_by \in Clients /\ line_client[line_owned_by] = "received"
      /\ Line!Step(line_owned_by) \in {"put", "ask"}
      /\ ~can_send /\ send_buffer[line_owned_by] = Line!Data(line_owned_by)
      /\ Line!Data(line_owned_by) \in Line!Sent
  BY LineTypeFacts DEF LineInv, WaitingOK, LockOK
<1>4. line_notifier[Line!Rx] = "held"
  BY <1>3, LineTypeFacts DEF LineInv, WaitingOK, Reading, First
<1>5. /\ C \in SUBSET Clients /\ \A c \in C : c = m.from \/ line_client[c] = "received"
      /\ N \in SUBSET {Line!Tx, Line!Rx} /\ \A n \in N : n = m.from \/ line_notifier[n] = "held"
      /\ Line!NoByte \in 0 .. Bytes
  BY <1>2, <1>3, LineTypeFacts
<1> HIDE DEF C, N
<1>6. /\ line_client' \in [Clients -> {"ready", "sent", "received"}]
      /\ result' \in [Clients -> 0 .. Bytes]
      /\ line_notifier' \in [{Line!Tx, Line!Rx} -> {"woken", "sent", "held", "released", "awaiting"}]
      /\ \A c \in Clients :
           /\ line_client'[c] = IF c \in C THEN "ready" ELSE IF c = m.from THEN "received" ELSE line_client[c]
           /\ pc'[c] = (IF c \in C THEN After(c, pc[c]) ELSE pc[c])
           /\ pc'[c] \in 1 .. Len(Program[c])
           /\ c \in C => result'[c] = Line!NoByte
      /\ \A n \in {Line!Tx, Line!Rx} :
           line_notifier'[n] = IF n \in N THEN "released" ELSE IF n = m.from THEN "held" ELSE line_notifier[n]
      /\ line_mailbox' \in Seq(LineMessages) /\ LineMailboxOK' /\ RepliesStep
  BY <1>1, <1>5, ReplyFacts
<1>7. line_notifier'[Line!Rx] = "held" /\ line_notifier'[Line!Tx] = "released"
  BY <1>2, <1>4, <1>6, LineTypeFacts DEF N
<1>8. /\ \A c \in Clients : c # line_owned_by => line_client'[c] = line_client[c] /\ pc'[c] = pc[c]
      /\ line_client'[line_owned_by] = "ready"
      /\ pc'[line_owned_by] = After(line_owned_by, pc[line_owned_by])
  BY <1>2, <1>3, <1>6, LineTypeFacts DEF C
<1>9. thr' \in Line!Sent /\ thr' # Line!NoByte
  BY <1>1, <1>3, LineTypeFacts
<1>10. Line!TypeOK'
  BY <1>1, <1>6, <1>9 DEF LineInv, Line!TypeOK, LineMessages
<1>11. LockOK'
  BY <1>1, <1>8, LockKept
<1>12. IntrOK' /\ FlagsOK'
  BY <1>1, <1>2, <1>4, <1>7 DEF LineInv, IntrOK, FlagsOK
<1>13. LineOK'
  BY <1>1, <1>2, <1>3, <1>7 DEF LineInv, LineOK, Clear
<1>14. WaitingOK'
  <2>1. \A c \in Clients : line_client'[c] = "received" => c # line_owned_by
    BY <1>8
  <2>2. QED
    BY <1>1, <1>7, <1>8, <2>1 DEF LineInv, WaitingOK, Line!Step, Line!Data
<1>15. ClearStep
  BY <1>2 DEF ClearStep
<1>16. ASSUME AnswerOK PROVE AnswerOK' /\ ReadsStep
  <2>1. Quiet
    BY <1>3, <1>16, AnswerFacts
  <2>2. AnswerOK'
    BY <1>1, <1>2, <1>3, <1>7, <1>8, <1>16, <2>1, PutAnswer
  <2>3. ReadsStep
    BY <1>3, <1>8 DEF ReadsStep
  <2>4. QED
    BY <2>2, <2>3
<1>17. QED
  BY <1>6, <1>10, <1>11, <1>12, <1>13, <1>14, <1>15, <1>16 DEF LineInv, Served

\* No byte waits: the next can be sent at once.
LEMMA TxGoodKeeps ==
  ASSUME Line!Uart1Assumption, LineInv, NEW m, Line!TxGood(m), ~want_send
  PROVE  Served
<1> DEFINE C == {}
           N == {}
<1>1. /\ Line!Received(m) /\ m.type = "NOTIFIER_TX_GOOD" /\ Line!Reply(m, C, Line!NoByte, N)
      /\ can_send' = TRUE
      /\ UNCHANGED <<line_owned_by, line_lock_cb, want_send, send_buffer, uart1_tx_flag, intr>>
      /\ UNCHANGED <<thr, rdr, cts, dcts, controller, toSend>>
  BY DEF Line!TxGood, Line!line, Line!kernel
<1>2. m.from = Line!Tx /\ line_notifier[Line!Tx] = "sent" /\ Clear
  BY <1>1, TxGoodFacts
<1>3. /\ C \in SUBSET Clients /\ \A c \in C : c = m.from \/ line_client[c] = "received"
      /\ N \in SUBSET {Line!Tx, Line!Rx} /\ \A n \in N : n = m.from \/ line_notifier[n] = "held"
      /\ Line!NoByte \in 0 .. Bytes
  BY LineTypeFacts
<1> HIDE DEF C, N
<1>4. /\ line_client' \in [Clients -> {"ready", "sent", "received"}]
      /\ result' \in [Clients -> 0 .. Bytes]
      /\ line_notifier' \in [{Line!Tx, Line!Rx} -> {"woken", "sent", "held", "released", "awaiting"}]
      /\ \A c \in Clients :
           /\ line_client'[c] = IF c \in C THEN "ready" ELSE IF c = m.from THEN "received" ELSE line_client[c]
           /\ pc'[c] = (IF c \in C THEN After(c, pc[c]) ELSE pc[c])
           /\ pc'[c] \in 1 .. Len(Program[c])
           /\ c \in C => result'[c] = Line!NoByte
      /\ \A n \in {Line!Tx, Line!Rx} :
           line_notifier'[n] = IF n \in N THEN "released" ELSE IF n = m.from THEN "held" ELSE line_notifier[n]
      /\ line_mailbox' \in Seq(LineMessages) /\ LineMailboxOK' /\ RepliesStep
  BY <1>1, <1>3, ReplyFacts
<1>5. line_notifier'[Line!Rx] = line_notifier[Line!Rx] /\ line_notifier'[Line!Tx] = "held"
  BY <1>2, <1>4, LineTypeFacts DEF N
<1>6. \A c \in Clients : line_client'[c] = line_client[c] /\ pc'[c] = pc[c]
  BY <1>2, <1>4, LineTypeFacts DEF C
<1>7. First => First'
  BY <1>1, <1>2, LineReceivedFacts
<1>8. Line!TypeOK'
  BY <1>1, <1>4 DEF LineInv, Line!TypeOK, LineMessages
<1>9. LockOK'
  BY <1>1, <1>6, LockKept
<1>10. IntrOK' /\ FlagsOK'
  BY <1>1, <1>2, <1>5 DEF LineInv, IntrOK, FlagsOK
<1>11. LineOK'
  BY <1>1, <1>2, <1>5 DEF LineInv, LineOK, Clear
<1>12. WaitingOK'
  <2>1. Reading => Reading'
    BY <1>1, <1>6 DEF Reading, Line!Step
  <2>2. QED
    BY <1>1, <1>5, <1>6, <1>7, <2>1 DEF LineInv, WaitingOK, Line!Step, Line!Data
<1>13. ClearStep
  BY <1>2 DEF ClearStep
<1>14. ASSUME AnswerOK PROVE AnswerOK' /\ ReadsStep
  <2>1. ReadsStep
    BY <1>6 DEF ReadsStep
  <2>2. \A i \in 1 .. Len(line_mailbox') : \E j \in 1 .. Len(line_mailbox) : line_mailbox'[i] = line_mailbox[j]
    BY <1>1, LineReceivedFacts
  <2>3. (Quiet => Quiet') /\ \A k \in 1 .. Bytes : Expecting(k) => Expecting(k)'
    BY <1>1, <1>5, <2>2 DEF Quiet, Asked, Expecting
  <2>4. AnswerOK'
    BY <1>1, <1>6, <1>14, <2>3 DEF AnswerOK, Line!Step
  <2>5. QED
    BY <2>1, <2>4
<1>15. QED
  BY <1>4, <1>8, <1>9, <1>10, <1>11, <1>12, <1>13, <1>14 DEF LineInv, Served

\* SEND_CHAR when the line is ready: the byte is sent.
LEMMA SendCharSends ==
  ASSUME Line!Uart1Assumption, LineInv, NEW m, Line!SendCharOwner(m), can_send
  PROVE  Served
<1> DEFINE C == {m.from}
           N == {Line!Tx}
<1>1. /\ Line!Received(m) /\ m.type = "SEND_CHAR" /\ Line!Reply(m, C, Line!NoByte, N)
      /\ line_owned_by \in {NoOwner, m.from} /\ line_owned_by' = m.from /\ can_send' = FALSE
      /\ thr' = m.data
      /\ UNCHANGED <<line_lock_cb, want_send, send_buffer, uart1_tx_flag, intr>>
      /\ UNCHANGED <<rdr, cts, dcts, controller, toSend>>
  BY DEF Line!SendCharOwner, Line!PutChar, Line!kernel
<1>2. PICK c : c = m.from
  OBVIOUS
<1>3. /\ m.from \notin {Line!Tx, Line!Rx} /\ c \in Clients
      /\ Line!Step(c) \in {"put", "ask"} /\ m.data = Line!Data(c)
      /\ line_notifier[Line!Rx] = "held" /\ want_send = FALSE
      /\ line_client[c] = "sent" /\ Clear /\ line_notifier[Line!Tx] = "held"
  <2>1. m \in LineMessages /\ MessageOK(m)
    BY <1>1, LineReceivedFacts
  <2>2. m.from \notin {Line!Tx, Line!Rx}
    BY <1>1, <2>1 DEF MessageOK
  <2>3. QED
    BY <1>1, <1>2, <2>2, ClientFacts
<1>4. /\ C \in SUBSET Clients /\ \A d \in C : d = m.from \/ line_client[d] = "received"
      /\ N \in SUBSET {Line!Tx, Line!Rx} /\ \A n \in N : n = m.from \/ line_notifier[n] = "held"
      /\ Line!NoByte \in 0 .. Bytes
  BY <1>2, <1>3, LineTypeFacts
<1> HIDE DEF C, N
<1>5. /\ line_client' \in [Clients -> {"ready", "sent", "received"}]
      /\ result' \in [Clients -> 0 .. Bytes]
      /\ line_notifier' \in [{Line!Tx, Line!Rx} -> {"woken", "sent", "held", "released", "awaiting"}]
      /\ \A d \in Clients :
           /\ line_client'[d] = IF d \in C THEN "ready" ELSE IF d = m.from THEN "received" ELSE line_client[d]
           /\ pc'[d] = (IF d \in C THEN After(d, pc[d]) ELSE pc[d])
           /\ pc'[d] \in 1 .. Len(Program[d])
           /\ d \in C => result'[d] = Line!NoByte
      /\ \A n \in {Line!Tx, Line!Rx} :
           line_notifier'[n] = IF n \in N THEN "released" ELSE IF n = m.from THEN "held" ELSE line_notifier[n]
      /\ line_mailbox' \in Seq(LineMessages) /\ LineMailboxOK' /\ RepliesStep
  BY <1>1, <1>4, ReplyFacts
<1>6. line_notifier'[Line!Rx] = "held" /\ line_notifier'[Line!Tx] = "released"
  BY <1>3, <1>5, LineTypeFacts DEF N
<1>7. /\ \A d \in Clients : d # c => line_client'[d] = line_client[d] /\ pc'[d] = pc[d]
      /\ line_client'[c] = "ready" /\ pc'[c] = After(c, pc[c])
  BY <1>2, <1>3, <1>5 DEF C
<1>8. thr' \in Line!Sent /\ thr' # Line!NoByte /\ c # NoOwner
  BY <1>1, <1>3, LineTypeFacts
<1>9. Line!TypeOK'
  BY <1>1, <1>2, <1>3, <1>5, <1>8 DEF LineInv, Line!TypeOK, LineMessages
<1>10. LockOK'
  <2>1. {d \in Clients : line_client'[d] = "received" /\ line_owned_by' # d}
          = {d \in Clients : line_client[d] = "received" /\ line_owned_by # d}
    <3>1. ASSUME NEW d \in Clients
          PROVE  line_client'[d] = "received" /\ line_owned_by' # d <=> line_client[d] = "received" /\ line_owned_by # d
      BY <1>1, <1>2, <1>3, <1>7, LineTypeFacts
    <3>2. QED
      BY <3>1
  <2>2. Elements(line_lock_cb)' = Elements(line_lock_cb) /\ (Distinct(line_lock_cb)' <=> Distinct(line_lock_cb))
    BY <1>1 DEF Elements, Distinct
  <2>3. ASSUME NEW d \in Clients, d # c, Program[d][pc'[d]] \in {"get", "release"} PROVE FALSE
    <3>1. line_owned_by = d
      BY <1>7, <2>3 DEF LineInv, LockOK, Line!Step
    <3>2. QED
      BY <1>1, <1>2, <2>3, <3>1, LineTypeFacts
  <2>4. QED
    BY <1>1, <1>2, <1>3, <1>8, <2>1, <2>2, <2>3 DEF LineInv, LockOK, Line!Step
<1>11. IntrOK' /\ FlagsOK'
  BY <1>1, <1>3, <1>6 DEF LineInv, IntrOK, FlagsOK
<1>12. LineOK'
  BY <1>1, <1>3, <1>6 DEF LineInv, LineOK, Clear
<1>13. WaitingOK'
  <2>1. \A d \in Clients : line_client'[d] = "received" => d # c
    BY <1>7
  <2>2. QED
    BY <1>1, <1>3, <1>6, <1>7, <2>1 DEF LineInv, WaitingOK, Line!Step, Line!Data
<1>14. ClearStep
  BY <1>3 DEF ClearStep
<1>15. ASSUME AnswerOK PROVE AnswerOK' /\ ReadsStep
  <2>1. Quiet
    <3>1. \A d \in Clients : line_owned_by = d => Line!Step(d) # "get"
      BY <1>1, <1>2, <1>3, LineTypeFacts
    <3>2. QED
      BY <1>15, <3>1, AnswerFacts
  <2>2. AnswerOK'
    BY <1>1, <1>2, <1>3, <1>6, <1>7, <1>15, <2>1, PutAnswer
  <2>3. ReadsStep
    BY <1>3, <1>7 DEF ReadsStep
  <2>4. QED
    BY <2>2, <2>3
<1>16. QED
  BY <1>5, <1>9, <1>10, <1>11, <1>12, <1>13, <1>14, <1>15 DEF LineInv, Served

\* SEND_CHAR when it is not: the byte waits in send_buffer.
LEMMA SendCharWaits ==
  ASSUME Line!Uart1Assumption, LineInv, NEW m, Line!SendCharOwner(m), ~can_send
  PROVE  Served
<1> DEFINE C == {}
           N == {}
<1>1. /\ Line!Received(m) /\ m.type = "SEND_CHAR" /\ Line!Reply(m, C, Line!NoByte, N)
      /\ line_owned_by \in {NoOwner, m.from} /\ line_owned_by' = m.from /\ want_send' = TRUE
      /\ send_buffer' = [send_buffer EXCEPT ![m.from] = m.data]
      /\ UNCHANGED <<line_lock_cb, can_send, uart1_tx_flag, intr>>
      /\ UNCHANGED <<thr, rdr, cts, dcts, controller, toSend>>
  BY DEF Line!SendCharOwner, Line!line, Line!kernel
<1>2. PICK c : c = m.from
  OBVIOUS
<1>3. /\ m.from \notin {Line!Tx, Line!Rx} /\ c \in Clients
      /\ Line!Step(c) \in {"put", "ask"} /\ m.data = Line!Data(c) /\ line_notifier[Line!Rx] = "held"
      /\ line_client[c] = "sent"
  <2>1. m \in LineMessages /\ MessageOK(m)
    BY <1>1, LineReceivedFacts
  <2>2. m.from \notin {Line!Tx, Line!Rx}
    BY <1>1, <2>1 DEF MessageOK
  <2>3. QED
    BY <1>1, <1>2, <2>2, ClientFacts
<1>4. /\ C \in SUBSET Clients /\ \A d \in C : d = m.from \/ line_client[d] = "received"
      /\ N \in SUBSET {Line!Tx, Line!Rx} /\ \A n \in N : n = m.from \/ line_notifier[n] = "held"
      /\ Line!NoByte \in 0 .. Bytes
  BY LineTypeFacts
<1> HIDE DEF C, N
<1>5. /\ line_client' \in [Clients -> {"ready", "sent", "received"}]
      /\ result' \in [Clients -> 0 .. Bytes]
      /\ line_notifier' \in [{Line!Tx, Line!Rx} -> {"woken", "sent", "held", "released", "awaiting"}]
      /\ \A d \in Clients :
           /\ line_client'[d] = IF d \in C THEN "ready" ELSE IF d = m.from THEN "received" ELSE line_client[d]
           /\ pc'[d] = (IF d \in C THEN After(d, pc[d]) ELSE pc[d])
           /\ pc'[d] \in 1 .. Len(Program[d])
           /\ d \in C => result'[d] = Line!NoByte
      /\ \A n \in {Line!Tx, Line!Rx} :
           line_notifier'[n] = IF n \in N THEN "released" ELSE IF n = m.from THEN "held" ELSE line_notifier[n]
      /\ line_mailbox' \in Seq(LineMessages) /\ LineMailboxOK' /\ RepliesStep
  BY <1>1, <1>4, ReplyFacts
<1>6. line_notifier'[Line!Rx] = "held" /\ line_notifier'[Line!Tx] = line_notifier[Line!Tx]
  BY <1>3, <1>5, LineTypeFacts DEF N
<1>7. /\ \A d \in Clients : d # c => line_client'[d] = line_client[d]
      /\ \A d \in Clients : pc'[d] = pc[d]
      /\ line_client'[c] = "received"
  BY <1>2, <1>3, <1>5 DEF C
<1>8. /\ send_buffer' \in [Clients -> Line!Sent \cup {Line!NoByte}]
      /\ send_buffer'[c] = Line!Data(c)
      /\ \A d \in Clients : d # c => send_buffer'[d] = send_buffer[d]
      /\ c # NoOwner
  BY <1>1, <1>2, <1>3, LineTypeFacts
<1>9. Line!TypeOK'
  BY <1>1, <1>2, <1>3, <1>5, <1>8 DEF LineInv, Line!TypeOK, LineMessages
<1>10. LockOK'
  <2>1. {d \in Clients : line_client'[d] = "received" /\ line_owned_by' # d}
          = {d \in Clients : line_client[d] = "received" /\ line_owned_by # d}
    <3>1. ASSUME NEW d \in Clients
          PROVE  line_client'[d] = "received" /\ line_owned_by' # d <=> line_client[d] = "received" /\ line_owned_by # d
      BY <1>1, <1>2, <1>3, <1>7, LineTypeFacts
    <3>2. QED
      BY <3>1
  <2>2. Elements(line_lock_cb)' = Elements(line_lock_cb) /\ (Distinct(line_lock_cb)' <=> Distinct(line_lock_cb))
    BY <1>1 DEF Elements, Distinct
  <2>3. ASSUME NEW d \in Clients, d # c, Program[d][pc'[d]] \in {"get", "release"} PROVE FALSE
    <3>1. line_owned_by = d
      BY <1>7, <2>3 DEF LineInv, LockOK, Line!Step
    <3>2. QED
      BY <1>1, <1>2, <2>3, <3>1, LineTypeFacts
  <2>4. want_send' => ~can_send' /\ line_client'[line_owned_by'] = "received"
                      /\ Program[line_owned_by'][pc'[line_owned_by']] \in {"put", "ask"}
    BY <1>1, <1>2, <1>3, <1>7 DEF Line!Step
  <2>5. QED
    BY <1>1, <1>2, <1>3, <1>8, <2>1, <2>2, <2>3, <2>4 DEF LineInv, LockOK, Line!Step
<1>11. IntrOK' /\ FlagsOK'
  <2>1. \A n \in {Line!Tx, Line!Rx} : line_notifier'[n] = line_notifier[n]
    BY <1>3, <1>6
  <2>2. QED
    BY <1>1, <2>1 DEF LineInv, IntrOK, FlagsOK
<1>12. LineOK'
  BY <1>1, <1>6 DEF LineInv, LineOK, Clear
<1>13. WaitingOK'
  BY <1>1, <1>2, <1>3, <1>6, <1>7, <1>8 DEF LineInv, WaitingOK, Line!Step, Line!Data
<1>14. ClearStep
  BY <1>1 DEF ClearStep
<1>15. ASSUME AnswerOK PROVE AnswerOK' /\ ReadsStep
  <2>1. Quiet
    <3>1. \A d \in Clients : line_owned_by = d => Line!Step(d) # "get"
      BY <1>1, <1>2, <1>3, LineTypeFacts
    <3>2. QED
      BY <1>15, <3>1, AnswerFacts
  <2>2. AnswerOK'
    <3>1. \A d \in Clients : line_owned_by' = d => Program[d][pc'[d]] # "get"
      BY <1>1, <1>2, <1>3, <1>7 DEF Line!Step
    <3>2. QED
      BY <1>1, <1>15, <2>1, <3>1, QuietAnswer
  <2>3. ReadsStep
    BY <1>7 DEF ReadsStep
  <2>4. QED
    BY <2>2, <2>3
<1>16. QED
  BY <1>5, <1>9, <1>10, <1>11, <1>12, <1>13, <1>14, <1>15 DEF LineInv, Served

\* lock_cb has a place for a task that is neither waiting nor the owner.
LEMMA LineLockHasRoom ==
  ASSUME Line!Uart1Assumption, LineInv, NEW c \in Clients, line_client[c] # "received",
         NEW o \in Clients, o = line_owned_by, o # c
  PROVE  Len(line_lock_cb) < LockCapacity
<1> DEFINE S == Clients \ {o}
           T == S \ {c}
<1>1. IsFiniteSet(Clients) /\ Cardinality(Clients) <= LockCapacity + 1 /\ LockCapacity \in Nat
  BY DEF Line!Uart1Assumption, Line!IsFiniteSet, IsFiniteSet, Line!Cardinality, Cardinality
<1>2. /\ IsFiniteSet(S) /\ Cardinality(S) = Cardinality(Clients) - 1
      /\ Cardinality(Clients) \in Nat /\ c \in S
  BY <1>1, FS_RemoveElement, FS_CardinalityType
<1>3. \A x \in Clients : x # o /\ x # c => x \in T
  OBVIOUS
<1> HIDE DEF S
<1>4. IsFiniteSet(T) /\ Cardinality(T) = Cardinality(S) - 1
  BY <1>2, FS_RemoveElement
<1> HIDE DEF T
<1>5. line_lock_cb \in Seq(T) /\ Distinct(line_lock_cb)
  <2>1. line_lock_cb \in Seq(Clients) /\ Distinct(line_lock_cb)
    BY LineTypeFacts DEF LineInv, LockOK
  <2>2. ASSUME NEW i \in 1 .. Len(line_lock_cb) PROVE line_lock_cb[i] \in T
    <3>1. line_lock_cb[i] \in Elements(line_lock_cb)
      BY DEF Elements
    <3>2. line_lock_cb[i] \in Clients /\ line_client[line_lock_cb[i]] = "received" /\ line_owned_by # line_lock_cb[i]
      BY <3>1 DEF LineInv, LockOK
    <3>3. QED
      BY <1>3, <3>2
  <2>3. QED
    BY <2>1, <2>2
<1>6. Len(line_lock_cb) <= Cardinality(T)
  BY <1>4, <1>5, QueueLength
<1>7. Len(line_lock_cb) \in Nat
  BY LineTypeFacts
<1>8. QED
  BY <1>1, <1>2, <1>4, <1>6, <1>7

\* SEND_CHAR while another task owns the line: the task waits for it in lock_cb.
LEMMA LineSendCharOtherInv ==
  ASSUME Line!Uart1Assumption, LineInv, NEW m, Line!SendCharOther(m)
  PROVE  Served
<1> DEFINE C == {}
           N == {}
<1>1. /\ Line!Received(m) /\ m.type = "SEND_CHAR" /\ Line!Reply(m, C, Line!NoByte, N)
      /\ line_owned_by \notin {NoOwner, m.from}
      /\ line_lock_cb' = IF Len(line_lock_cb) < LockCapacity THEN Append(line_lock_cb, m.from) ELSE line_lock_cb
      /\ send_buffer' = [send_buffer EXCEPT ![m.from] = m.data]
      /\ UNCHANGED <<line_owned_by, can_send, want_send, uart1_tx_flag, intr>>
      /\ UNCHANGED <<thr, rdr, cts, dcts, controller, toSend>>
  BY DEF Line!SendCharOther, Line!line, Line!kernel
<1>2. PICK c : c = m.from
  OBVIOUS
<1>3. /\ m.from \notin {Line!Tx, Line!Rx} /\ c \in Clients /\ Line!Step(c) \in {"put", "ask"}
      /\ m.data = Line!Data(c)
      /\ line_client[c] = "sent"
  <2>1. m \in LineMessages /\ MessageOK(m) /\ (m.from \notin {Line!Tx, Line!Rx} => m.from \in Clients)
    BY <1>1, LineReceivedFacts
  <2>2. m.from \notin {Line!Tx, Line!Rx}
    BY <1>1, <2>1 DEF MessageOK
  <2>3. Line!Step(c) \in {"put", "ask", "get", "release"} /\ m = Line!Request(c) /\ line_client[c] = "sent"
    BY <1>2, <2>1, <2>2, LineTypeFacts DEF MessageOK
  <2>4. QED
    BY <1>1, <1>2, <2>1, <2>2, <2>3 DEF Line!Request
<1>4. /\ C \in SUBSET Clients /\ \A d \in C : d = m.from \/ line_client[d] = "received"
      /\ N \in SUBSET {Line!Tx, Line!Rx} /\ \A n \in N : n = m.from \/ line_notifier[n] = "held"
      /\ Line!NoByte \in 0 .. Bytes
  BY LineTypeFacts
<1> HIDE DEF C, N
<1>5. /\ line_client' \in [Clients -> {"ready", "sent", "received"}]
      /\ result' \in [Clients -> 0 .. Bytes]
      /\ line_notifier' \in [{Line!Tx, Line!Rx} -> {"woken", "sent", "held", "released", "awaiting"}]
      /\ \A d \in Clients :
           /\ line_client'[d] = IF d \in C THEN "ready" ELSE IF d = m.from THEN "received" ELSE line_client[d]
           /\ pc'[d] = (IF d \in C THEN After(d, pc[d]) ELSE pc[d])
           /\ pc'[d] \in 1 .. Len(Program[d])
           /\ d \in C => result'[d] = Line!NoByte
      /\ \A n \in {Line!Tx, Line!Rx} :
           line_notifier'[n] = IF n \in N THEN "released" ELSE IF n = m.from THEN "held" ELSE line_notifier[n]
      /\ line_mailbox' \in Seq(LineMessages) /\ LineMailboxOK' /\ RepliesStep
  BY <1>1, <1>4, ReplyFacts
<1>6. line_notifier'[Line!Rx] = line_notifier[Line!Rx] /\ line_notifier'[Line!Tx] = line_notifier[Line!Tx]
  BY <1>3, <1>5 DEF N
<1>7. /\ \A d \in Clients : d # c => line_client'[d] = line_client[d]
      /\ \A d \in Clients : pc'[d] = pc[d]
      /\ line_client'[c] = "received"
  BY <1>2, <1>3, <1>5 DEF C
<1>8. /\ send_buffer' \in [Clients -> Line!Sent \cup {Line!NoByte}]
      /\ send_buffer'[c] = Line!Data(c)
      /\ \A d \in Clients : d # c => send_buffer'[d] = send_buffer[d]
  BY <1>1, <1>2, <1>3, LineTypeFacts
<1>9. line_owned_by \in Clients /\ line_owned_by # c /\ line_owned_by # NoOwner
  BY <1>1, <1>2, LineTypeFacts
<1>10. Len(line_lock_cb) < LockCapacity
  BY <1>3, <1>9, LineLockHasRoom
<1>11. /\ line_lock_cb' \in Seq(Clients) /\ Len(line_lock_cb') = Len(line_lock_cb) + 1
       /\ Distinct(line_lock_cb)' /\ Elements(line_lock_cb)' = Elements(line_lock_cb) \cup {c}
  <2>1. c \notin Elements(line_lock_cb) /\ line_lock_cb \in Seq(Clients) /\ Distinct(line_lock_cb)
    BY <1>3, LineTypeFacts DEF LineInv, LockOK
  <2>2. line_lock_cb' = Append(line_lock_cb, c)
    BY <1>1, <1>2, <1>10
  <2>3. /\ Append(line_lock_cb, c) \in Seq(Clients)
        /\ Len(Append(line_lock_cb, c)) = Len(line_lock_cb) + 1
        /\ Distinct(Append(line_lock_cb, c))
        /\ Elements(Append(line_lock_cb, c)) = Elements(line_lock_cb) \cup {c}
    BY <1>3, <2>1, QueueAppend
  <2>4. QED
    BY <2>2, <2>3
<1>12. Line!TypeOK'
  <2>1. Len(line_lock_cb') <= LockCapacity
    BY <1>10, <1>11, LineTypeFacts DEF Line!Uart1Assumption
  <2>2. QED
    BY <1>1, <1>5, <1>8, <1>11, <2>1 DEF LineInv, Line!TypeOK, LineMessages
<1>13. LockOK'
  <2>1. {d \in Clients : line_client'[d] = "received" /\ line_owned_by' # d}
          = {d \in Clients : line_client[d] = "received" /\ line_owned_by # d} \cup {c}
    <3>1. ASSUME NEW d \in Clients
          PROVE  line_client'[d] = "received" /\ line_owned_by' # d
                   <=> (line_client[d] = "received" /\ line_owned_by # d) \/ d = c
      BY <1>1, <1>7, <1>9
    <3>2. QED
      BY <1>3, <3>1
  <2>2. Elements(line_lock_cb)' = {d \in Clients : line_client'[d] = "received" /\ line_owned_by' # d}
    BY <1>11, <2>1 DEF LineInv, LockOK
  <2>3. ASSUME NEW d \in Clients, Program[d][pc'[d]] \in {"get", "release"} PROVE line_owned_by = d
    BY <1>7, <2>3 DEF LineInv, LockOK, Line!Step
  <2>4. want_send' => ~can_send' /\ line_client'[line_owned_by'] = "received"
                      /\ Program[line_owned_by'][pc'[line_owned_by']] \in {"put", "ask"}
    BY <1>1, <1>7, <1>9 DEF LineInv, LockOK, Line!Step
  <2>5. QED
    BY <1>1, <1>9, <1>11, <2>2, <2>3, <2>4 DEF LockOK, Line!Step
<1>14. IntrOK' /\ FlagsOK'
  BY <1>1, <1>6 DEF LineInv, IntrOK, FlagsOK
<1>15. LineOK'
  <2>1. can_send => line_notifier[Line!Tx] = "held"
    BY <1>1, <1>3, LineReceivedFacts DEF LineInv, LineOK
  <2>2. QED
    BY <1>1, <1>6, <2>1 DEF LineInv, LineOK, Clear
<1>16. WaitingOK'
  <2>1. ~First /\ (Reading => Reading')
    BY <1>1, <1>7, <1>9 DEF First, Reading, Line!Step
  <2>2. ASSUME NEW d \in Clients, line_client'[d] = "received", Program[d][pc'[d]] \in {"put", "ask"}
        PROVE  send_buffer'[d] = Line!Data(d)'
    <3>1. Line!Data(d)' = Line!Data(d)
      BY <1>7 DEF Line!Data, Line!Step
    <3>2. d # c => send_buffer[d] = Line!Data(d)
      BY <1>7, <2>2 DEF LineInv, WaitingOK, Line!Step
    <3>3. QED
      BY <1>8, <3>1, <3>2
  <2>3. QED
    BY <1>1, <1>6, <2>1, <2>2 DEF LineInv, WaitingOK, Line!Step
<1>17. ClearStep
  BY <1>1 DEF ClearStep
<1>18. ASSUME AnswerOK PROVE AnswerOK' /\ ReadsStep
  <2>1. ReadsStep
    BY <1>7 DEF ReadsStep
  <2>2. \A i \in 1 .. Len(line_mailbox') : \E j \in 1 .. Len(line_mailbox) : line_mailbox'[i] = line_mailbox[j]
    BY <1>1, LineReceivedFacts
  <2>3. (Quiet => Quiet') /\ \A k \in 1 .. Bytes : Expecting(k) => Expecting(k)'
    BY <1>1, <1>6, <2>2 DEF Quiet, Asked, Expecting
  <2>4. AnswerOK'
    BY <1>1, <1>7, <1>18, <2>3 DEF AnswerOK, Line!Step
  <2>5. QED
    BY <2>1, <2>4
<1>19. QED
  BY <1>5, <1>12, <1>13, <1>14, <1>15, <1>16, <1>17, <1>18 DEF LineInv, Served

\* GET_CHAR finds a byte in the register, and returns it.
LEMMA GetCharReads ==
  ASSUME Line!Uart1Assumption, LineInv, NEW m, Line!GetChar(m), rdr # Line!NoByte
  PROVE  Served
<1> DEFINE C == {line_owned_by}
           N == {}
<1>1. /\ Line!Received(m) /\ m.type = "GET_CHAR" /\ Line!Reply(m, C, rdr, N) /\ rdr' = Line!NoByte
      /\ UNCHANGED <<line_owned_by, line_lock_cb, can_send, want_send, send_buffer, uart1_tx_flag, intr>>
      /\ UNCHANGED <<thr, cts, dcts, controller, toSend>>
  BY DEF Line!GetChar, Line!server, Line!kernel
<1>2. PICK c : c = m.from
  OBVIOUS
<1>3. /\ m.from \notin {Line!Tx, Line!Rx} /\ c \in Clients /\ Line!Step(c) = "get"
      /\ line_client[c] = "sent"
      /\ line_notifier[Line!Rx] = "held" /\ want_send = FALSE
      /\ (can_send => line_notifier[Line!Tx] = "held")
  <2>1. m \in LineMessages /\ MessageOK(m)
    BY <1>1, LineReceivedFacts
  <2>2. m.from \notin {Line!Tx, Line!Rx}
    BY <1>1, <2>1 DEF MessageOK
  <2>3. QED
    BY <1>1, <1>2, <2>2, ClientFacts
<1>4. line_owned_by = c /\ c # NoOwner
  BY <1>3, LineTypeFacts DEF LineInv, LockOK
<1>5. /\ C \in SUBSET Clients /\ \A d \in C : d = m.from \/ line_client[d] = "received"
      /\ N \in SUBSET {Line!Tx, Line!Rx} /\ \A n \in N : n = m.from \/ line_notifier[n] = "held"
      /\ rdr \in 0 .. Bytes
  BY <1>2, <1>3, <1>4, LineTypeFacts
<1> HIDE DEF C, N
<1>6. /\ line_client' \in [Clients -> {"ready", "sent", "received"}]
      /\ result' \in [Clients -> 0 .. Bytes]
      /\ line_notifier' \in [{Line!Tx, Line!Rx} -> {"woken", "sent", "held", "released", "awaiting"}]
      /\ \A d \in Clients :
           /\ line_client'[d] = IF d \in C THEN "ready" ELSE IF d = m.from THEN "received" ELSE line_client[d]
           /\ pc'[d] = (IF d \in C THEN After(d, pc[d]) ELSE pc[d])
           /\ pc'[d] \in 1 .. Len(Program[d])
           /\ d \in C => result'[d] = rdr
      /\ \A n \in {Line!Tx, Line!Rx} :
           line_notifier'[n] = IF n \in N THEN "released" ELSE IF n = m.from THEN "held" ELSE line_notifier[n]
      /\ line_mailbox' \in Seq(LineMessages) /\ LineMailboxOK' /\ RepliesStep
  BY <1>1, <1>5, ReplyFacts
<1>7. line_notifier'[Line!Rx] = "held" /\ line_notifier'[Line!Tx] = line_notifier[Line!Tx]
  BY <1>3, <1>6 DEF N
<1>8. /\ \A d \in Clients : d # c => line_client'[d] = line_client[d] /\ pc'[d] = pc[d]
      /\ line_client'[c] = "ready" /\ pc'[c] = After(c, pc[c]) /\ result'[c] = rdr
  BY <1>2, <1>3, <1>4, <1>6 DEF C
<1>9. Line!TypeOK'
  <2>1. rdr' \in 0 .. Bytes
    BY <1>1, LineTypeFacts
  <2>2. QED
    BY <1>1, <1>6, <2>1 DEF LineInv, Line!TypeOK, LineMessages
<1>10. LockOK'
  BY <1>1, <1>3, <1>4, <1>8, LockKept
<1>11. IntrOK' /\ FlagsOK'
  <2>1. \A n \in {Line!Tx, Line!Rx} : line_notifier'[n] = line_notifier[n]
    BY <1>3, <1>7
  <2>2. QED
    BY <1>1, <2>1 DEF LineInv, IntrOK, FlagsOK
<1>12. LineOK'
  BY <1>1, <1>3, <1>7 DEF LineInv, LineOK, Clear
<1>13. WaitingOK'
  <2>1. \A d \in Clients : line_client'[d] = "received" => d # c
    BY <1>8
  <2>2. QED
    BY <1>1, <1>3, <1>7, <1>8, <2>1 DEF LineInv, WaitingOK, Line!Step, Line!Data
<1>14. ClearStep
  BY <1>1 DEF ClearStep
<1>15. ASSUME AnswerOK PROVE AnswerOK' /\ ReadsStep
  <2>1. PICK k \in 1 .. Bytes : At(c, pc[c], k) /\ Expecting(k)
    BY <1>3, <1>4, <1>15, AnswerFacts
  <2>2. ~Asked /\ rdr = k /\ Bytes - toSend = k
    BY <1>3, <2>1 DEF Expecting
  <2>3. \A i \in 1 .. Len(line_mailbox') : line_mailbox'[i].from # Line!Rx
    BY <1>6, <1>7 DEF LineMailboxOK, MessageOK
  <2>4. AnswerOK'
    BY <1>1, <1>3, <1>4, <1>7, <1>8, <1>15, <2>1, <2>2, <2>3, ReadAnswer
  <2>5. ReadsStep
    <3>1. ASSUME NEW l \in 1 .. Bytes, At(c, pc[c], l) PROVE rdr = l
      <4>1. Expecting(l)
        BY <1>3, <1>4, <1>15, <3>1 DEF AnswerOK
      <4>2. QED
        BY <1>3, <4>1 DEF Expecting
    <3>2. C = {c}
      BY <1>4 DEF C
    <3>3. /\ \A d \in Clients : pc'[d] # pc[d] => d \in C
          /\ \A d \in C : result'[d] = rdr
          /\ \A d \in C : Line!Step(d) = "get" => \A l \in 1 .. Bytes : At(d, pc[d], l) => rdr = l
      BY <1>8, <3>1, <3>2
    <3>4. QED
      BY <1>5, <3>3, ReadsFacts
  <2>6. QED
    BY <2>4, <2>5
<1>16. QED
  BY <1>6, <1>9, <1>10, <1>11, <1>12, <1>13, <1>14, <1>15 DEF LineInv, Served

\* GET_CHAR finds none: the receive notifier waits for the next.
LEMMA GetCharWaits ==
  ASSUME Line!Uart1Assumption, LineInv, NEW m, Line!GetChar(m), rdr = Line!NoByte
  PROVE  Served
<1> DEFINE C == {}
           N == {Line!Rx}
<1>1. /\ Line!Received(m) /\ m.type = "GET_CHAR" /\ Line!Reply(m, C, Line!NoByte, N)
      /\ UNCHANGED <<line_owned_by, line_lock_cb, can_send, want_send, send_buffer, uart1_tx_flag, intr>>
      /\ UNCHANGED <<thr, rdr, cts, dcts, controller, toSend>>
  BY DEF Line!GetChar, Line!server, Line!kernel, Line!line
<1>2. PICK c : c = m.from
  OBVIOUS
<1>3. /\ m.from \notin {Line!Tx, Line!Rx} /\ c \in Clients /\ Line!Step(c) = "get"
      /\ line_client[c] = "sent"
      /\ line_notifier[Line!Rx] = "held" /\ want_send = FALSE
      /\ (can_send => line_notifier[Line!Tx] = "held")
  <2>1. m \in LineMessages /\ MessageOK(m)
    BY <1>1, LineReceivedFacts
  <2>2. m.from \notin {Line!Tx, Line!Rx}
    BY <1>1, <2>1 DEF MessageOK
  <2>3. QED
    BY <1>1, <1>2, <2>2, ClientFacts
<1>4. line_owned_by = c /\ c # NoOwner
  BY <1>3, LineTypeFacts DEF LineInv, LockOK
<1>5. /\ C \in SUBSET Clients /\ \A d \in C : d = m.from \/ line_client[d] = "received"
      /\ N \in SUBSET {Line!Tx, Line!Rx} /\ \A n \in N : n = m.from \/ line_notifier[n] = "held"
      /\ Line!NoByte \in 0 .. Bytes
  BY <1>3, LineTypeFacts
<1> HIDE DEF C, N
<1>6. /\ line_client' \in [Clients -> {"ready", "sent", "received"}]
      /\ result' \in [Clients -> 0 .. Bytes]
      /\ line_notifier' \in [{Line!Tx, Line!Rx} -> {"woken", "sent", "held", "released", "awaiting"}]
      /\ \A d \in Clients :
           /\ line_client'[d] = IF d \in C THEN "ready" ELSE IF d = m.from THEN "received" ELSE line_client[d]
           /\ pc'[d] = (IF d \in C THEN After(d, pc[d]) ELSE pc[d])
           /\ pc'[d] \in 1 .. Len(Program[d])
           /\ d \in C => result'[d] = Line!NoByte
      /\ \A n \in {Line!Tx, Line!Rx} :
           line_notifier'[n] = IF n \in N THEN "released" ELSE IF n = m.from THEN "held" ELSE line_notifier[n]
      /\ line_mailbox' \in Seq(LineMessages) /\ LineMailboxOK' /\ RepliesStep
  BY <1>1, <1>5, ReplyFacts
<1>7. line_notifier'[Line!Rx] = "released" /\ line_notifier'[Line!Tx] = line_notifier[Line!Tx]
  BY <1>3, <1>6, LineTypeFacts DEF N
<1>8. /\ \A d \in Clients : d # c => line_client'[d] = line_client[d]
      /\ \A d \in Clients : pc'[d] = pc[d]
      /\ line_client'[c] = "received"
  BY <1>2, <1>3, <1>6 DEF C
<1>9. Line!TypeOK'
  BY <1>1, <1>6 DEF LineInv, Line!TypeOK, LineMessages
<1>10. LockOK'
  BY <1>1, <1>3, <1>4, <1>8, LockKept
<1>11. IntrOK' /\ FlagsOK'
  <2>1. "UART1RXINTR" \notin intr
    BY <1>3 DEF LineInv, IntrOK
  <2>2. QED
    BY <1>1, <1>7, <2>1 DEF LineInv, IntrOK, FlagsOK
<1>12. LineOK'
  BY <1>1, <1>3, <1>7 DEF LineInv, LineOK, Clear
<1>13. WaitingOK'
  <2>1. Reading'
    BY <1>1, <1>3, <1>4, <1>8 DEF Reading, Line!Step
  <2>2. ASSUME NEW d \in Clients, line_client'[d] = "received", Program[d][pc'[d]] \in {"put", "ask"}
        PROVE  line_client[d] = "received"
    BY <1>3, <1>8, <2>2 DEF Line!Step
  <2>3. QED
    BY <1>1, <1>3, <1>7, <1>8, <2>1, <2>2 DEF LineInv, WaitingOK, Line!Step, Line!Data
<1>14. ClearStep
  BY <1>1 DEF ClearStep
<1>15. ASSUME AnswerOK PROVE AnswerOK' /\ ReadsStep
  <2>1. ReadsStep
    BY <1>8 DEF ReadsStep
  <2>2. \A i \in 1 .. Len(line_mailbox') : \E j \in 1 .. Len(line_mailbox) : line_mailbox'[i] = line_mailbox[j]
    BY <1>1, LineReceivedFacts
  <2>3. (Quiet => Quiet') /\ \A k \in 1 .. Bytes : Expecting(k) => Expecting(k)'
    BY <1>1, <1>3, <1>7, <2>2 DEF Quiet, Asked, Expecting
  <2>4. AnswerOK'
    BY <1>1, <1>8, <1>15, <2>3 DEF AnswerOK, Line!Step
  <2>5. QED
    BY <2>1, <2>4
<1>16. QED
  BY <1>6, <1>9, <1>10, <1>11, <1>12, <1>13, <1>14, <1>15 DEF LineInv, Served

\* RELEASE_LOCK when nobody waits.
LEMMA ReleaseFrees ==
  ASSUME Line!Uart1Assumption, LineInv, NEW m, Line!Release(m), line_lock_cb = <<>>
  PROVE  Served
<1> DEFINE C == {m.from}
           N == {}
<1>1. /\ Line!Received(m) /\ m.type = "RELEASE_LOCK" /\ Line!Reply(m, C, Line!NoByte, N)
      /\ line_owned_by' = NoOwner
      /\ UNCHANGED <<line_lock_cb, can_send, want_send, send_buffer, uart1_tx_flag, intr>>
      /\ UNCHANGED <<thr, rdr, cts, dcts, controller, toSend>>
  BY DEF Line!Release, Line!kernel, Line!line
<1>2. PICK c : c = m.from
  OBVIOUS
<1>3. /\ m.from \notin {Line!Tx, Line!Rx} /\ c \in Clients /\ Line!Step(c) = "release"
      /\ line_client[c] = "sent"
      /\ line_notifier[Line!Rx] = "held" /\ want_send = FALSE
      /\ (can_send => line_notifier[Line!Tx] = "held")
  <2>1. m \in LineMessages /\ MessageOK(m)
    BY <1>1, LineReceivedFacts
  <2>2. m.from \notin {Line!Tx, Line!Rx}
    BY <1>1, <2>1 DEF MessageOK
  <2>3. QED
    BY <1>1, <1>2, <2>2, ClientFacts
<1>4. line_owned_by = c /\ c # NoOwner
  BY <1>3, LineTypeFacts DEF LineInv, LockOK
<1>5. /\ C \in SUBSET Clients /\ \A d \in C : d = m.from \/ line_client[d] = "received"
      /\ N \in SUBSET {Line!Tx, Line!Rx} /\ \A n \in N : n = m.from \/ line_notifier[n] = "held"
      /\ Line!NoByte \in 0 .. Bytes
  BY <1>2, <1>3, LineTypeFacts
<1> HIDE DEF C, N
<1>6. /\ line_client' \in [Clients -> {"ready", "sent", "received"}]
      /\ result' \in [Clients -> 0 .. Bytes]
      /\ line_notifier' \in [{Line!Tx, Line!Rx} -> {"woken", "sent", "held", "released", "awaiting"}]
      /\ \A d \in Clients :
           /\ line_client'[d] = IF d \in C THEN "ready" ELSE IF d = m.from THEN "received" ELSE line_client[d]
           /\ pc'[d] = (IF d \in C THEN After(d, pc[d]) ELSE pc[d])
           /\ pc'[d] \in 1 .. Len(Program[d])
           /\ d \in C => result'[d] = Line!NoByte
      /\ \A n \in {Line!Tx, Line!Rx} :
           line_notifier'[n] = IF n \in N THEN "released" ELSE IF n = m.from THEN "held" ELSE line_notifier[n]
      /\ line_mailbox' \in Seq(LineMessages) /\ LineMailboxOK' /\ RepliesStep
  BY <1>1, <1>5, ReplyFacts
<1>7. line_notifier'[Line!Rx] = "held" /\ line_notifier'[Line!Tx] = line_notifier[Line!Tx]
  BY <1>3, <1>6 DEF N
<1>8. /\ \A d \in Clients : d # c => line_client'[d] = line_client[d] /\ pc'[d] = pc[d]
      /\ line_client'[c] = "ready" /\ pc'[c] = After(c, pc[c])
      /\ Program[c][pc'[c]] \notin {"get", "release"}
  <2>1. /\ \A d \in Clients : d # c => line_client'[d] = line_client[d] /\ pc'[d] = pc[d]
        /\ line_client'[c] = "ready" /\ pc'[c] = After(c, pc[c])
    BY <1>2, <1>3, <1>6 DEF C
  <2>2. pc[c] \in 1 .. Len(Program[c]) /\ Program[c][pc[c]] = "release"
    BY <1>3, LineTypeFacts DEF Line!Step
  <2>3. Program[c][After(c, pc[c])] \notin {"get", "release"}
    BY <1>3, <2>2, AfterFacts
  <2>4. QED
    BY <2>1, <2>3
<1>9. Line!TypeOK'
  BY <1>1, <1>6 DEF LineInv, Line!TypeOK, LineMessages
<1>10. LockOK'
  <2>1. Elements(line_lock_cb) = {} /\ Elements(line_lock_cb)' = {}
    BY <1>1 DEF Elements
  <2>2. \A d \in Clients : line_client'[d] # "received"
    BY <1>4, <1>8, <2>1 DEF LineInv, LockOK
  <2>3. \A d \in Clients : Program[d][pc'[d]] \notin {"get", "release"}
    BY <1>4, <1>8 DEF LineInv, LockOK, Line!Step
  <2>4. Distinct(line_lock_cb)'
    BY <1>1 DEF LineInv, LockOK, Distinct
  <2>5. QED
    BY <1>1, <1>3, <2>1, <2>2, <2>3, <2>4 DEF LockOK, Line!Step
<1>11. IntrOK' /\ FlagsOK'
  <2>1. \A n \in {Line!Tx, Line!Rx} : line_notifier'[n] = line_notifier[n]
    BY <1>3, <1>7
  <2>2. QED
    BY <1>1, <2>1 DEF LineInv, IntrOK, FlagsOK
<1>12. LineOK'
  BY <1>1, <1>3, <1>7 DEF LineInv, LineOK, Clear
<1>13. WaitingOK'
  <2>1. \A d \in Clients : line_client'[d] = "received" => d # c
    BY <1>8
  <2>2. QED
    BY <1>1, <1>3, <1>7, <1>8, <2>1 DEF LineInv, WaitingOK, Line!Step, Line!Data
<1>14. ClearStep
  BY <1>1 DEF ClearStep
<1>15. ASSUME AnswerOK PROVE AnswerOK' /\ ReadsStep
  <2>1. Quiet
    BY <1>3, <1>4, <1>15, AnswerFacts
  <2>2. AnswerOK'
    <3>1. \A d \in Clients : line_owned_by' # d
      BY <1>1, LineTypeFacts
    <3>2. QED
      BY <1>1, <1>15, <2>1, <3>1, QuietAnswer
  <2>3. ReadsStep
    BY <1>3, <1>8 DEF ReadsStep
  <2>4. QED
    BY <2>2, <2>3
<1>16. QED
  BY <1>6, <1>9, <1>10, <1>11, <1>12, <1>13, <1>14, <1>15 DEF LineInv, Served

\* The first task of lock_cb waits to put a byte, and the rest of the queue is its tail.
LEMMA NextOwner ==
  ASSUME Line!Uart1Assumption, LineInv, line_lock_cb # <<>>
  PROVE  LET h == Head(line_lock_cb)
         IN  /\ h \in Clients /\ line_client[h] = "received" /\ h # line_owned_by
             /\ Line!Step(h) \in {"put", "ask"} /\ send_buffer[h] = Line!Data(h)
             /\ Line!Data(h) \in Line!Sent
             /\ Tail(line_lock_cb) \in Seq(Clients) /\ Len(Tail(line_lock_cb)) <= LockCapacity
             /\ Distinct(Tail(line_lock_cb))
             /\ Elements(Tail(line_lock_cb)) = {d \in Clients : line_client[d] = "received" /\ d \notin {line_owned_by, h}}
<1>1. PICK h : h = Head(line_lock_cb)
  OBVIOUS
<1>2. line_lock_cb \in Seq(Clients) /\ Distinct(line_lock_cb) /\ Len(line_lock_cb) <= LockCapacity /\ LockCapacity \in Nat
  BY LineTypeFacts DEF LineInv, Line!TypeOK, LockOK, Line!Uart1Assumption
<1>3. /\ Tail(line_lock_cb) \in Seq(Clients) /\ Len(Tail(line_lock_cb)) = Len(line_lock_cb) - 1
      /\ h \in Elements(line_lock_cb)
      /\ h \in Clients /\ Distinct(Tail(line_lock_cb))
      /\ Elements(Tail(line_lock_cb)) = Elements(line_lock_cb) \ {h}
  BY <1>1, <1>2, QueueTail
<1>4. Elements(line_lock_cb) = {d \in Clients : line_client[d] = "received" /\ line_owned_by # d}
  BY DEF LineInv, LockOK
<1>5. line_client[h] = "received" /\ h # line_owned_by
  BY <1>3, <1>4
<1>6. Line!Step(h) \in {"put", "ask"}
  <2>1. Line!Step(h) \in {"put", "ask", "get", "release"}
    BY <1>3, LineTypeFacts
  <2>2. QED
    BY <1>3, <1>5, <2>1 DEF LineInv, LockOK
<1>7. send_buffer[h] = Line!Data(h) /\ Line!Data(h) \in Line!Sent
  BY <1>3, <1>5, <1>6, LineTypeFacts DEF LineInv, WaitingOK
<1>8. Elements(Tail(line_lock_cb)) = {d \in Clients : line_client[d] = "received" /\ d \notin {line_owned_by, h}}
  BY <1>3, <1>4
<1>9. Len(Tail(line_lock_cb)) <= LockCapacity
  BY <1>2, <1>3
<1>10. QED
  BY <1>1, <1>3, <1>5, <1>6, <1>7, <1>8, <1>9

\* RELEASE_LOCK when the line is ready: the next owner's byte is sent.
LEMMA ReleaseSends ==
  ASSUME Line!Uart1Assumption, LineInv, NEW m, Line!Release(m), line_lock_cb # <<>>, can_send
  PROVE  Served
<1>1. PICK h : h = Head(line_lock_cb)
  OBVIOUS
<1>2. PICK c : c = m.from
  OBVIOUS
<1> DEFINE C == {c, h}
           N == {Line!Tx}
<1>3. /\ Line!Received(m) /\ m.type = "RELEASE_LOCK" /\ Line!Reply(m, C, Line!NoByte, N)
      /\ line_owned_by' = h
      /\ line_lock_cb' = Tail(line_lock_cb) /\ can_send' = FALSE /\ thr' = send_buffer[h]
      /\ UNCHANGED <<want_send, send_buffer, uart1_tx_flag, intr>>
      /\ UNCHANGED <<rdr, cts, dcts, controller, toSend>>
  BY <1>1, <1>2 DEF Line!Release, Line!PutChar, Line!kernel
<1>4. /\ m.from \notin {Line!Tx, Line!Rx} /\ c \in Clients /\ Line!Step(c) = "release"
      /\ line_client[c] = "sent"
      /\ line_notifier[Line!Rx] = "held" /\ want_send = FALSE /\ Clear
      /\ line_notifier[Line!Tx] = "held"
  <2>1. m \in LineMessages /\ MessageOK(m)
    BY <1>3, LineReceivedFacts
  <2>2. m.from \notin {Line!Tx, Line!Rx}
    BY <1>3, <2>1 DEF MessageOK
  <2>3. QED
    BY <1>2, <1>3, <2>2, ClientFacts
<1>5. line_owned_by = c /\ c # NoOwner
  BY <1>4, LineTypeFacts DEF LineInv, LockOK
<1>6. /\ h \in Clients /\ line_client[h] = "received" /\ h # c /\ h # NoOwner
      /\ Line!Step(h) \in {"put", "ask"} /\ send_buffer[h] = Line!Data(h)
      /\ Line!Data(h) \in Line!Sent
      /\ line_lock_cb' \in Seq(Clients) /\ Len(line_lock_cb') <= LockCapacity
      /\ Distinct(line_lock_cb)'
      /\ Elements(line_lock_cb)' = {d \in Clients : line_client[d] = "received" /\ d \notin {c, h}}
  <2>1. /\ h \in Clients /\ line_client[h] = "received" /\ h # c
        /\ Line!Step(h) \in {"put", "ask"} /\ send_buffer[h] = Line!Data(h)
        /\ Line!Data(h) \in Line!Sent
        /\ Tail(line_lock_cb) \in Seq(Clients) /\ Len(Tail(line_lock_cb)) <= LockCapacity
        /\ Distinct(Tail(line_lock_cb))
        /\ Elements(Tail(line_lock_cb)) = {d \in Clients : line_client[d] = "received" /\ d \notin {c, h}}
    BY <1>1, <1>5, NextOwner
  <2>2. QED
    BY <1>3, <2>1, LineTypeFacts
<1>7. /\ C \in SUBSET Clients /\ \A d \in C : d = m.from \/ line_client[d] = "received"
      /\ N \in SUBSET {Line!Tx, Line!Rx} /\ \A n \in N : n = m.from \/ line_notifier[n] = "held"
      /\ Line!NoByte \in 0 .. Bytes
  BY <1>2, <1>4, <1>6, LineTypeFacts
<1> HIDE DEF C, N
<1>8. /\ line_client' \in [Clients -> {"ready", "sent", "received"}]
      /\ result' \in [Clients -> 0 .. Bytes]
      /\ line_notifier' \in [{Line!Tx, Line!Rx} -> {"woken", "sent", "held", "released", "awaiting"}]
      /\ \A d \in Clients :
           /\ line_client'[d] = IF d \in C THEN "ready" ELSE IF d = m.from THEN "received" ELSE line_client[d]
           /\ pc'[d] = (IF d \in C THEN After(d, pc[d]) ELSE pc[d])
           /\ pc'[d] \in 1 .. Len(Program[d])
           /\ d \in C => result'[d] = Line!NoByte
      /\ \A n \in {Line!Tx, Line!Rx} :
           line_notifier'[n] = IF n \in N THEN "released" ELSE IF n = m.from THEN "held" ELSE line_notifier[n]
      /\ line_mailbox' \in Seq(LineMessages) /\ LineMailboxOK' /\ RepliesStep
  BY <1>3, <1>7, ReplyFacts
<1>9. line_notifier'[Line!Rx] = "held" /\ line_notifier'[Line!Tx] = "released"
  BY <1>4, <1>8, LineTypeFacts DEF N
<1>10. /\ \A d \in Clients : d \notin {c, h} => line_client'[d] = line_client[d] /\ pc'[d] = pc[d]
       /\ line_client'[c] = "ready" /\ line_client'[h] = "ready" /\ pc'[h] = After(h, pc[h])
       /\ Program[c][pc'[c]] \notin {"get", "release"}
  <2>1. /\ \A d \in Clients : d \notin {c, h} => line_client'[d] = line_client[d] /\ pc'[d] = pc[d]
        /\ line_client'[c] = "ready" /\ line_client'[h] = "ready" /\ pc'[h] = After(h, pc[h])
        /\ pc'[c] = After(c, pc[c])
    BY <1>2, <1>4, <1>6, <1>8 DEF C
  <2>2. pc[c] \in 1 .. Len(Program[c]) /\ Program[c][pc[c]] = "release"
    BY <1>4, LineTypeFacts DEF Line!Step
  <2>3. Program[c][After(c, pc[c])] \notin {"get", "release"}
    BY <1>4, <2>2, AfterFacts
  <2>4. QED
    BY <2>1, <2>3
<1>11. thr' \in Line!Sent /\ thr' # Line!NoByte
  BY <1>3, <1>6, LineTypeFacts
<1>12. Line!TypeOK'
  BY <1>3, <1>6, <1>8, <1>11 DEF LineInv, Line!TypeOK, LineMessages
<1>13. LockOK'
  <2>1. {d \in Clients : line_client'[d] = "received" /\ line_owned_by' # d}
          = {d \in Clients : line_client[d] = "received" /\ d \notin {c, h}}
    <3>1. ASSUME NEW d \in Clients
          PROVE  line_client'[d] = "received" /\ line_owned_by' # d <=> line_client[d] = "received" /\ d \notin {c, h}
      BY <1>3, <1>10
    <3>2. QED
      BY <3>1
  <2>2. ASSUME NEW d \in Clients, Program[d][pc'[d]] \in {"get", "release"} PROVE d = h
    <3>1. d \notin {c, h} => line_owned_by = d
      BY <1>10, <2>2 DEF LineInv, LockOK, Line!Step
    <3>2. QED
      BY <1>5, <1>10, <2>2, <3>1
  <2>3. QED
    BY <1>3, <1>4, <1>6, <2>1, <2>2 DEF LockOK, Line!Step
<1>14. IntrOK' /\ FlagsOK'
  BY <1>3, <1>4, <1>9 DEF LineInv, IntrOK, FlagsOK
<1>15. LineOK'
  BY <1>3, <1>4, <1>9 DEF LineInv, LineOK, Clear
<1>16. WaitingOK'
  <2>1. \A d \in Clients : line_client'[d] = "received" => d \notin {c, h}
    BY <1>10
  <2>2. QED
    BY <1>3, <1>4, <1>9, <1>10, <2>1 DEF LineInv, WaitingOK, Line!Step, Line!Data
<1>17. ClearStep
  BY <1>4 DEF ClearStep
<1>18. ASSUME AnswerOK PROVE AnswerOK' /\ ReadsStep
  <2>1. Quiet
    BY <1>4, <1>5, <1>18, AnswerFacts
  <2>2. AnswerOK'
    BY <1>3, <1>4, <1>6, <1>9, <1>10, <1>18, <2>1, PutAnswer
  <2>3. ReadsStep
    BY <1>4, <1>6, <1>10 DEF ReadsStep
  <2>4. QED
    BY <2>2, <2>3
<1>19. QED
  BY <1>8, <1>12, <1>13, <1>14, <1>15, <1>16, <1>17, <1>18 DEF LineInv, Served

\* RELEASE_LOCK when it is not: the next owner's byte waits.
LEMMA ReleaseWaits ==
  ASSUME Line!Uart1Assumption, LineInv, NEW m, Line!Release(m), line_lock_cb # <<>>, ~can_send
  PROVE  Served
<1>1. PICK h : h = Head(line_lock_cb)
  OBVIOUS
<1>2. PICK c : c = m.from
  OBVIOUS
<1> DEFINE C == {c}
           N == {}
<1>3. /\ Line!Received(m) /\ m.type = "RELEASE_LOCK" /\ Line!Reply(m, C, Line!NoByte, N)
      /\ line_owned_by' = h
      /\ line_lock_cb' = Tail(line_lock_cb) /\ want_send' = TRUE
      /\ UNCHANGED <<can_send, send_buffer, uart1_tx_flag, intr>>
      /\ UNCHANGED <<thr, rdr, cts, dcts, controller, toSend>>
  BY <1>1, <1>2 DEF Line!Release, Line!kernel, Line!line
<1>4. /\ m.from \notin {Line!Tx, Line!Rx} /\ c \in Clients /\ Line!Step(c) = "release"
      /\ line_client[c] = "sent"
      /\ line_notifier[Line!Rx] = "held"
  <2>1. m \in LineMessages /\ MessageOK(m)
    BY <1>3, LineReceivedFacts
  <2>2. m.from \notin {Line!Tx, Line!Rx}
    BY <1>3, <2>1 DEF MessageOK
  <2>3. QED
    BY <1>2, <1>3, <2>2, ClientFacts
<1>5. line_owned_by = c /\ c # NoOwner
  BY <1>4, LineTypeFacts DEF LineInv, LockOK
<1>6. /\ h \in Clients /\ line_client[h] = "received" /\ h # c /\ h # NoOwner
      /\ Line!Step(h) \in {"put", "ask"}
      /\ line_lock_cb' \in Seq(Clients) /\ Len(line_lock_cb') <= LockCapacity
      /\ Distinct(line_lock_cb)'
      /\ Elements(line_lock_cb)' = {d \in Clients : line_client[d] = "received" /\ d \notin {c, h}}
  <2>1. /\ h \in Clients /\ line_client[h] = "received" /\ h # c /\ Line!Step(h) \in {"put", "ask"}
        /\ Tail(line_lock_cb) \in Seq(Clients) /\ Len(Tail(line_lock_cb)) <= LockCapacity
        /\ Distinct(Tail(line_lock_cb))
        /\ Elements(Tail(line_lock_cb)) = {d \in Clients : line_client[d] = "received" /\ d \notin {c, h}}
    BY <1>1, <1>5, NextOwner
  <2>2. QED
    BY <1>3, <2>1, LineTypeFacts
<1>7. /\ C \in SUBSET Clients /\ \A d \in C : d = m.from \/ line_client[d] = "received"
      /\ N \in SUBSET {Line!Tx, Line!Rx} /\ \A n \in N : n = m.from \/ line_notifier[n] = "held"
      /\ Line!NoByte \in 0 .. Bytes
  BY <1>2, <1>4, LineTypeFacts
<1> HIDE DEF C, N
<1>8. /\ line_client' \in [Clients -> {"ready", "sent", "received"}]
      /\ result' \in [Clients -> 0 .. Bytes]
      /\ line_notifier' \in [{Line!Tx, Line!Rx} -> {"woken", "sent", "held", "released", "awaiting"}]
      /\ \A d \in Clients :
           /\ line_client'[d] = IF d \in C THEN "ready" ELSE IF d = m.from THEN "received" ELSE line_client[d]
           /\ pc'[d] = (IF d \in C THEN After(d, pc[d]) ELSE pc[d])
           /\ pc'[d] \in 1 .. Len(Program[d])
           /\ d \in C => result'[d] = Line!NoByte
      /\ \A n \in {Line!Tx, Line!Rx} :
           line_notifier'[n] = IF n \in N THEN "released" ELSE IF n = m.from THEN "held" ELSE line_notifier[n]
      /\ line_mailbox' \in Seq(LineMessages) /\ LineMailboxOK' /\ RepliesStep
  BY <1>3, <1>7, ReplyFacts
<1>9. line_notifier'[Line!Rx] = "held" /\ line_notifier'[Line!Tx] = line_notifier[Line!Tx]
  BY <1>4, <1>8 DEF N
<1>10. /\ \A d \in Clients : d # c => line_client'[d] = line_client[d] /\ pc'[d] = pc[d]
       /\ line_client'[c] = "ready" /\ Program[c][pc'[c]] \notin {"get", "release"}
  <2>1. /\ \A d \in Clients : d # c => line_client'[d] = line_client[d] /\ pc'[d] = pc[d]
        /\ line_client'[c] = "ready" /\ pc'[c] = After(c, pc[c])
    BY <1>2, <1>4, <1>8 DEF C
  <2>2. pc[c] \in 1 .. Len(Program[c]) /\ Program[c][pc[c]] = "release"
    BY <1>4, LineTypeFacts DEF Line!Step
  <2>3. Program[c][After(c, pc[c])] \notin {"get", "release"}
    BY <1>4, <2>2, AfterFacts
  <2>4. QED
    BY <2>1, <2>3
<1>11. Line!TypeOK'
  BY <1>3, <1>6, <1>8 DEF LineInv, Line!TypeOK, LineMessages
<1>12. LockOK'
  <2>1. {d \in Clients : line_client'[d] = "received" /\ line_owned_by' # d}
          = {d \in Clients : line_client[d] = "received" /\ d \notin {c, h}}
    <3>1. ASSUME NEW d \in Clients
          PROVE  line_client'[d] = "received" /\ line_owned_by' # d <=> line_client[d] = "received" /\ d \notin {c, h}
      BY <1>3, <1>10
    <3>2. QED
      BY <3>1
  <2>2. ASSUME NEW d \in Clients, Program[d][pc'[d]] \in {"get", "release"} PROVE FALSE
    <3>1. d # c => line_owned_by = d
      BY <1>10, <2>2 DEF LineInv, LockOK, Line!Step
    <3>2. QED
      BY <1>5, <1>10, <2>2, <3>1
  <2>3. want_send' => ~can_send' /\ line_client'[line_owned_by'] = "received"
                      /\ Program[line_owned_by'][pc'[line_owned_by']] \in {"put", "ask"}
    BY <1>3, <1>6, <1>10 DEF Line!Step
  <2>4. QED
    BY <1>3, <1>6, <2>1, <2>2, <2>3 DEF LockOK, Line!Step
<1>13. IntrOK' /\ FlagsOK'
  <2>1. \A n \in {Line!Tx, Line!Rx} : line_notifier'[n] = line_notifier[n]
    BY <1>4, <1>9
  <2>2. QED
    BY <1>3, <2>1 DEF LineInv, IntrOK, FlagsOK
<1>14. LineOK'
  BY <1>3, <1>9 DEF LineInv, LineOK, Clear
<1>15. WaitingOK'
  <2>1. \A d \in Clients : line_client'[d] = "received" => d # c
    BY <1>10
  <2>2. QED
    BY <1>3, <1>4, <1>6, <1>9, <1>10, <2>1 DEF LineInv, WaitingOK, Line!Step, Line!Data
<1>16. ClearStep
  BY <1>3 DEF ClearStep
<1>17. ASSUME AnswerOK PROVE AnswerOK' /\ ReadsStep
  <2>1. Quiet
    BY <1>4, <1>5, <1>17, AnswerFacts
  <2>2. AnswerOK'
    <3>1. \A d \in Clients : line_owned_by' = d => Program[d][pc'[d]] # "get"
      BY <1>3, <1>6, <1>10 DEF Line!Step
    <3>2. QED
      BY <1>3, <1>17, <2>1, <3>1, QuietAnswer
  <2>3. ReadsStep
    BY <1>4, <1>10 DEF ReadsStep
  <2>4. QED
    BY <2>2, <2>3
<1>18. QED
  BY <1>8, <1>11, <1>12, <1>13, <1>14, <1>15, <1>16, <1>17 DEF LineInv, Served

LEMMA ServeInv ==
  ASSUME Line!Uart1Assumption, LineInv, Line!Serve
  PROVE  Served
<1>1. PICK m : \/ Line!TxGood(m) \/ Line!RxGood(m)
               \/ Line!SendCharOwner(m) \/ Line!SendCharOther(m) \/ Line!GetChar(m) \/ Line!Release(m)
  BY DEF Line!Serve
<1>2. CASE Line!TxGood(m)
  BY <1>2, TxGoodSends, TxGoodKeeps
<1>3. CASE Line!RxGood(m)
  BY <1>3, RxGoodInv
<1>4. CASE Line!SendCharOwner(m)
  BY <1>4, SendCharSends, SendCharWaits
<1>5. CASE Line!SendCharOther(m)
  BY <1>5, LineSendCharOtherInv
<1>6. CASE Line!GetChar(m)
  BY <1>6, GetCharReads, GetCharWaits
<1>7. CASE Line!Release(m)
  BY <1>7, ReleaseFrees, ReleaseSends, ReleaseWaits
<1>8. QED
  BY <1>1, <1>2, <1>3, <1>4, <1>5, <1>6, <1>7

\* The steps of the line, the notifiers, the kernel and the tasks neither put a byte in the
\* transmit register nor reply.
LEMMA OtherSteps ==
  ASSUME Line!Uart1Assumption, LineInv, Line!Line \/ Line!Notifiers \/ Line!Interrupt \/ (\E c \in Clients : Line!Call(c)) \/ UNCHANGED Line!vars
  PROVE  ClearStep /\ RepliesStep /\ ReadsStep
<1>1. /\ thr' \in {Line!NoByte, thr} /\ UNCHANGED pc
      /\ line_client' = line_client \/ \E c \in Clients : line_client' = [line_client EXCEPT ![c] = "sent"]
      /\ \A n \in {Line!Tx, Line!Rx} : line_notifier'[n] = "released" => line_notifier[n] = "released"
  <2>1. CASE Line!Line
    BY <2>1 DEF Line!Line, Line!ShiftOut, Line!LowerCts, Line!RaiseCts, Line!ByteArrives, Line!tasks
  <2>2. CASE Line!Notifiers
    <3>1. /\ thr' = thr /\ UNCHANGED <<pc, line_client>>
      BY <2>2 DEF Line!Notifiers, Line!TxAwaits, Line!RxAwaits, Line!TxSends, Line!RxSends, Line!line, Line!tasks
    <3>2. \E n \in {Line!Tx, Line!Rx} : line_notifier' = [line_notifier EXCEPT ![n] = "awaiting"]
                              \/ line_notifier' = [line_notifier EXCEPT ![n] = "sent"]
      BY <2>2 DEF Line!Notifiers, Line!TxAwaits, Line!RxAwaits, Line!TxSends, Line!RxSends
    <3>3. QED
      BY <3>1, <3>2, LineTypeFacts
  <2>3. CASE Line!Interrupt
    BY <2>3, LineTypeFacts DEF Line!Interrupt, Line!tasks
  <2>4. CASE \E c \in Clients : Line!Call(c)
    BY <2>4 DEF Line!Call, Line!line
  <2>5. CASE UNCHANGED Line!vars
    BY <2>5 DEF Line!vars, Line!line, Line!tasks
  <2>6. QED
    BY <2>1, <2>2, <2>3, <2>4, <2>5
<1>2. \A c \in Clients : line_client'[c] = "ready" => line_client[c] = "ready"
  BY <1>1, LineTypeFacts
<1>3. QED
  BY <1>1, <1>2 DEF ClearStep, RepliesStep, ReadsStep

LEMMA LineNextInv ==
  ASSUME Line!Uart1Assumption, LineInv, [Line!Next]_(Line!vars)
  PROVE  /\ LineInv' /\ ClearStep /\ RepliesStep
         /\ Prompt /\ AnswerOK => AnswerOK' /\ ReadsStep
<1>1. CASE Line!Serve
  BY <1>1, ServeInv DEF Served
<1>2. CASE Line!Line
  BY <1>2, LineOKInv, OtherSteps
<1>3. CASE Line!Notifiers
  BY <1>3, TxAwaitsInv, RxAwaitsInv, TxSendsInv, RxSendsInv, OtherSteps DEF Line!Notifiers
<1>4. CASE Line!Interrupt
  BY <1>4, InterruptInv, OtherSteps
<1>5. CASE \E c \in Clients : Line!Call(c)
  BY <1>5, CallInv, OtherSteps
<1>6. CASE UNCHANGED Line!vars
  BY <1>6, LineStutterInv, OtherSteps
<1>7. QED
  BY <1>1, <1>2, <1>3, <1>4, <1>5, <1>6 DEF Line!Next
-----------------------------------------------------------------------------
LEMMA LineSpecInv == ASSUME Line!Uart1Assumption PROVE LinesSpec => []LineInv
<1>1. LinesInit => LineInv
  BY LineInitInv DEF LinesInit
<1>2. LineInv /\ [LinesNext]_lines => LineInv'
  BY LineNextInv, LinesSteps
<1>3. QED
  BY <1>1, <1>2, PTL DEF LinesSpec

\* The server, the notifiers, the kernel's flags and the line keep their types: in particular
\* lock_cb never holds more tasks than its capacity.
THEOREM Uart1TypeCorrect == ASSUME Line!Uart1Assumption PROVE LinesSpec => []Line!TypeOK
<1>1. LineInv => Line!TypeOK
  BY DEF LineInv
<1>2. QED
  BY <1>1, LineSpecInv, PTL

\* A task that is not the owner of the terminal or of the train line waits in its lock_cb, once;
\* only the owner reads and releases, so the KASSERTs of RELEASE_LOCK hold; the terminal's
\* server replies to nobody who does not wait; and an enabled interrupt has its notifier.
THEOREM LinesLocked == ASSUME LinesAssumption PROVE LinesSpec => []LocksConsistent
<1>1. OutputInv /\ LineInv => LocksConsistent
  BY LocksHold DEF OutputInv, LocksConsistent
<1>2. LinesSpec => []OutputInv /\ []LineInv
  BY SpecInv, LineSpecInv DEF LinesAssumption
<1>3. QED
  BY <1>1, <1>2, PTL

\* uart_com1_server puts a byte in the transmit register only when the one before has left and
\* the controller is ready for it.
THEOREM BytesWhenClear == ASSUME Line!Uart1Assumption PROVE LinesSpec => TransmitsWhenClear
<1>1. LineInv /\ [LinesNext]_lines =>
        [thr' \notin {Line!NoByte, thr} => thr = Line!NoByte /\ cts /\ controller[1] = "clear"]_(Line!vars)
  BY LineNextInv, LinesSteps DEF ClearStep, Clear
<1>2. QED
  BY <1>1, LineSpecInv, PTL DEF LinesSpec, TransmitsWhenClear, Line!TransmitsWhenClear

\* Every reply of uart_com1_server goes to a task that waits for one.
THEOREM RepliesToWaiting == ASSUME Line!Uart1Assumption PROVE LinesSpec => Line!RepliesAwaited
<1>1. LineInv /\ [LinesNext]_lines =>
        [/\ \A c \in Clients : line_client[c] # "ready" /\ line_client'[c] = "ready" =>
              line_client[c] = "received" \/ Head(line_mailbox).from = c
         /\ \A c \in Clients : pc'[c] # pc[c] => line_client[c] # "ready"
         /\ \A n \in {Line!Tx, Line!Rx} :
              line_notifier[n] # "released" /\ line_notifier'[n] = "released" =>
                line_notifier[n] = "held" \/ Head(line_mailbox).from = n]_(Line!vars)
  BY LineNextInv, LinesSteps DEF RepliesStep
<1>2. QED
  BY <1>1, LineSpecInv, PTL DEF LinesSpec, Line!RepliesAwaited

\* If the notifiers keep up with the line, a task reads the bytes of the answer to its question
\* in order, and each once, whatever the programs and however long the answers are.
THEOREM AnswersRead == ASSUME Line!Uart1Assumption, Prompt PROVE LinesSpec => AnswersInOrder
<1>1. LinesInit => LineInv /\ AnswerOK
  BY LineInitInv DEF LinesInit
<1>2. (LineInv /\ AnswerOK) /\ [LinesNext]_lines => (LineInv /\ AnswerOK)'
  BY LineNextInv, LinesSteps
<1>3. LineInv /\ AnswerOK /\ [LinesNext]_lines =>
        [\A c \in Clients : pc'[c] # pc[c] /\ Line!Step(c) = "get" =>
           LET asks == {i \in 1 .. pc[c] : Program[c][i] = "ask"}
               ask == CHOOSE i \in asks : \A j \in asks : j <= i
           IN  result'[c] = pc[c] - ask]_(Line!vars)
  BY LineNextInv, LinesSteps DEF ReadsStep
<1>4. LinesSpec => Line!ReadsInOrder
  BY <1>1, <1>2, <1>3, PTL DEF LinesSpec, Line!ReadsInOrder
<1>5. QED
  BY <1>4, RepliesToWaiting DEF AnswersInOrder, Line!AnswersInOrder
=============================================================================
