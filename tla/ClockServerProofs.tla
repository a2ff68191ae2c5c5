-------------------------- MODULE ClockServerProofs --------------------------
(***************************************************************************)
(* Proofs, for all sets of clients, numbers of delay nodes and arguments   *)
(* of the calls, of the safety properties of ClockServer.                  *)
(***************************************************************************)
EXTENDS ClockServer, FiniteSetTheorems, FunctionTheorems, SequenceTheorems,
        WellFoundedInduction, TLAPS

\* The messages in want_send: one at most of each task, made in the past, and their senders
\* wait for the reply.
MailboxOK ==
  /\ \A i \in 1 .. Len(mailbox) : LET m == mailbox[i]
       IN  /\ m.at <= Elapsed
           /\ m.type = "TICK" <=> m.from = Notifier
           /\ m.from = Notifier => notifier = "sent"
           /\ m.from # Notifier => cstate[m.from] = "queued"
  /\ \A i, j \in 1 .. Len(mailbox) : mailbox[i].from = mailbox[j].from => i = j

\* The tick under way is within the bound.
TicksBounded == notifier \in {"woken", "sent"} => ticks < MaxTicks

\* A node's time is the instant asked for, or the time of the Delay's receipt and its
\* argument; at most one tick was under way when the Delay was received.
AskedOK ==
  \A i \in 1 .. Len(delays) : LET m == delays[i].asked
    IN  /\ m.type \in {"DELAY", "DELAYUNTIL"}
        /\ m.type = "DELAYUNTIL" => m.data = delays[i].time
        /\ m.type = "DELAY" => m.at <= delays[i].time - m.data + missed + 1

Inv == TypeOK /\ SleepersInOrder /\ MailboxOK /\ TicksBounded /\ AskedOK

Nodes == [client : Clients, time : Int, asked : Messages]

-----------------------------------------------------------------------------
(* Sequences, and the first of some numbers *)

\* InsertAt of the community modules.
LEMMA InsertAtFacts ==
  ASSUME NEW S, NEW s \in Seq(S), NEW i \in 1 .. Len(s) + 1, NEW e \in S
  PROVE  /\ InsertAt(s, i, e) \in Seq(S) /\ Len(InsertAt(s, i, e)) = Len(s) + 1
         /\ \A j \in 1 .. Len(s) + 1 :
              InsertAt(s, i, e)[j] = IF j < i THEN s[j] ELSE IF j = i THEN e ELSE s[j - 1]
<1> DEFINE a == SubSeq(s, 1, i - 1)
           b == SubSeq(s, i, Len(s))
           m == <<e>>
<1>1. a \in Seq(S) /\ Len(a) = i - 1 /\ \A j \in 1 .. i - 1 : a[j] = s[j]
  OBVIOUS
<1>2. b \in Seq(S) /\ Len(b) = Len(s) + 1 - i /\ \A j \in 1 .. Len(s) + 1 - i : b[j] = s[i + j - 1]
  OBVIOUS
<1>3. m \in Seq(S) /\ Len(m) = 1 /\ m[1] = e
  OBVIOUS
<1>4. InsertAt(s, i, e) = (a \o m) \o b
  BY DEF InsertAt
<1> HIDE DEF a, b, m
<1>5. /\ a \o m \in Seq(S) /\ Len(a \o m) = i
      /\ \A j \in 1 .. i : (a \o m)[j] = IF j < i THEN s[j] ELSE e
  <2>1. /\ a \o m \in Seq(S) /\ Len(a \o m) = Len(a) + Len(m)
        /\ \A j \in 1 .. Len(a) + Len(m) :
             (a \o m)[j] = IF j <= Len(a) THEN a[j] ELSE m[j - Len(a)]
    BY <1>1, <1>3, ConcatProperties, Zenon
  <2> DEFINE c == a \o m
  <2> HIDE DEF c
  <2>2. /\ c \in Seq(S) /\ Len(c) = Len(a) + Len(m)
        /\ \A j \in 1 .. Len(a) + Len(m) : c[j] = IF j <= Len(a) THEN a[j] ELSE m[j - Len(a)]
    BY <2>1 DEF c
  <2>3. /\ c \in Seq(S) /\ Len(c) = i /\ \A j \in 1 .. i : c[j] = IF j < i THEN s[j] ELSE e
    BY <1>1, <1>3, <2>2
  <2>4. QED
    BY <2>3 DEF c
<1> DEFINE c == a \o m
<1> HIDE DEF c
<1>6. c \in Seq(S) /\ Len(c) = i /\ \A j \in 1 .. i : c[j] = IF j < i THEN s[j] ELSE e
  BY <1>5 DEF c
<1>7. /\ c \o b \in Seq(S) /\ Len(c \o b) = Len(s) + 1
      /\ \A j \in 1 .. Len(s) + 1 :
           (c \o b)[j] = IF j < i THEN s[j] ELSE IF j = i THEN e ELSE s[j - 1]
  <2>1. /\ c \o b \in Seq(S) /\ Len(c \o b) = Len(c) + Len(b)
        /\ \A j \in 1 .. Len(c) + Len(b) :
             (c \o b)[j] = IF j <= Len(c) THEN c[j] ELSE b[j - Len(c)]
    BY <1>2, <1>6, ConcatProperties, Zenon
  <2> DEFINE d == c \o b
  <2> HIDE DEF d
  <2>2. /\ d \in Seq(S) /\ Len(d) = Len(c) + Len(b)
        /\ \A j \in 1 .. Len(c) + Len(b) : d[j] = IF j <= Len(c) THEN c[j] ELSE b[j - Len(c)]
    BY <2>1 DEF d
  <2>3. Len(c) + Len(b) = Len(s) + 1
    BY <1>2, <1>6
  <2>4. \A j \in 1 .. Len(s) + 1 : d[j] = IF j < i THEN s[j] ELSE IF j = i THEN e ELSE s[j - 1]
    <3> SUFFICES ASSUME NEW j \in 1 .. Len(s) + 1
                 PROVE  d[j] = IF j < i THEN s[j] ELSE IF j = i THEN e ELSE s[j - 1]
      OBVIOUS
    <3>1. CASE j <= i
      BY <1>6, <2>2, <2>3, <3>1
    <3>2. CASE j > i
      <4>1. d[j] = b[j - i] /\ j - i \in 1 .. Len(s) + 1 - i
        BY <1>6, <2>2, <2>3, <3>2
      <4>2. b[j - i] = s[j - 1]
        BY <1>2, <4>1
      <4>3. QED
        BY <3>2, <4>1, <4>2
    <3>3. QED
      BY <3>1, <3>2
  <2>5. QED
    BY <2>2, <2>3, <2>4 DEF d
<1>8. QED
  BY <1>4, <1>7 DEF c

\* Of the numbers up to n, those before the first of T.
LEMMA FirstOf ==
  ASSUME NEW n \in Nat, NEW T \in SUBSET (1 .. n)
  PROVE  \E k \in 0 .. n : (\A i \in 1 .. k : i \notin T) /\ (k < n => k + 1 \in T)
<1>1. CASE T = {}
  BY <1>1
<1>2. CASE T # {}
  <2> DEFINE R == {ss \in Nat \X Nat : ss[1] < ss[2]}
  <2>1. IsWellFoundedOn(R, Nat)
    BY NatLessThanWellFounded DEF OpToRel
  <2>2. \A x, y \in Nat : x < y => <<x, y>> \in R
    OBVIOUS
  <2> HIDE DEF R
  <2>0. T \subseteq Nat
    OBVIOUS
  <2>3. PICK x \in T : \A y \in T : ~(<<y, x>> \in R)
    BY <1>2, <2>1, <2>0, WFMin
  <2>4. \A y \in T : ~(y < x)
    BY <2>2, <2>3, <2>0
  <2>5. x - 1 \in 0 .. n /\ x - 1 + 1 = x
    OBVIOUS
  <2>6. \A i \in 1 .. x - 1 : i \notin T
    BY <2>4
  <2>7. QED
    BY <2>5, <2>6
<1>3. QED
  BY <1>1, <1>2

-----------------------------------------------------------------------------
(* What the steps leave alone *)

LEMMA TypeFacts ==
  ASSUME Inv
  PROVE  /\ ticks \in Nat /\ missed \in Nat /\ free \in Nat /\ Elapsed \in Nat
         /\ delays \in Seq(Nodes) /\ Len(delays) \in Nat
         /\ \A i \in 1 .. Len(delays) : /\ delays[i] \in Nodes /\ delays[i].client \in Clients
                                         /\ delays[i].time \in Int /\ delays[i].asked \in Messages
                                         /\ delays[i].asked.data \in Int
                                         /\ delays[i].asked.at \in Nat
                                         /\ delays[i].time > ticks
                                         /\ cstate[delays[i].client] = "sleeping"
         /\ mailbox \in Seq(Messages)
         /\ \A i \in 1 .. Len(mailbox) : mailbox[i] \in Messages /\ mailbox[i].at \in Nat
<1>1. /\ ticks \in 0 .. MaxTicks /\ missed \in 0 .. MaxMissed /\ free \in 0 .. Slots
      /\ delays \in Seq(Nodes) /\ mailbox \in Seq(Messages)
  BY DEF Inv, TypeOK, Nodes
<1>2. ticks \in Nat /\ missed \in Nat /\ free \in Nat
  BY <1>1, ClockAssumption
<1>3. Elapsed \in Nat
  BY <1>2 DEF Elapsed
<1>4. /\ Len(delays) \in Nat /\ \A i \in 1 .. Len(delays) : delays[i] \in Nodes
      /\ \A i \in 1 .. Len(mailbox) : mailbox[i] \in Messages
  BY <1>1
<1>5. ASSUME NEW i \in 1 .. Len(delays)
      PROVE  /\ delays[i].client \in Clients
             /\ delays[i].time \in Int /\ delays[i].asked \in Messages
             /\ delays[i].asked.data \in Int
             /\ delays[i].asked.at \in Nat
  BY <1>4 DEF Nodes, Messages
<1>6. ASSUME NEW i \in 1 .. Len(delays)
      PROVE  delays[i].time > ticks /\ cstate[delays[i].client] = "sleeping"
  BY DEF Inv, SleepersInOrder
<1>7. \A i \in 1 .. Len(mailbox) : mailbox[i].at \in Nat
  BY <1>4 DEF Messages
<1>8. QED
  BY <1>1, <1>2, <1>3, <1>4, <1>5, <1>6, <1>7

\* The list and its clients.
LEMMA ListKept ==
  ASSUME SleepersInOrder, UNCHANGED <<delays, ticks, free, panic>>,
         \A c \in Clients : cstate'[c] = "sleeping" <=> cstate[c] = "sleeping"
  PROVE  SleepersInOrder'
<1>1. {c \in Clients : cstate'[c] = "sleeping"} = {c \in Clients : cstate[c] = "sleeping"}
  OBVIOUS
<1>2. QED
  BY <1>1 DEF SleepersInOrder

\* The mailbox and its senders.
LEMMA MailboxKept ==
  ASSUME Inv, UNCHANGED <<mailbox, cstate>>, Elapsed' \in Nat, Elapsed <= Elapsed',
         notifier = "sent" => notifier' = "sent"
  PROVE  MailboxOK'
<1>1. ASSUME NEW i \in 1 .. Len(mailbox) PROVE mailbox[i].at <= Elapsed'
  BY TypeFacts DEF Inv, MailboxOK
<1>2. QED
  BY <1>1 DEF Inv, MailboxOK

LEMMA InitInv == Init => Inv
<1> SUFFICES ASSUME Init PROVE Inv
  OBVIOUS
<1>1. TypeOK
  <2>1. ticks \in 0 .. MaxTicks /\ free \in 0 .. Slots /\ missed \in 0 .. MaxMissed
    BY ClockAssumption DEF Init
  <2>2. /\ delays \in Seq([client : Clients, time : Int, asked : Messages])
        /\ mailbox \in Seq(Messages)
    BY DEF Init
  <2>3. QED
    BY <2>1, <2>2 DEF Init, TypeOK
<1>2. SleepersInOrder
  BY ClockAssumption DEF Init, SleepersInOrder
<1>3. MailboxOK /\ TicksBounded /\ AskedOK
  BY DEF Init, MailboxOK, TicksBounded, AskedOK
<1>4. QED
  BY <1>1, <1>2, <1>3 DEF Inv

-----------------------------------------------------------------------------
(* The notifier, the timer interrupt and the clients *)

LEMMA StutterInv == ASSUME Inv, UNCHANGED vars PROVE Inv'
BY DEF vars, Inv, TypeOK, SleepersInOrder, MailboxOK, TicksBounded, AskedOK, Elapsed

\* The steps of the notifier and the interrupt that put no message into the mailbox.
LEMMA NotifierInv ==
  ASSUME Inv, NotifierAwaits \/ TimerWakes \/ TimerMissed
  PROVE  Inv'
<1>1. /\ UNCHANGED <<ticks, delays, free, mailbox, cstate, panic>> /\ replies' = {}
      /\ notifier = "sent" => notifier' = "sent"
      /\ notifier' \in {"looping", "parked", "woken", "sent"}
      /\ missed' \in 0 .. MaxMissed /\ missed <= missed'
  BY ClockAssumption DEF NotifierAwaits, TimerWakes, TimerMissed, Inv, TypeOK
<1>2. missed' \in Nat /\ Elapsed' \in Nat /\ Elapsed <= Elapsed'
  <2>1. missed' \in Nat
    BY <1>1, ClockAssumption
  <2>2. QED
    BY <1>1, <2>1, TypeFacts DEF NotifierAwaits, TimerWakes, TimerMissed, Elapsed
<1>3. TypeOK'
  BY <1>1 DEF Inv, TypeOK
<1>4. SleepersInOrder'
  BY <1>1, ListKept DEF Inv
<1>5. MailboxOK'
  BY <1>1, <1>2, MailboxKept
<1>6. TicksBounded'
  BY <1>1 DEF Inv, TicksBounded, NotifierAwaits, TimerWakes, TimerMissed
<1>7. AskedOK'
  <2> SUFFICES ASSUME NEW i \in 1 .. Len(delays), delays[i].asked.type = "DELAY"
               PROVE  delays[i].asked.at
                        <= delays[i].time - delays[i].asked.data + missed' + 1
    BY <1>1 DEF Inv, AskedOK
  <2>1. delays[i].asked.at <= delays[i].time - delays[i].asked.data + missed + 1
    BY DEF Inv, AskedOK
  <2>2. /\ delays[i].asked.at \in Nat /\ delays[i].time \in Int
        /\ delays[i].asked.data \in Int /\ missed \in Nat
    BY TypeFacts
  <2>3. QED
    BY <1>1, <1>2, <2>1, <2>2
<1>8. QED
  BY <1>3, <1>4, <1>5, <1>6, <1>7 DEF Inv

\* A task whose message the mailbox does not hold sends one.
LEMMA SendFacts ==
  ASSUME Inv, NEW m \in Messages, mailbox' = Append(mailbox, m),
         m.at = Elapsed, Elapsed' = Elapsed, m.type = "TICK" <=> m.from = Notifier,
         m.from = Notifier => notifier # "sent" /\ notifier' = "sent" /\ UNCHANGED cstate,
         m.from # Notifier => /\ cstate[m.from] # "queued" /\ UNCHANGED notifier
                              /\ cstate' = [cstate EXCEPT ![m.from] = "queued"]
  PROVE  mailbox' \in Seq(Messages) /\ MailboxOK'
<1>1. mailbox \in Seq(Messages) /\ Len(mailbox) \in Nat
  BY TypeFacts
<1>2. /\ mailbox' \in Seq(Messages) /\ Len(mailbox') = Len(mailbox) + 1
      /\ mailbox'[Len(mailbox) + 1] = m
      /\ \A i \in 1 .. Len(mailbox) : mailbox'[i] = mailbox[i]
  BY <1>1
<1>3. cstate \in [Clients -> {"idle", "queued", "sleeping"}]
      /\ (m.from = Notifier \/ m.from \in Clients)
  BY DEF Inv, TypeOK, Messages
<1>4. \A i \in 1 .. Len(mailbox) : mailbox[i].from # m.from
  BY DEF Inv, MailboxOK
<1>5. ASSUME NEW i \in 1 .. Len(mailbox')
      PROVE  LET n == mailbox'[i]
             IN  /\ n.at <= Elapsed
                 /\ n.type = "TICK" <=> n.from = Notifier
                 /\ n.from = Notifier => notifier' = "sent"
                 /\ n.from # Notifier => cstate'[n.from] = "queued"
  <2>1. CASE i = Len(mailbox) + 1
    BY <1>2, <1>3, <2>1, TypeFacts
  <2>2. CASE i # Len(mailbox) + 1
    <3>1. i \in 1 .. Len(mailbox)
      BY <1>1, <1>2, <2>2
    <3>2. mailbox'[i] = mailbox[i] /\ mailbox[i].from # m.from
      BY <1>2, <1>4, <3>1
    <3>3. mailbox[i].from # Notifier => mailbox[i].from \in Clients
      BY <3>1, TypeFacts DEF Messages
    <3>4. /\ mailbox[i].at <= Elapsed
          /\ mailbox[i].type = "TICK" <=> mailbox[i].from = Notifier
          /\ mailbox[i].from = Notifier => notifier = "sent"
          /\ mailbox[i].from # Notifier => cstate[mailbox[i].from] = "queued"
      BY <3>1 DEF Inv, MailboxOK
    <3>5. mailbox[i].from = Notifier => notifier' = "sent"
      BY <3>2, <3>4
    <3>6. mailbox[i].from # Notifier => cstate'[mailbox[i].from] = "queued"
      BY <1>3, <3>2, <3>3, <3>4
    <3>7. QED
      BY <3>2, <3>4, <3>5, <3>6
  <2>3. QED
    BY <2>1, <2>2
<1>6. \A i, j \in 1 .. Len(mailbox') : mailbox'[i].from = mailbox'[j].from => i = j
  <2>1. \A i \in 1 .. Len(mailbox') : i \in 1 .. Len(mailbox) \/ i = Len(mailbox) + 1
    BY <1>1, <1>2
  <2>2. \A i, j \in 1 .. Len(mailbox) : mailbox[i].from = mailbox[j].from => i = j
    BY DEF Inv, MailboxOK
  <2>3. QED
    BY <1>2, <1>4, <2>1, <2>2
<1>7. QED
  BY <1>2, <1>5, <1>6 DEF MailboxOK

LEMMA NotifierSendsInv == ASSUME Inv, NotifierSends PROVE Inv'
<1> DEFINE m == [from |-> Notifier, type |-> "TICK", data |-> 0, at |-> Elapsed]
<1>1. /\ notifier = "woken" /\ notifier' = "sent" /\ mailbox' = Append(mailbox, m)
      /\ replies' = {} /\ UNCHANGED <<ticks, delays, free, cstate, panic, missed>>
  BY DEF NotifierSends
<1>2. /\ m \in Messages /\ m.at = Elapsed /\ m.type = "TICK" /\ m.from = Notifier
  BY TypeFacts DEF Messages
<1> HIDE DEF m
<1>3. Elapsed' = Elapsed
  BY <1>1 DEF Elapsed
<1>4. mailbox' \in Seq(Messages) /\ MailboxOK'
  BY <1>1, <1>2, <1>3, SendFacts
<1>5. TypeOK'
  BY <1>1, <1>4 DEF Inv, TypeOK
<1>6. SleepersInOrder'
  BY <1>1, ListKept DEF Inv
<1>7. TicksBounded' /\ AskedOK'
  BY <1>1 DEF Inv, TicksBounded, AskedOK
<1>8. QED
  BY <1>4, <1>5, <1>6, <1>7 DEF Inv

LEMMA RequestFacts ==
  ASSUME NEW r \in Requests
  PROVE  r.type \in {"TIME", "DELAY", "DELAYUNTIL"} /\ r.data \in Int
<1>1. CASE r \in [type : {"TIME"}, data : {0}]
  BY <1>1
<1>2. CASE r \in [type : {"DELAY"}, data : Amounts]
  BY <1>2, ClockAssumption
<1>3. CASE r \in [type : {"DELAYUNTIL"}, data : Instants]
  BY <1>3, ClockAssumption
<1>4. QED
  BY <1>1, <1>2, <1>3 DEF Requests

LEMMA CallInv == ASSUME Inv, NEW c \in Clients, NEW r \in Requests, Call(c, r) PROVE Inv'
<1> DEFINE m == [from |-> c, type |-> r.type, data |-> r.data, at |-> Elapsed]
<1>1. /\ cstate[c] = "idle" /\ cstate' = [cstate EXCEPT ![c] = "queued"]
      /\ mailbox' = Append(mailbox, m)
      /\ replies' = {} /\ UNCHANGED <<ticks, delays, free, notifier, panic, missed>>
  BY DEF Call
<1>2. r.type \in {"TIME", "DELAY", "DELAYUNTIL"} /\ r.data \in Int
  BY RequestFacts
<1>3. c # Notifier
  BY ClockAssumption
<1>4. m \in Messages /\ m.at = Elapsed /\ m.type # "TICK" /\ m.from = c
  BY <1>2, TypeFacts DEF Messages
<1> HIDE DEF m
<1>5. Elapsed' = Elapsed
  BY <1>1 DEF Elapsed
<1>6. mailbox' \in Seq(Messages) /\ MailboxOK'
  BY <1>1, <1>3, <1>4, <1>5, SendFacts
<1>7. TypeOK'
  BY <1>1, <1>6 DEF Inv, TypeOK
<1>8. SleepersInOrder'
  <2>1. \A d \in Clients : cstate'[d] = "sleeping" <=> cstate[d] = "sleeping"
    BY <1>1 DEF Inv, TypeOK
  <2>2. QED
    BY <1>1, <2>1, ListKept DEF Inv
<1>9. TicksBounded' /\ AskedOK'
  BY <1>1 DEF Inv, TicksBounded, AskedOK
<1>10. QED
  BY <1>6, <1>7, <1>8, <1>9 DEF Inv

-----------------------------------------------------------------------------
(* The server *)

\* The message at the head of the mailbox, and those behind it.
LEMMA ReceivedFacts ==
  ASSUME Inv, NEW m, Received(m)
  PROVE  /\ ~panic /\ m \in Messages /\ m.at \in Nat /\ m.at <= Elapsed /\ m.data \in Int
         /\ m.type = "TICK" <=> m.from = Notifier
         /\ m.from = Notifier => notifier = "sent"
         /\ m.from # Notifier => m.from \in Clients /\ cstate[m.from] = "queued"
         /\ mailbox' \in Seq(Messages) /\ mailbox # <<>> /\ m = Head(mailbox)
         /\ \A i \in 1 .. Len(mailbox') :
              /\ i + 1 \in 1 .. Len(mailbox) /\ mailbox'[i] = mailbox[i + 1]
              /\ mailbox'[i].from # m.from
<1>1. /\ ~panic /\ mailbox # <<>> /\ m = Head(mailbox) /\ mailbox' = Tail(mailbox)
      /\ mailbox \in Seq(Messages)
  BY TypeFacts DEF Received
<1>2. /\ Len(mailbox) \in Nat /\ 1 \in 1 .. Len(mailbox) /\ m = mailbox[1]
      /\ mailbox' \in Seq(Messages) /\ Len(mailbox') = Len(mailbox) - 1
      /\ \A i \in 1 .. Len(mailbox') : i + 1 \in 1 .. Len(mailbox) /\ mailbox'[i] = mailbox[i + 1]
  BY <1>1
<1>3. m \in Messages /\ m.at \in Nat /\ m.data \in Int
      /\ (m.from = Notifier \/ m.from \in Clients)
  BY <1>2, TypeFacts DEF Messages
<1>4. /\ m.at <= Elapsed
      /\ m.type = "TICK" <=> m.from = Notifier
      /\ m.from = Notifier => notifier = "sent"
      /\ m.from # Notifier => cstate[m.from] = "queued"
  BY <1>2 DEF Inv, MailboxOK
<1>5. \A i \in 1 .. Len(mailbox') : mailbox'[i].from # m.from
  <2>1. \A i \in 1 .. Len(mailbox) : mailbox[i].from = mailbox[1].from => i = 1
    BY <1>2 DEF Inv, MailboxOK
  <2>2. QED
    BY <1>2, <2>1
<1>6. QED
  BY <1>1, <1>2, <1>3, <1>4, <1>5

\* The messages that are left, if their senders go on waiting.
LEMMA ReceivedMailbox ==
  ASSUME Inv, NEW m, Received(m), Elapsed' = Elapsed,
         notifier = "sent" /\ m.from # Notifier => notifier' = "sent",
         \A c \in Clients \ {m.from} : cstate[c] = "queued" => cstate'[c] = "queued"
  PROVE  MailboxOK'
<1>1. ASSUME NEW i \in 1 .. Len(mailbox')
      PROVE  LET n == mailbox'[i]
             IN  /\ n.at <= Elapsed
                 /\ n.type = "TICK" <=> n.from = Notifier
                 /\ n.from = Notifier => notifier' = "sent"
                 /\ n.from # Notifier => cstate'[n.from] = "queued"
  <2>1. i + 1 \in 1 .. Len(mailbox) /\ mailbox'[i] = mailbox[i + 1] /\ mailbox'[i].from # m.from
    BY ReceivedFacts
  <2>2. /\ mailbox[i + 1].at <= Elapsed
        /\ mailbox[i + 1].type = "TICK" <=> mailbox[i + 1].from = Notifier
        /\ mailbox[i + 1].from = Notifier => notifier = "sent"
        /\ mailbox[i + 1].from # Notifier => cstate[mailbox[i + 1].from] = "queued"
    BY <2>1 DEF Inv, MailboxOK
  <2>3. mailbox[i + 1].from # Notifier => mailbox[i + 1].from \in Clients
    BY <2>1, TypeFacts DEF Messages
  <2>4. QED
    BY <2>1, <2>2, <2>3
<1>2. \A i, j \in 1 .. Len(mailbox') : mailbox'[i].from = mailbox'[j].from => i = j
  <2>1. \A i \in 1 .. Len(mailbox') : i + 1 \in 1 .. Len(mailbox) /\ mailbox'[i] = mailbox[i + 1]
    BY ReceivedFacts
  <2>2. \A i, j \in 1 .. Len(mailbox) : mailbox[i].from = mailbox[j].from => i = j
    BY DEF Inv, MailboxOK
  <2>3. ASSUME NEW i \in 1 .. Len(mailbox'), NEW j \in 1 .. Len(mailbox'),
               mailbox'[i].from = mailbox'[j].from
        PROVE  i = j
    <3>1. i + 1 = j + 1
      BY <2>1, <2>2, <2>3
    <3>2. QED
      BY <3>1
  <2>4. QED
    BY <2>3
<1>3. QED
  BY <1>1, <1>2 DEF MailboxOK

\* ServeTime and ServeAtOnce.
LEMMA ReplyInv ==
  ASSUME Inv, NEW m, Received(m), m.type # "TICK", NEW v \in Int, ReplyTo(m.from, v),
         UNCHANGED <<ticks, delays, free, notifier, panic, missed>>
  PROVE  Inv'
<1>1. /\ m.from \in Clients /\ cstate[m.from] = "queued" /\ mailbox' \in Seq(Messages)
      /\ m.from # Notifier
      /\ cstate' = [cstate EXCEPT ![m.from] = "idle"] /\ replies' = {<<m.from, v>>}
      /\ cstate \in [Clients -> {"idle", "queued", "sleeping"}]
  BY ReceivedFacts DEF ReplyTo, Inv, TypeOK
<1>2. Elapsed' = Elapsed
  BY DEF Elapsed
<1>3. MailboxOK'
  BY <1>1, <1>2, ReceivedMailbox
<1>4. SleepersInOrder'
  <2>1. \A c \in Clients : cstate'[c] = "sleeping" <=> cstate[c] = "sleeping"
    BY <1>1
  <2>2. QED
    BY <2>1, ListKept DEF Inv
<1>5. TypeOK'
  <2>1. replies' \in SUBSET (Clients \X Int)
    BY <1>1
  <2>2. QED
    BY <1>1, <2>1 DEF Inv, TypeOK
<1>6. TicksBounded' /\ AskedOK'
  BY DEF Inv, TicksBounded, AskedOK
<1>7. QED
  BY <1>3, <1>4, <1>5, <1>6 DEF Inv

LEMMA ServeTimeInv == ASSUME Inv, NEW m, ServeTime(m) PROVE Inv'
<1>1. ticks \in Int
  BY TypeFacts
<1>2. QED
  BY <1>1, ReplyInv DEF ServeTime

LEMMA ServeAtOnceInv == ASSUME Inv, NEW m, ServeAtOnce(m) PROVE Inv'
<1> DEFINE v == IF m.type = "DELAY" /\ m.data < 0 THEN -2 ELSE ticks
<1>1. v \in Int
  BY TypeFacts
<1>2. ReplyTo(m.from, v)
  BY DEF ServeAtOnce
<1> HIDE DEF v
<1>3. QED
  BY <1>1, <1>2, ReplyInv DEF ServeAtOnce

\* As many clients sleep as there are nodes in the list.
LEMMA SleepersCount ==
  ASSUME Inv
  PROVE  LET sleeping == {c \in Clients : cstate[c] = "sleeping"}
         IN  IsFiniteSet(sleeping) /\ Cardinality(sleeping) = Len(delays)
<1> DEFINE sleeping == {c \in Clients : cstate[c] = "sleeping"}
           n == Len(delays)
           f == [i \in 1 .. n |-> delays[i].client]
<1>1. n \in Nat
  BY TypeFacts
<1>2. /\ sleeping = {delays[i].client : i \in 1 .. n}
      /\ \A i, j \in 1 .. n : i < j => delays[i].client # delays[j].client
  BY DEF Inv, SleepersInOrder
<1>3. f \in [1 .. n -> sleeping]
  BY <1>2
<1>4. \A i, j \in 1 .. n : f[i] = f[j] => i = j
  <2> SUFFICES ASSUME NEW i \in 1 .. n, NEW j \in 1 .. n, f[i] = f[j], i # j PROVE FALSE
    OBVIOUS
  <2>1. i < j \/ j < i
    BY <1>1
  <2>2. QED
    BY <1>2, <2>1
<1>5. \A c \in sleeping : \E i \in 1 .. n : f[i] = c
  BY <1>2
<1> HIDE DEF f, sleeping, n
<1>6. f \in Bijection(1 .. n, sleeping)
  BY <1>3, <1>4, <1>5 DEF Bijection, Injection, Surjection, IsInjective
<1>7. IsFiniteSet(1 .. n) /\ Cardinality(1 .. n) = n
  BY <1>1, FS_Interval
<1>8. IsFiniteSet(sleeping) /\ Cardinality(sleeping) = n
  <2>1. ExistsBijection(1 .. n, sleeping)
    BY <1>6 DEF ExistsBijection
  <2> DEFINE I == 1 .. n
  <2>2. IsFiniteSet(I) /\ Cardinality(I) = n /\ ExistsBijection(I, sleeping)
    BY <1>7, <2>1
  <2> HIDE DEF I
  <2>3. QED
    BY <2>2, FS_Bijection
<1>9. QED
  BY <1>8 DEF sleeping, n

\* The loop that looks for the place of a node.
LEMMA PlaceFacts ==
  ASSUME Inv, NEW t \in Int
  PROVE  /\ Place(t) \in 0 .. Len(delays)
         /\ \A i \in 1 .. Len(delays) : delays[i].time < t <=> i <= Place(t)
<1> DEFINE n == Len(delays)
           T == {i \in 1 .. n : ~(delays[i].time < t)}
<1>1. n \in Nat /\ T \in SUBSET (1 .. n)
  BY TypeFacts
<1>2. PICK k \in 0 .. n : (\A i \in 1 .. k : i \notin T) /\ (k < n => k + 1 \in T)
  <2> HIDE DEF T, n
  <2>1. QED
    BY <1>1, FirstOf
<1>3. /\ \A i \in 1 .. k : delays[i].time < t
      /\ k < n => ~(delays[k + 1].time < t)
  BY <1>1, <1>2
<1>4. /\ Place(t) \in 0 .. n
      /\ \A i \in 1 .. Place(t) : delays[i].time < t
      /\ Place(t) < n => ~(delays[Place(t) + 1].time < t)
  BY <1>2, <1>3 DEF Place
<1>5. ASSUME NEW i \in 1 .. n, ~(i <= Place(t)) PROVE ~(delays[i].time < t)
  <2>1. Place(t) < n /\ Place(t) + 1 \in 1 .. n /\ Place(t) + 1 <= i
    BY <1>1, <1>4, <1>5
  <2>2. delays[Place(t) + 1].time <= delays[i].time
    <3>1. CASE Place(t) + 1 = i
      BY <3>1, TypeFacts
    <3>2. CASE Place(t) + 1 < i
      BY <2>1, <3>2 DEF Inv, SleepersInOrder
    <3>3. QED
      BY <2>1, <3>1, <3>2
  <2>3. delays[i].time \in Int /\ delays[Place(t) + 1].time \in Int
    BY <2>1, TypeFacts
  <2>4. QED
    BY <1>4, <2>1, <2>2, <2>3
<1>6. \A i \in 1 .. n : i <= Place(t) => delays[i].time < t
  BY <1>1, <1>4
<1>7. QED
  BY <1>4, <1>5, <1>6

LEMMA SleepInv ==
  ASSUME Inv, NEW m, Received(m), m.type \in {"DELAY", "DELAYUNTIL"}, Until(m) > ticks,
         free # 0, Sleep(m), free' = free - 1, replies' = {},
         UNCHANGED <<ticks, notifier, panic, missed>>
  PROVE  Inv'
<1> DEFINE t == Until(m)
           node == [client |-> m.from, time |-> t, asked |-> m]
           n == Len(delays)
           k == Place(t)
<1>1. /\ m \in Messages /\ m.at \in Nat /\ m.at <= Elapsed /\ m.data \in Int
      /\ m.from \in Clients /\ cstate[m.from] = "queued" /\ mailbox' \in Seq(Messages)
      /\ m.from # Notifier
  BY ReceivedFacts
<1>2. ticks \in Nat /\ n \in Nat /\ delays \in Seq(Nodes) /\ missed \in Nat /\ free \in Nat
      /\ cstate \in [Clients -> {"idle", "queued", "sleeping"}]
  BY TypeFacts DEF Inv, TypeOK
<1>3. t \in Int /\ t > ticks
  BY <1>1, <1>2 DEF Until
<1>4. /\ node \in Nodes /\ node.client = m.from /\ node.time = t /\ node.asked = m
  BY <1>1, <1>3 DEF Nodes
<1>5. /\ k \in 0 .. n /\ \A i \in 1 .. n : delays[i].time < t <=> i <= k
  BY <1>3, PlaceFacts
<1>6. delays' = InsertAt(delays, k + 1, node) /\ cstate' = [cstate EXCEPT ![m.from] = "sleeping"]
  BY DEF Sleep
<1> HIDE DEF t, node, k
<1>7. /\ delays' \in Seq(Nodes) /\ Len(delays') = n + 1
      /\ \A j \in 1 .. n + 1 :
           delays'[j] = IF j < k + 1 THEN delays[j] ELSE IF j = k + 1 THEN node ELSE delays[j - 1]
  <2> DEFINE pos == k + 1
             new == InsertAt(delays, pos, node)
  <2>1. pos \in 1 .. Len(delays) + 1
    BY <1>2, <1>5
  <2> HIDE DEF pos
  <2>2. /\ new \in Seq(Nodes) /\ Len(new) = Len(delays) + 1
        /\ \A j \in 1 .. Len(delays) + 1 :
             new[j] = IF j < pos THEN delays[j] ELSE IF j = pos THEN node ELSE delays[j - 1]
    BY <1>2, <1>4, <2>1, InsertAtFacts
  <2>3. delays' = new
    BY <1>6 DEF pos
  <2> HIDE DEF new
  <2>4. QED
    BY <2>2, <2>3 DEF pos
\* An element of the new list is the new one, or its place in the old list is known.
<1> DEFINE old(j) == IF j <= k THEN j ELSE j - 1
<1>8. ASSUME NEW j \in 1 .. n + 1, j # k + 1
      PROVE  old(j) \in 1 .. n /\ delays'[j] = delays[old(j)]
  BY <1>2, <1>5, <1>7, <1>8
<1>9. delays'[k + 1] = node /\ k + 1 \in 1 .. n + 1
  BY <1>2, <1>5, <1>7
<1>10. \A i \in 1 .. n : delays[i].client # m.from
  BY <1>1, TypeFacts
<1>11. SleepersInOrder'
  <2>1. ASSUME NEW i \in 1 .. n + 1, NEW j \in 1 .. n + 1, i < j
        PROVE  delays'[i].time <= delays'[j].time /\ delays'[i].client # delays'[j].client
    <3>1. CASE i = k + 1
      <4>1. j # k + 1 /\ old(j) \in 1 .. n /\ ~(old(j) <= k) /\ delays'[j] = delays[old(j)]
        BY <1>2, <1>5, <1>8, <2>1, <3>1
      <4>2. ~(delays[old(j)].time < t) /\ delays[old(j)].time \in Int
        BY <1>5, <4>1, TypeFacts
      <4>3. QED
        BY <1>3, <1>4, <1>9, <1>10, <3>1, <4>1, <4>2
    <3>2. CASE j = k + 1
      <4>1. i # k + 1 /\ old(i) \in 1 .. n /\ old(i) <= k /\ delays'[i] = delays[old(i)]
        BY <1>2, <1>5, <1>8, <2>1, <3>2
      <4>2. delays[old(i)].time < t /\ delays[old(i)].time \in Int
        BY <1>5, <4>1, TypeFacts
      <4>3. QED
        BY <1>3, <1>4, <1>9, <1>10, <3>2, <4>1, <4>2
    <3>3. CASE i # k + 1 /\ j # k + 1
      <4>1. old(i) \in 1 .. n /\ old(j) \in 1 .. n /\ old(i) < old(j)
        BY <1>2, <1>5, <1>8, <2>1, <3>3
      <4>2. delays'[i] = delays[old(i)] /\ delays'[j] = delays[old(j)]
        BY <1>8, <3>3
      <4> HIDE DEF old
      <4>3. /\ delays[old(i)].time <= delays[old(j)].time
            /\ delays[old(i)].client # delays[old(j)].client
        BY <4>1 DEF Inv, SleepersInOrder
      <4>4. QED
        BY <4>2, <4>3
    <3>4. QED
      BY <3>1, <3>2, <3>3
  <2>2. {delays'[i].client : i \in 1 .. n + 1} = {c \in Clients : cstate'[c] = "sleeping"}
    <3>1. \A c \in Clients : cstate'[c] = "sleeping" <=> c = m.from \/ cstate[c] = "sleeping"
      BY <1>1, <1>2, <1>6
    <3>2. \A c \in Clients : cstate[c] = "sleeping" <=> \E i \in 1 .. n : delays[i].client = c
      BY DEF Inv, SleepersInOrder
    <3>3. ASSUME NEW i \in 1 .. n
          PROVE  \E j \in 1 .. n + 1 : delays'[j].client = delays[i].client
      <4>1. CASE i <= k
        <5>1. i \in 1 .. n + 1 /\ delays'[i] = delays[i]
          BY <1>2, <1>5, <1>7, <4>1
        <5>2. QED
          BY <5>1
      <4>2. CASE ~(i <= k)
        <5>1. i + 1 \in 1 .. n + 1 /\ delays'[i + 1] = delays[i]
          BY <1>2, <1>5, <1>7, <4>2
        <5>2. QED
          BY <5>1
      <4>3. QED
        BY <4>1, <4>2
    <3>4. \A j \in 1 .. n + 1 : delays'[j].client \in Clients
            /\ (delays'[j].client = m.from \/ \E i \in 1 .. n : delays[i].client = delays'[j].client)
      <4>1. ASSUME NEW j \in 1 .. n + 1
            PROVE  delays'[j].client \in Clients
                   /\ (delays'[j].client = m.from
                         \/ \E i \in 1 .. n : delays[i].client = delays'[j].client)
        <5>1. CASE j = k + 1
          BY <1>1, <1>4, <1>9, <5>1
        <5>2. CASE j # k + 1
          BY <1>8, <5>2, TypeFacts
        <5>3. QED
          BY <5>1, <5>2
      <4>2. QED
        BY <4>1
    <3>5. \E j \in 1 .. n + 1 : delays'[j].client = m.from
      BY <1>4, <1>9
    <3> DEFINE A == {delays'[i].client : i \in 1 .. n + 1}
    <3>6. \A c \in Clients : c \in A <=> c = m.from \/ cstate[c] = "sleeping"
      <4>1. ASSUME NEW c \in Clients, c \in A PROVE c = m.from \/ cstate[c] = "sleeping"
        BY <3>2, <3>4, <4>1
      <4>2. ASSUME NEW c \in Clients, cstate[c] = "sleeping" PROVE c \in A
        <5>1. PICK i \in 1 .. n : delays[i].client = c
          BY <3>2, <4>2
        <5>2. PICK j \in 1 .. n + 1 : delays'[j].client = c
          BY <3>3, <5>1
        <5>3. QED
          BY <5>2
      <4>3. m.from \in A
        BY <3>5
      <4> HIDE DEF A
      <4>4. QED
        BY <4>1, <4>2, <4>3
    <3>7. A \subseteq Clients
      BY <3>4
    <3> HIDE DEF A
    <3>8. A = {c \in Clients : cstate'[c] = "sleeping"}
      BY <3>1, <3>6, <3>7
    <3>9. QED
      BY <3>8 DEF A
  <2>3. \A i \in 1 .. n + 1 : delays'[i].time > ticks
    <3>1. ASSUME NEW i \in 1 .. n + 1 PROVE delays'[i].time > ticks
      <4>1. CASE i = k + 1
        BY <1>3, <1>4, <1>9, <4>1
      <4>2. CASE i # k + 1
        BY <1>8, <4>2, TypeFacts
      <4>3. QED
        BY <4>1, <4>2
    <3>2. QED
      BY <3>1
  <2>4. free' + Len(delays') = Slots /\ (Cardinality(Clients) <= Slots => ~panic')
    <3>1. free + n = Slots /\ (Cardinality(Clients) <= Slots => ~panic)
      BY DEF Inv, SleepersInOrder
    <3>2. QED
      BY <1>2, <1>7, <3>1
  <2>5. QED
    BY <1>7, <2>1, <2>2, <2>3, <2>4 DEF SleepersInOrder
<1>12. MailboxOK'
  <2>1. Elapsed' = Elapsed
    BY DEF Elapsed
  <2>2. \A c \in Clients \ {m.from} : cstate[c] = "queued" => cstate'[c] = "queued"
    BY <1>2, <1>6
  <2>3. QED
    BY <2>1, <2>2, ReceivedMailbox
<1>13. AskedOK'
  <2>1. /\ m.type = "DELAYUNTIL" => m.data = t
        /\ m.type = "DELAY" => m.at <= t - m.data + missed + 1
    <3>1. Elapsed <= ticks + missed + 1
      BY <1>2 DEF Elapsed
    <3>2. m.type = "DELAY" => t - m.data = ticks
      BY <1>1, <1>2 DEF t, Until
    <3>3. Elapsed \in Nat
      BY TypeFacts
    <3>4. QED
      BY <1>1, <1>2, <1>3, <3>1, <3>2, <3>3 DEF t, Until
  <2>2. ASSUME NEW j \in 1 .. n + 1
        PROVE  LET a == delays'[j].asked
               IN  /\ a.type \in {"DELAY", "DELAYUNTIL"}
                   /\ a.type = "DELAYUNTIL" => a.data = delays'[j].time
                   /\ a.type = "DELAY" => a.at <= delays'[j].time - a.data + missed + 1
    <3>1. CASE j = k + 1
      BY <1>4, <1>9, <2>1, <3>1
    <3>2. CASE j # k + 1
      BY <1>8, <3>2 DEF Inv, AskedOK
    <3>3. QED
      BY <3>1, <3>2
  <2>3. QED
    BY <1>7, <2>2 DEF AskedOK
<1>14. TypeOK'
  <2>1. free' \in 0 .. Slots
    BY <1>2, ClockAssumption DEF Inv, TypeOK
  <2>2. cstate' \in [Clients -> {"idle", "queued", "sleeping"}]
    BY <1>2, <1>6
  <2>3. QED
    BY <1>1, <1>7, <2>1, <2>2 DEF Inv, TypeOK, Nodes
<1>15. TicksBounded'
  BY DEF Inv, TicksBounded
<1>16. QED
  BY <1>11, <1>12, <1>13, <1>14, <1>15 DEF Inv

LEMMA ServeDelayInv == ASSUME Inv, NEW m, ServeDelay(m) PROVE Inv'
<1>1. /\ Received(m) /\ m.type \in {"DELAY", "DELAYUNTIL"} /\ Until(m) > ticks
      /\ replies' = {} /\ UNCHANGED <<ticks, notifier, missed>>
  BY DEF ServeDelay
<1>2. CASE free # 0
  BY <1>1, <1>2, SleepInv DEF ServeDelay
\* No node is free: all of them are in the list, and one client more is calling.
<1>3. CASE free = 0
  <2>1. panic' = TRUE /\ UNCHANGED <<delays, free, cstate>>
    BY <1>3 DEF ServeDelay
  <2>2. m.from \in Clients /\ cstate[m.from] = "queued" /\ mailbox' \in Seq(Messages)
    BY <1>1, ReceivedFacts
  <2>3. ~(Cardinality(Clients) <= Slots)
    <3> DEFINE sleeping == {c \in Clients : cstate[c] = "sleeping"}
               more == sleeping \cup {m.from}
    <3>1. IsFiniteSet(sleeping) /\ Cardinality(sleeping) = Len(delays)
      BY SleepersCount
    <3>2. m.from \notin sleeping /\ more \subseteq Clients
      BY <2>2
    <3> HIDE DEF sleeping
    <3>3. Cardinality(more) = Len(delays) + 1
      BY <3>1, <3>2, FS_AddElement
    <3> HIDE DEF more
    <3>4. Cardinality(more) <= Cardinality(Clients)
      BY <3>2, ClockAssumption, FS_Subset
    <3>5. Len(delays) = Slots
      BY <1>3, TypeFacts DEF Inv, SleepersInOrder
    <3>6. Cardinality(Clients) \in Nat /\ Slots \in Nat
      BY ClockAssumption, FS_CardinalityType
    <3>7. QED
      BY <3>3, <3>4, <3>5, <3>6
  <2>4. SleepersInOrder'
    BY <1>1, <2>1, <2>3 DEF Inv, SleepersInOrder
  <2>5. MailboxOK'
    <3>1. Elapsed' = Elapsed
      BY <1>1 DEF Elapsed
    <3>2. QED
      BY <1>1, <2>1, <3>1, ReceivedMailbox
  <2>6. TypeOK' /\ TicksBounded' /\ AskedOK'
    BY <1>1, <2>1, <2>2 DEF Inv, TypeOK, TicksBounded, AskedOK
  <2>7. QED
    BY <2>4, <2>5, <2>6 DEF Inv
<1>4. QED
  BY <1>2, <1>3

\* The loop of TICK takes exactly the nodes whose time is the new tick.
LEMMA DueFacts ==
  ASSUME Inv
  PROVE  /\ Due \in 0 .. Len(delays)
         /\ \A i \in 1 .. Len(delays) : /\ i <= Due => delays[i].time = ticks + 1
                                        /\ i > Due => delays[i].time > ticks + 1
<1> DEFINE n == Len(delays)
           T == {i \in 1 .. n : delays[i].time > ticks + 1}
<1>1. n \in Nat /\ T \in SUBSET (1 .. n) /\ ticks \in Nat
  BY TypeFacts
<1>2. PICK k \in 0 .. n : (\A i \in 1 .. k : i \notin T) /\ (k < n => k + 1 \in T)
  <2> HIDE DEF T, n
  <2>1. QED
    BY <1>1, FirstOf
<1>3. /\ \A i \in 1 .. k : delays[i].time <= ticks + 1
      /\ k < n => delays[k + 1].time > ticks + 1
  <2>1. ASSUME NEW i \in 1 .. k PROVE delays[i].time <= ticks + 1
    <3>1. i \in 1 .. n /\ delays[i].time \in Int
      BY <1>1, TypeFacts
    <3>2. QED
      BY <1>1, <1>2, <3>1
  <2>2. QED
    BY <1>2, <2>1
<1>4. /\ Due \in 0 .. n
      /\ \A i \in 1 .. Due : delays[i].time <= ticks + 1
      /\ Due < n => delays[Due + 1].time > ticks + 1
  BY <1>2, <1>3 DEF Due
<1>5. ASSUME NEW i \in 1 .. n, i <= Due PROVE delays[i].time = ticks + 1
  <2>1. delays[i].time \in Int /\ delays[i].time > ticks
    BY TypeFacts
  <2>2. QED
    BY <1>1, <1>4, <1>5, <2>1
<1>6. ASSUME NEW i \in 1 .. n, i > Due PROVE delays[i].time > ticks + 1
  <2>1. Due < n /\ Due + 1 \in 1 .. n /\ Due + 1 <= i
    BY <1>1, <1>4, <1>6
  <2>2. delays[Due + 1].time <= delays[i].time
    <3>1. CASE Due + 1 = i
      BY <3>1, TypeFacts
    <3>2. CASE Due + 1 < i
      BY <2>1, <3>2 DEF Inv, SleepersInOrder
    <3>3. QED
      BY <2>1, <3>1, <3>2
  <2>3. delays[i].time \in Int /\ delays[Due + 1].time \in Int
    BY <2>1, TypeFacts
  <2>4. QED
    BY <1>1, <1>4, <2>1, <2>2, <2>3
<1>7. QED
  BY <1>4, <1>5, <1>6

LEMMA ServeTickInv == ASSUME Inv, NEW m, ServeTick(m) PROVE Inv'
<1> DEFINE n == Len(delays)
           k == Due
           woken == {delays[i].client : i \in 1 .. k}
<1>1. /\ Received(m) /\ m.type = "TICK" /\ notifier' = "looping" /\ ticks' = ticks + 1
      /\ cstate' = [c \in Clients |-> IF c \in woken THEN "idle" ELSE cstate[c]]
      /\ replies' = {<<c, ticks + 1>> : c \in woken}
      /\ delays' = SubSeq(delays, k + 1, n)
      /\ free' = free + k /\ UNCHANGED <<panic, missed>>
  BY DEF ServeTick, Advance
<1>2. m.from = Notifier /\ notifier = "sent" /\ mailbox' \in Seq(Messages)
  BY <1>1, ReceivedFacts
<1>3. k \in 0 .. n /\ \A i \in 1 .. n : /\ i <= k => delays[i].time = ticks + 1
                                        /\ i > k => delays[i].time > ticks + 1
  BY DueFacts
<1>4. ticks \in Nat /\ n \in Nat /\ delays \in Seq(Nodes) /\ missed \in Nat /\ free \in Nat
      /\ cstate \in [Clients -> {"idle", "queued", "sleeping"}]
  BY TypeFacts DEF Inv, TypeOK
<1> HIDE DEF k
<1>5. /\ delays' \in Seq(Nodes) /\ Len(delays') = n - k
      /\ \A i \in 1 .. n - k : i + k \in 1 .. n /\ delays'[i] = delays[i + k]
  <2>1. \A i \in k + 1 .. n : delays[i] \in Nodes
    BY <1>3, TypeFacts
  <2>2. Len(delays') = n - k /\ \A i \in 1 .. n - k : delays'[i] = delays[i + k]
    BY <1>1, <1>3, <1>4
  <2>3. delays' \in Seq(Nodes)
    <3> DEFINE first == k + 1
    <3>1. first \in Int /\ n \in Int /\ \A i \in first .. n : delays[i] \in Nodes
      BY <1>3, <1>4, <2>1
    <3>2. delays' = SubSeq(delays, first, n)
      BY <1>1
    <3> HIDE DEF first, n
    <3>3. QED
      BY <3>1, <3>2, SubSeqProperties
  <2>4. \A i \in 1 .. n - k : i + k \in 1 .. n
    BY <1>3, <1>4
  <2>5. QED
    BY <2>2, <2>3, <2>4
<1>6. woken \subseteq Clients
  BY <1>3, TypeFacts
<1>7. TypeOK'
  <2>1. ticks' \in 0 .. MaxTicks
    BY <1>1, <1>2, <1>4, ClockAssumption DEF Inv, TypeOK, TicksBounded
  <2>2. free' \in 0 .. Slots
    <3>1. free + n = Slots
      BY DEF Inv, SleepersInOrder
    <3>2. QED
      BY <1>1, <1>3, <1>4, <3>1, ClockAssumption
  <2>3. replies' \in SUBSET (Clients \X Int)
    BY <1>1, <1>4, <1>6
  <2>4. cstate' \in [Clients -> {"idle", "queued", "sleeping"}]
    BY <1>1, <1>4
  <2>5. QED
    BY <1>1, <1>2, <1>5, <2>1, <2>2, <2>3, <2>4 DEF Inv, TypeOK, Nodes
<1>8. MailboxOK'
  <2>1. Elapsed' = Elapsed
    BY <1>1, <1>2, <1>4 DEF Elapsed
  <2>2. \A i \in 1 .. k : cstate[delays[i].client] = "sleeping"
    BY <1>3, TypeFacts
  <2>3. \A c \in Clients : cstate[c] = "queued" => cstate'[c] = "queued"
    BY <1>1, <2>2
  <2>4. QED
    BY <1>1, <1>2, <2>1, <2>3, ReceivedMailbox
<1>9. SleepersInOrder'
  <2>1. \A i, j \in 1 .. n - k : i < j =>
          delays'[i].time <= delays'[j].time /\ delays'[i].client # delays'[j].client
    <3>1. \A i, j \in 1 .. n : i < j =>
            delays[i].time <= delays[j].time /\ delays[i].client # delays[j].client
      BY DEF Inv, SleepersInOrder
    <3>2. ASSUME NEW i \in 1 .. n - k, NEW j \in 1 .. n - k, i < j PROVE i + k < j + k
      BY <1>3, <1>4, <3>2
    <3>3. QED
      BY <1>5, <3>1, <3>2
  <2>2. {delays'[i].client : i \in 1 .. n - k} = {c \in Clients : cstate'[c] = "sleeping"}
    <3>1. \A i \in 1 .. n - k : /\ delays'[i].client \in Clients
                                /\ cstate[delays'[i].client] = "sleeping"
      BY <1>5, TypeFacts
    <3>2. ASSUME NEW i \in 1 .. n - k PROVE delays'[i].client \notin woken
      <4> SUFFICES ASSUME NEW j \in 1 .. k PROVE delays[i + k].client # delays[j].client
        BY <1>5
      <4>1. j \in 1 .. n /\ i + k \in 1 .. n /\ j < i + k
        BY <1>3, <1>4
      <4>2. QED
        BY <4>1 DEF Inv, SleepersInOrder
    <3>3. ASSUME NEW c \in Clients, cstate'[c] = "sleeping"
          PROVE  \E i \in 1 .. n - k : delays'[i].client = c
      <4>1. c \notin woken /\ cstate[c] = "sleeping"
        BY <1>1, <3>3
      <4>2. PICK j \in 1 .. n : delays[j].client = c
        BY <4>1 DEF Inv, SleepersInOrder
      <4>3. j \notin 1 .. k
        BY <4>1, <4>2
      <4>4. j - k \in 1 .. n - k /\ (j - k) + k = j
        BY <1>3, <1>4, <4>3
      <4>5. QED
        BY <1>5, <4>2, <4>4
    <3> DEFINE A == {delays'[i].client : i \in 1 .. n - k}
    <3>4. \A c \in A : c \in Clients /\ cstate'[c] = "sleeping"
      BY <1>1, <3>1, <3>2
    <3>5. \A c \in Clients : cstate'[c] = "sleeping" => c \in A
      BY <3>3
    <3> HIDE DEF A
    <3>6. A = {c \in Clients : cstate'[c] = "sleeping"}
      BY <3>4, <3>5
    <3>7. QED
      BY <3>6 DEF A
  <2>3. \A i \in 1 .. n - k : delays'[i].time > ticks'
    <3>1. ASSUME NEW i \in 1 .. n - k PROVE delays'[i].time > ticks'
      <4>1. i + k \in 1 .. n /\ i + k > k /\ delays'[i] = delays[i + k]
        BY <1>3, <1>4, <1>5
      <4>2. QED
        BY <1>1, <1>3, <4>1
    <3>2. QED
      BY <3>1
  <2>4. free' + Len(delays') = Slots /\ (Cardinality(Clients) <= Slots => ~panic')
    <3>1. free + n = Slots /\ (Cardinality(Clients) <= Slots => ~panic)
      BY DEF Inv, SleepersInOrder
    <3>2. free' = free + k /\ Len(delays') = n - k /\ k \in Nat /\ n \in Nat /\ free \in Nat
      BY <1>1, <1>3, <1>4, <1>5
    <3>3. free' + Len(delays') = Slots
      BY <3>1, <3>2
    <3>4. Cardinality(Clients) <= Slots => ~panic'
      BY <1>1, <3>1, Zenon
    <3>5. QED
      BY <3>3, <3>4
  <2>5. QED
    BY <1>5, <2>1, <2>2, <2>3, <2>4 DEF SleepersInOrder
<1>10. TicksBounded'
  BY <1>1 DEF TicksBounded
<1>11. AskedOK'
  BY <1>1, <1>5 DEF Inv, AskedOK
<1>12. QED
  BY <1>7, <1>8, <1>9, <1>10, <1>11 DEF Inv

-----------------------------------------------------------------------------
LEMMA NextInv == Inv /\ [Next]_vars => Inv'
<1> SUFFICES ASSUME Inv, [Next]_vars PROVE Inv'
  OBVIOUS
<1>1. ASSUME NEW c \in Clients, NEW r \in Requests, Call(c, r) PROVE Inv'
  BY <1>1, CallInv
<1>2. CASE NotifierAwaits \/ TimerWakes \/ TimerMissed
  BY <1>2, NotifierInv
<1>3. CASE NotifierSends
  BY <1>3, NotifierSendsInv
<1>4. CASE Serve
  <2>1. PICK m : ServeTime(m) \/ ServeAtOnce(m) \/ ServeDelay(m) \/ ServeTick(m)
    BY <1>4 DEF Serve
  <2>2. QED
    BY <2>1, ServeTimeInv, ServeAtOnceInv, ServeDelayInv, ServeTickInv
<1>5. CASE UNCHANGED vars
  BY <1>5, StutterInv
<1>6. QED
  BY <1>1, <1>2, <1>3, <1>4, <1>5 DEF Next

LEMMA SpecInv == Spec => []Inv
<1>1. QED
  BY InitInv, NextInv, PTL DEF Spec

\* The variables of the clock server, its notifier and its clients keep their types.
THEOREM ClockTypeCorrect == Spec => []TypeOK
<1>1. Inv => TypeOK
  BY DEF Inv
<1>2. QED
  BY <1>1, SpecInv, PTL

\* The list of sleepers is sorted, holds each sleeping client once and none whose time has
\* come, leaks no node, and a server with a node for each client never meets its KASSERT.
THEOREM SleepersSorted == Spec => []SleepersInOrder
<1>1. Inv => SleepersInOrder
  BY DEF Inv
<1>2. QED
  BY <1>1, SpecInv, PTL

\* A reply to a sleeping client comes from the loop of TICK.
LEMMA SleeperReply ==
  ASSUME Inv, Next, NEW i \in 1 .. Len(delays), NEW v, <<delays[i].client, v>> \in replies'
  PROVE  /\ v = ticks + 1 /\ ticks' = ticks + 1 /\ delays[i].time = ticks + 1
         /\ \E m : ServeTick(m)
<1> DEFINE c == delays[i].client
<1>1. c \in Clients /\ cstate[c] = "sleeping"
  BY TypeFacts
<1>2. PICK m : ServeTime(m) \/ ServeAtOnce(m) \/ ServeDelay(m) \/ ServeTick(m)
  <2>1. replies' # {}
    OBVIOUS
  <2>2. QED
    BY <2>1 DEF Next, Serve, Call, NotifierAwaits, TimerWakes, TimerMissed, NotifierSends
<1>3. ~ServeDelay(m)
  BY DEF ServeDelay
<1>4. ASSUME ServeTime(m) \/ ServeAtOnce(m) PROVE FALSE
  <2>1. Received(m) /\ m.type # "TICK" /\ \E w : replies' = {<<m.from, w>>}
    BY <1>4, Zenon DEF ServeTime, ServeAtOnce, ReplyTo
  <2>2. cstate[m.from] = "queued"
    BY <2>1, ReceivedFacts
  <2>3. m.from = c
    BY <2>1
  <2>4. QED
    BY <1>1, <2>2, <2>3
<1>5. ServeTick(m)
  BY <1>2, <1>3, <1>4
<1> DEFINE woken == {delays[j].client : j \in 1 .. Due}
<1>6. ticks' = ticks + 1 /\ replies' = {<<d, ticks + 1>> : d \in woken}
  BY <1>5 DEF ServeTick, Advance
<1>7. v = ticks + 1 /\ c \in woken
  BY <1>6
<1>8. PICK j \in 1 .. Due : delays[j].client = c
  BY <1>7
<1>9. Due \in 0 .. Len(delays) /\ \A l \in 1 .. Len(delays) : l <= Due => delays[l].time = ticks + 1
  BY DueFacts
<1>10. j \in 1 .. Len(delays) /\ j <= Due
  BY <1>8, <1>9, TypeFacts
<1>11. i = j
  <2>1. Len(delays) \in Nat /\ i \in Nat /\ j \in Nat
    BY <1>10, TypeFacts
  <2>2. i < j \/ i = j \/ j < i
    BY <2>1
  <2>3. QED
    BY <1>8, <1>10, <2>2 DEF Inv, SleepersInOrder
<1>12. QED
  BY <1>5, <1>6, <1>7, <1>9, <1>10, <1>11

\* A sleeping client is woken by the tick at which the clock reaches the time of its node,
\* with that time, which for DelayUntil is the instant it asked for.
THEOREM WokenAtTheInstant == Spec => WokenOnTime
<1> DEFINE OnTime ==
      \A i \in 1 .. Len(delays) : \A v \in {ticks'} \cup {p[2] : p \in replies'} :
        <<delays[i].client, v>> \in replies' =>
          /\ v = ticks' /\ delays[i].time = v
          /\ delays[i].asked.type = "DELAYUNTIL" => delays[i].asked.data = v
<1>1. Inv /\ [Next]_vars => [OnTime]_vars
  <2> SUFFICES ASSUME Inv, Next, NEW i \in 1 .. Len(delays), NEW v,
                      <<delays[i].client, v>> \in replies'
               PROVE  /\ v = ticks' /\ delays[i].time = v
                      /\ delays[i].asked.type = "DELAYUNTIL" => delays[i].asked.data = v
    OBVIOUS
  <2>1. v = ticks + 1 /\ ticks' = ticks + 1 /\ delays[i].time = ticks + 1
    BY SleeperReply
  <2>2. delays[i].asked.type = "DELAYUNTIL" => delays[i].asked.data = delays[i].time
    BY DEF Inv, AskedOK
  <2>3. QED
    BY <2>1, <2>2
<1>2. QED
  BY <1>1, SpecInv, PTL DEF Spec, WokenOnTime

-----------------------------------------------------------------------------
(* No request is older than the tick that was served last *)

\* A message in want_send was sent since the clock read what it reads now, one behind a TICK
\* since the interrupt the TICK reports; a node's Delay was called since the instant the node
\* counts from.
FreshOK ==
  /\ \A i \in 1 .. Len(mailbox) : mailbox[i].at >= ticks
  /\ \A i, j \in 1 .. Len(mailbox) :
       j < i /\ mailbox[j].from = Notifier => mailbox[i].at >= ticks + 1
  /\ \A i \in 1 .. Len(delays) : delays[i].asked.type = "DELAY" =>
       delays[i].asked.at >= delays[i].time - delays[i].asked.data

LEMMA SendFresh ==
  ASSUME Inv, FreshOK, NEW m \in Messages, mailbox' = Append(mailbox, m), m.at = Elapsed,
         UNCHANGED <<ticks, delays>>
  PROVE  FreshOK'
<1>1. /\ mailbox \in Seq(Messages) /\ Len(mailbox) \in Nat /\ ticks \in Nat /\ Elapsed \in Nat
      /\ missed \in Nat
  BY TypeFacts
<1>2. /\ Len(mailbox') = Len(mailbox) + 1 /\ mailbox'[Len(mailbox) + 1] = m
      /\ \A i \in 1 .. Len(mailbox) : mailbox'[i] = mailbox[i]
  BY <1>1
<1>3. m.at >= ticks /\ (notifier = "sent" => m.at >= ticks + 1)
  BY <1>1 DEF Elapsed
<1>4. \A i \in 1 .. Len(mailbox') : mailbox'[i].at >= ticks
  BY <1>1, <1>2, <1>3 DEF FreshOK
<1>5. ASSUME NEW i \in 1 .. Len(mailbox'), NEW j \in 1 .. Len(mailbox'), j < i,
             mailbox'[j].from = Notifier
      PROVE  mailbox'[i].at >= ticks + 1
  <2>1. j \in 1 .. Len(mailbox) /\ mailbox[j].from = Notifier
    BY <1>1, <1>2, <1>5
  <2>2. CASE i = Len(mailbox) + 1
    <3>1. notifier = "sent"
      BY <2>1 DEF Inv, MailboxOK
    <3>2. QED
      BY <1>2, <1>3, <2>2, <3>1
  <2>3. CASE i # Len(mailbox) + 1
    <3>1. i \in 1 .. Len(mailbox) /\ mailbox'[i] = mailbox[i]
      BY <1>1, <1>2, <2>3
    <3>2. QED
      BY <1>5, <2>1, <3>1 DEF FreshOK
  <2>4. QED
    BY <2>2, <2>3
<1>6. QED
  BY <1>4, <1>5 DEF FreshOK

\* The messages that are left.
LEMMA ReceivedFresh ==
  ASSUME Inv, FreshOK, NEW m, Received(m),
         ticks' = (IF m.type = "TICK" THEN ticks + 1 ELSE ticks)
  PROVE  /\ \A i \in 1 .. Len(mailbox') : mailbox'[i].at >= ticks'
         /\ \A i, j \in 1 .. Len(mailbox') :
              j < i /\ mailbox'[j].from = Notifier => mailbox'[i].at >= ticks' + 1
<1>1. /\ m.type = "TICK" <=> m.from = Notifier
      /\ \A i \in 1 .. Len(mailbox') : /\ i + 1 \in 1 .. Len(mailbox)
                                       /\ mailbox'[i] = mailbox[i + 1]
                                       /\ mailbox'[i].from # m.from
      /\ mailbox' = Tail(mailbox) /\ m = mailbox[1] /\ 1 \in 1 .. Len(mailbox)
  BY ReceivedFacts, TypeFacts DEF Received
<1>2. ASSUME NEW i \in 1 .. Len(mailbox') PROVE mailbox'[i].at >= ticks'
  <2>1. /\ i + 1 \in 1 .. Len(mailbox) /\ mailbox'[i] = mailbox[i + 1] /\ 1 < i + 1
    BY <1>1
  <2>2. mailbox[i + 1].at >= ticks /\ (m.from = Notifier => mailbox[i + 1].at >= ticks + 1)
    BY <1>1, <2>1 DEF FreshOK
  <2>3. QED
    BY <1>1, <2>1, <2>2
<1>3. ASSUME NEW i \in 1 .. Len(mailbox'), NEW j \in 1 .. Len(mailbox'), j < i,
             mailbox'[j].from = Notifier
      PROVE  mailbox'[i].at >= ticks' + 1
  <2>1. /\ i + 1 \in 1 .. Len(mailbox) /\ mailbox'[i] = mailbox[i + 1]
        /\ j + 1 \in 1 .. Len(mailbox) /\ mailbox'[j] = mailbox[j + 1] /\ j + 1 < i + 1
    BY <1>1, <1>3
  <2>2. mailbox[i + 1].at >= ticks + 1
    BY <1>3, <2>1 DEF FreshOK
  <2>3. ticks' = ticks
    BY <1>1, <1>3
  <2>4. QED
    BY <2>1, <2>2, <2>3
<1>4. QED
  BY <1>2, <1>3

LEMMA ServeFresh == ASSUME Inv, FreshOK, Serve PROVE FreshOK'
<1>1. PICK m : ServeTime(m) \/ ServeAtOnce(m) \/ ServeDelay(m) \/ ServeTick(m)
  BY DEF Serve
<1>2. Received(m) /\ ticks' = (IF m.type = "TICK" THEN ticks + 1 ELSE ticks)
  BY <1>1 DEF ServeTime, ServeAtOnce, ServeDelay, ServeTick, Advance
<1>3. /\ \A i \in 1 .. Len(mailbox') : mailbox'[i].at >= ticks'
      /\ \A i, j \in 1 .. Len(mailbox') :
           j < i /\ mailbox'[j].from = Notifier => mailbox'[i].at >= ticks' + 1
  BY <1>2, ReceivedFresh
<1>4. ASSUME NEW i \in 1 .. Len(delays'), delays'[i].asked.type = "DELAY"
      PROVE  delays'[i].asked.at >= delays'[i].time - delays'[i].asked.data
  <2>1. (\E j \in 1 .. Len(delays) : delays'[i] = delays[j])
          \/ (delays'[i].asked = m /\ delays'[i].time = Until(m))
    <3>1. CASE UNCHANGED delays
      BY <3>1
    <3>2. CASE ServeDelay(m) /\ Sleep(m)
      <4> DEFINE k == Place(Until(m))
                 node == [client |-> m.from, time |-> Until(m), asked |-> m]
                 pos == k + 1
      <4>1. Until(m) \in Int /\ Len(delays) \in Nat /\ delays \in Seq(Nodes)
        BY <1>2, ReceivedFacts, TypeFacts DEF Until
      <4>2. pos \in 1 .. Len(delays) + 1
        BY <4>1, PlaceFacts
      <4>3. node \in Nodes
        <5>1. m.from # Notifier
          BY <1>2, <3>2, ReceivedFacts DEF ServeDelay
        <5>2. QED
          BY <1>2, <4>1, <5>1, ReceivedFacts DEF Nodes
      <4>4. delays' = InsertAt(delays, pos, node)
        BY <3>2 DEF Sleep
      <4>5. node.asked = m /\ node.time = Until(m)
        OBVIOUS
      <4> DEFINE new == InsertAt(delays, pos, node)
      <4> HIDE DEF pos, node
      <4>6. /\ Len(delays') = Len(delays) + 1
            /\ \A j \in 1 .. Len(delays) + 1 :
                 delays'[j] = IF j < pos THEN delays[j] ELSE IF j = pos THEN node ELSE delays[j - 1]
        <5>1. /\ Len(new) = Len(delays) + 1
              /\ \A j \in 1 .. Len(delays) + 1 :
                   new[j] = IF j < pos THEN delays[j] ELSE IF j = pos THEN node ELSE delays[j - 1]
          BY <4>1, <4>2, <4>3, InsertAtFacts
        <5> HIDE DEF new
        <5>2. delays' = new
          BY <4>4 DEF new
        <5>3. QED
          BY <5>1, <5>2
      <4>7. CASE i = pos
        BY <4>5, <4>6, <4>7
      <4>8. CASE i < pos
        BY <4>1, <4>2, <4>6, <4>8
      <4>9. CASE i > pos
        <5>1. i - 1 \in 1 .. Len(delays) /\ delays'[i] = delays[i - 1]
          BY <4>1, <4>2, <4>6, <4>9
        <5>2. QED
          BY <5>1
      <4>10. QED
        BY <4>1, <4>2, <4>6, <4>7, <4>8, <4>9
    <3>3. CASE ServeTick(m)
      <4>1. delays' = SubSeq(delays, Due + 1, Len(delays))
        BY <3>3 DEF ServeTick, Advance
      <4>2. Due \in 0 .. Len(delays) /\ Len(delays) \in Nat
        BY DueFacts, TypeFacts
      <4>3. i + Due \in 1 .. Len(delays) /\ delays'[i] = delays[i + Due]
        BY <4>1, <4>2
      <4>4. QED
        BY <4>3
    <3>4. QED
      BY <1>1, <3>1, <3>2, <3>3 DEF ServeTime, ServeAtOnce, ServeDelay
  <2>2. CASE \E j \in 1 .. Len(delays) : delays'[i] = delays[j]
    BY <1>4, <2>2 DEF FreshOK
  <2>3. CASE delays'[i].asked = m /\ delays'[i].time = Until(m)
    <3>1. Until(m) = ticks + m.data /\ m.data \in Int /\ m.at \in Nat /\ ticks \in Nat
      BY <1>2, <1>4, <2>3, ReceivedFacts, TypeFacts DEF Until
    <3>2. m.at >= ticks
      BY <1>2, ReceivedFacts, TypeFacts DEF FreshOK
    <3>3. QED
      BY <2>3, <3>1, <3>2
  <2>4. QED
    BY <2>1, <2>2, <2>3
<1>5. QED
  BY <1>3, <1>4 DEF FreshOK

LEMMA SpecFresh == Spec => []FreshOK
<1>1. Init => FreshOK
  BY DEF Init, FreshOK
<1>2. Inv /\ FreshOK /\ [Next]_vars => FreshOK'
  <2> SUFFICES ASSUME Inv, FreshOK, [Next]_vars PROVE FreshOK'
    OBVIOUS
  <2>1. CASE UNCHANGED <<ticks, delays, mailbox>>
    BY <2>1 DEF FreshOK
  <2>2. CASE NotifierSends
    <3> DEFINE m == [from |-> Notifier, type |-> "TICK", data |-> 0, at |-> Elapsed]
    <3>1. mailbox' = Append(mailbox, m) /\ UNCHANGED <<ticks, delays>>
      BY <2>2 DEF NotifierSends
    <3>2. m \in Messages /\ m.at = Elapsed
      BY TypeFacts DEF Messages
    <3> HIDE DEF m
    <3>3. QED
      BY <3>1, <3>2, SendFresh
  <2>3. ASSUME NEW c \in Clients, NEW r \in Requests, Call(c, r) PROVE FreshOK'
    <3> DEFINE m == [from |-> c, type |-> r.type, data |-> r.data, at |-> Elapsed]
    <3>1. mailbox' = Append(mailbox, m) /\ UNCHANGED <<ticks, delays>>
      BY <2>3 DEF Call
    <3>2. m \in Messages /\ m.at = Elapsed
      BY RequestFacts, TypeFacts DEF Messages
    <3> HIDE DEF m
    <3>3. QED
      BY <3>1, <3>2, SendFresh
  <2>4. CASE Serve
    BY <2>4, ServeFresh
  <2>5. QED
    BY <2>1, <2>2, <2>3, <2>4 DEF Next, NotifierAwaits, TimerWakes, TimerMissed, vars
<1>3. QED
  BY <1>1, <1>2, SpecInv, PTL DEF Spec

\* Delay(n) lasts until at least n - 1 timer interrupts have come after the call, and if it
\* sleeps no longer than n of them and those that found no notifier waiting.
THEOREM DelayTakesItsTime == Spec => DelayInTime
<1> DEFINE Enough ==
      \A p \in replies', m \in Pending :
        Answered(p[1], m, p[2]) /\ m.type = "DELAY" =>
          /\ Elapsed - m.at >= m.data - 1
          /\ m.data > 0 => Elapsed - m.at <= m.data + missed
<1>1. Inv /\ FreshOK /\ [Next]_vars => [Enough]_vars
  <2> SUFFICES ASSUME Inv, FreshOK, Next, NEW p \in replies', NEW m \in Pending,
                      Answered(p[1], m, p[2]), m.type = "DELAY"
               PROVE  /\ Elapsed - m.at >= m.data - 1
                      /\ m.data > 0 => Elapsed - m.at <= m.data + missed
    BY DEF Answered
  <2>1. <<p[1], p[2]>> \in replies'
    BY DEF Answered
  <2>2. CASE \E i \in 1 .. Len(delays) : delays[i].client = p[1] /\ delays[i].asked = m
    <3>1. PICK i \in 1 .. Len(delays) : delays[i].client = p[1] /\ delays[i].asked = m
      BY <2>2
    <3>2. delays[i].time = ticks + 1 /\ \E t : ServeTick(t)
      BY <2>1, <3>1, SleeperReply
    <3>3. PICK t : ServeTick(t)
      BY <3>2
    <3>4. notifier = "sent"
      BY <3>3, ReceivedFacts DEF ServeTick
    <3>5. Elapsed = ticks + missed + 1
      BY <3>4, TypeFacts DEF Elapsed
    <3>6. m.at <= delays[i].time - m.data + missed + 1
      BY <3>1 DEF Inv, AskedOK
    <3>7. m.at >= delays[i].time - m.data
      BY <3>1 DEF FreshOK
    <3>8. m.at \in Nat /\ m.data \in Int /\ ticks \in Nat /\ missed \in Nat
      BY <3>1, TypeFacts
    <3>9. QED
      BY <3>2, <3>5, <3>6, <3>7, <3>8
  <2>3. CASE mailbox # <<>> /\ Head(mailbox) = m /\ m.from = p[1]
    <3>1. PICK s : ServeTime(s) \/ ServeAtOnce(s) \/ ServeDelay(s) \/ ServeTick(s)
      BY DEF Next, Serve, Call, NotifierAwaits, TimerWakes, TimerMissed, NotifierSends
    <3>2. Received(s) /\ s = m
      BY <2>3, <3>1 DEF Received, ServeTime, ServeAtOnce, ServeDelay, ServeTick
    <3>3. ServeAtOnce(m)
      BY <3>1, <3>2 DEF ServeTime, ServeAtOnce, ServeDelay, ServeTick
    <3>4. m = mailbox[1] /\ 1 \in 1 .. Len(mailbox)
      BY <2>3, TypeFacts
    <3>5. m.at \in Nat /\ m.data \in Int /\ ticks \in Nat /\ Elapsed \in Nat
      <4>1. m \in Messages
        BY <3>4, TypeFacts
      <4>2. QED
        BY <4>1, TypeFacts DEF Messages
    <3>6. m.at <= Elapsed
      BY <3>4 DEF Inv, MailboxOK
    <3>7. ticks + m.data <= ticks
      BY <3>3 DEF ServeAtOnce, Until
    <3>8. QED
      BY <3>5, <3>6, <3>7
  <2>4. QED
    BY <2>2, <2>3 DEF Answered
<1>2. QED
  BY <1>1, SpecInv, SpecFresh, PTL DEF Spec, DelayInTime
=============================================================================
