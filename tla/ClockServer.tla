----------------------------- MODULE ClockServer -----------------------------
(***************************************************************************)
(* The clock server and its notifier (src/user/clockserver.c), their       *)
(* clients, and the timer interrupt of the kernel.                         *)
(*                                                                         *)
(* A request is one step for the client (its Send puts it in the server's  *)
(* want_send queue) and one for the server (Receive and the whole body of  *)
(* the loop).  Tasks that the server replies to in the middle of the body  *)
(* can only queue another request before the server is back at Receive, so *)
(* nothing they do is seen by the rest of the body.                        *)
(***************************************************************************)
EXTENDS Integers, Sequences, FiniteSets, SequencesExt

CONSTANTS Clients,     \* the tasks that call Time, Delay and DelayUntil
          Slots,       \* delay_nodes in backing[] (50)
          Amounts,     \* the arguments of Delay
          Instants,    \* the arguments of DelayUntil
          MaxTicks,    \* bound: ticks the server counts
          MaxMissed    \* bound: timer interrupts that find no notifier waiting

Notifier == "ClockNotifier"

ASSUME ClockAssumption ==
  /\ IsFiniteSet(Clients) /\ Notifier \notin Clients
  /\ Slots \in Nat /\ MaxTicks \in Nat /\ MaxMissed \in Nat
  /\ Amounts \subseteq Int /\ Instants \subseteq Int

VARIABLES
  ticks,      \* the server's clock
  delays,     \* the list from head: records [client, time, asked]
  free,       \* length of the free list
  mailbox,    \* the server's want_send queue: records [from, type, data, at]
  notifier,   \* where the notifier is: "looping" (before AwaitEvent), "parked",
              \* "woken" (before Send), "sent"
  cstate,     \* each client: "idle", "queued" (not received), "sleeping"
  replies,    \* the replies to clients of the last step: pairs <<client, value>>
  panic,      \* KASSERT(free != NULL) failed
  missed      \* history: timer interrupts that found no notifier waiting

\* The fields at (when a request was made) and asked (the request a node stands
\* for) are history too.

vars == <<ticks, delays, free, mailbox, notifier, cstate, replies, panic, missed>>

\* Timer interrupts since the server was created.
Elapsed == ticks + missed + (IF notifier \in {"woken", "sent"} THEN 1 ELSE 0)

Requests ==
  [type : {"TIME"}, data : {0}] \cup [type : {"DELAY"}, data : Amounts]
    \cup [type : {"DELAYUNTIL"}, data : Instants]

Messages ==
  [from : Clients \cup {Notifier}, type : {"TIME", "DELAY", "DELAYUNTIL", "TICK"},
   data : Int, at : Nat]

TypeOK ==
  /\ ticks \in 0 .. MaxTicks
  /\ delays \in Seq([client : Clients, time : Int, asked : Messages])
  /\ free \in 0 .. Slots
  /\ mailbox \in Seq(Messages)
  /\ notifier \in {"looping", "parked", "woken", "sent"}
  /\ cstate \in [Clients -> {"idle", "queued", "sleeping"}]
  /\ replies \in SUBSET (Clients \X Int)
  /\ panic \in BOOLEAN
  /\ missed \in 0 .. MaxMissed

Init ==
  /\ ticks = 0
  /\ delays = <<>>
  /\ free = Slots
  /\ mailbox = <<>>
  /\ notifier = "looping"
  /\ cstate = [c \in Clients |-> "idle"]
  /\ replies = {}
  /\ panic = FALSE
  /\ missed = 0

-----------------------------------------------------------------------------
(* The notifier and the timer interrupt *)

NotifierAwaits ==
  /\ notifier = "looping"
  /\ notifier' = "parked"
  /\ replies' = {}
  /\ UNCHANGED <<ticks, delays, free, mailbox, cstate, panic, missed>>

\* The interrupt wakes the notifier up.
TimerWakes ==
  /\ notifier = "parked"
  /\ ticks < MaxTicks
  /\ notifier' = "woken"
  /\ replies' = {}
  /\ UNCHANGED <<ticks, delays, free, mailbox, cstate, panic, missed>>

\* The interrupt is cleared, and wake_up finds no notifier: its result is ignored.
TimerMissed ==
  /\ notifier # "parked"
  /\ missed < MaxMissed
  /\ missed' = missed + 1
  /\ replies' = {}
  /\ UNCHANGED <<ticks, delays, free, mailbox, notifier, cstate, panic>>

NotifierSends ==
  /\ notifier = "woken"
  /\ notifier' = "sent"
  /\ mailbox' = Append(mailbox, [from |-> Notifier, type |-> "TICK", data |-> 0,
                                at |-> Elapsed])
  /\ replies' = {}
  /\ UNCHANGED <<ticks, delays, free, cstate, panic, missed>>

-----------------------------------------------------------------------------
(* The clients *)

\* Time, Delay and DelayUntil.  At most one TICK is served before the request is,
\* so the guard keeps every sleeper's time within MaxTicks.
Call(c, r) ==
  /\ cstate[c] = "idle"
  /\ r.type = "DELAY" => ticks + 1 + r.data <= MaxTicks
  /\ cstate' = [cstate EXCEPT ![c] = "queued"]
  /\ mailbox' = Append(mailbox, [from |-> c, type |-> r.type, data |-> r.data,
                                at |-> Elapsed])
  /\ replies' = {}
  /\ UNCHANGED <<ticks, delays, free, notifier, panic, missed>>

-----------------------------------------------------------------------------
(* The server *)

\* Receive.
Received(m) == ~panic /\ mailbox # <<>> /\ m = Head(mailbox) /\ mailbox' = Tail(mailbox)

\* Reply to a client whose request was just received.
ReplyTo(c, v) ==
  /\ cstate' = [cstate EXCEPT ![c] = "idle"]
  /\ replies' = {<<c, v>>}

ServeTime(m) ==
  /\ Received(m)
  /\ m.type = "TIME"
  /\ ReplyTo(m.from, ticks)
  /\ UNCHANGED <<ticks, delays, free, notifier, panic, missed>>

\* Seeded fault: off by one.
UntilEarly(m) == IF m.type = "DELAY" THEN ticks + m.data - 1 ELSE m.data

\* The instant a DELAY or DELAYUNTIL request waits for.
Until(m) == IF m.type = "DELAY" THEN ticks + m.data ELSE m.data

\* A negative Delay, and a delay that is over already.
ServeAtOnce(m) ==
  /\ Received(m)
  /\ m.type \in {"DELAY", "DELAYUNTIL"}
  /\ Until(m) <= ticks
  /\ ReplyTo(m.from, IF m.type = "DELAY" /\ m.data < 0 THEN -2 ELSE ticks)
  /\ UNCHANGED <<ticks, delays, free, notifier, panic, missed>>

\* How many nodes the loop skips to insert one with time t: those with an earlier
\* time.  A node goes before the ones with the same time.
Place(t) ==
  CHOOSE k \in 0 .. Len(delays) :
    /\ \A i \in 1 .. k : delays[i].time < t
    /\ k < Len(delays) => ~(delays[k + 1].time < t)

\* The client is put in the list.
Sleep(m) ==
  /\ delays' = InsertAt(delays, Place(Until(m)) + 1,
                        [client |-> m.from, time |-> Until(m), asked |-> m])
  /\ cstate' = [cstate EXCEPT ![m.from] = "sleeping"]

\* A delay that is not over: KASSERT(free != NULL) stops the machine, or the client
\* takes a node.
ServeDelay(m) ==
  /\ Received(m) /\ m.type \in {"DELAY", "DELAYUNTIL"} /\ Until(m) > ticks
  /\ IF free = 0
       THEN panic' = TRUE /\ UNCHANGED <<delays, free, cstate>>
       ELSE Sleep(m) /\ free' = free - 1 /\ UNCHANGED panic
  /\ replies' = {}
  /\ UNCHANGED <<ticks, notifier, missed>>

\* Seeded fault: the loop stops at a node whose time is now.
DueLate ==
  CHOOSE k \in 0 .. Len(delays) :
    /\ \A i \in 1 .. k : delays[i].time < ticks + 1
    /\ k < Len(delays) => ~(delays[k + 1].time < ticks + 1)

\* How many nodes the loop of TICK takes from the head.
Due ==
  CHOOSE k \in 0 .. Len(delays) :
    /\ \A i \in 1 .. k : delays[i].time <= ticks + 1
    /\ k < Len(delays) => delays[k + 1].time > ticks + 1

\* The clock advances, and the clients at the head of the list whose time has come
\* are woken with the new time.
Advance ==
  /\ ticks' = ticks + 1
  /\ LET woken == {delays[i].client : i \in 1 .. Due}
     IN  /\ cstate' = [c \in Clients |-> IF c \in woken THEN "idle" ELSE cstate[c]]
         /\ replies' = {<<c, ticks + 1>> : c \in woken}
  /\ delays' = SubSeq(delays, Due + 1, Len(delays))

\* Seeded faults: the nodes of the woken clients are not freed; the notifier gets
\* no reply.
ServeTickLeaks(m) ==
  /\ Received(m) /\ m.type = "TICK"
  /\ notifier' = "looping"
  /\ Advance
  /\ UNCHANGED <<free, panic, missed>>

ServeTickUnreplied(m) ==
  /\ Received(m) /\ m.type = "TICK"
  /\ Advance
  /\ free' = free + Due
  /\ UNCHANGED <<notifier, panic, missed>>

\* The notifier is replied to, and then the clock advances.
ServeTick(m) ==
  /\ Received(m) /\ m.type = "TICK"
  /\ notifier' = "looping"
  /\ Advance
  /\ free' = free + Due
  /\ UNCHANGED <<panic, missed>>

\* The message at the head of the mailbox.
Serve ==
  \E m \in {mailbox[i] : i \in 1 .. (IF mailbox = <<>> THEN 0 ELSE 1)} :
    ServeTime(m) \/ ServeAtOnce(m) \/ ServeDelay(m) \/ ServeTick(m)

Next ==
  \/ NotifierAwaits \/ TimerWakes \/ TimerMissed \/ NotifierSends
  \/ \E c \in Clients, r \in Requests : Call(c, r)
  \/ Serve

\* The server and its notifier get the processor while they can run (no client
\* has a higher priority than the notifier, and the clients the kernel runs before
\* the server block in their calls), and TIMER1 keeps counting.
Spec == Init /\ [][Next]_vars
        /\ WF_vars(NotifierAwaits) /\ WF_vars(TimerWakes) /\ WF_vars(NotifierSends)
        /\ WF_vars(Serve)

-----------------------------------------------------------------------------
\* The list holds the sleeping clients, each once, in the order of their times,
\* and nobody in it is due: the loop of TICK, which looks at the head only, misses
\* no one.  Its nodes are neither lost nor handed out twice, so as many clients as
\* there are nodes never meet KASSERT(free != NULL, "No more delay slots").
SleepersInOrder ==
  /\ \A i, j \in 1 .. Len(delays) : i < j =>
       delays[i].time <= delays[j].time /\ delays[i].client # delays[j].client
  /\ {delays[i].client : i \in 1 .. Len(delays)} = {c \in Clients : cstate[c] = "sleeping"}
  /\ \A i \in 1 .. Len(delays) : delays[i].time > ticks
  /\ free + Len(delays) = Slots
  /\ Cardinality(Clients) <= Slots => ~panic

\* The reply of this step to c's request m.
Answered(c, m, v) ==
  /\ <<c, v>> \in replies'
  /\ \/ mailbox # <<>> /\ Head(mailbox) = m /\ m.from = c
     \/ \E i \in 1 .. Len(delays) : delays[i].client = c /\ delays[i].asked = m

\* The requests that have not been answered.
Pending == {mailbox[i] : i \in 1 .. Len(mailbox)} \cup {delays[i].asked : i \in 1 .. Len(delays)}

\* A client that sleeps gets the clock at exactly the instant its node waits for,
\* and for DelayUntil at the instant it asked for: the server is never late by its
\* own clock.
WokenOnTime ==
  [][\A i \in 1 .. Len(delays) : \A v \in {ticks'} \cup {p[2] : p \in replies'} :
       <<delays[i].client, v>> \in replies' =>
         /\ v = ticks' /\ delays[i].time = v
         /\ delays[i].asked.type = "DELAYUNTIL" => delays[i].asked.data = v]_vars

\* Delay(n) returns after at least n - 1 timer interrupts that came after the
\* call (the first tick counted may have been on its way already), however late
\* the server gets to the request.  A Delay that sleeps returns after n of them at the
\* latest, but for those that found no notifier waiting: by each of these the clock falls
\* behind for good, by nothing else.
DelayInTime ==
  [][\A p \in replies', m \in Pending :
       Answered(p[1], m, p[2]) /\ m.type = "DELAY" =>
         /\ Elapsed - m.at >= m.data - 1
         /\ m.data > 0 => Elapsed - m.at <= m.data + missed]_vars

\* Every call returns.
CallsReturn == \A c \in Clients : cstate[c] # "idle" ~> cstate[c] = "idle"
=============================================================================
