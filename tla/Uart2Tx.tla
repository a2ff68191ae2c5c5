------------------------------- MODULE Uart2Tx -------------------------------
(***************************************************************************)
(* The terminal's transmit server (uart_com2_tx_server), its notifier, the *)
(* UART2 transmit FIFO, and the tasks that print.                          *)
(*                                                                         *)
(* The first Putc of a task that finds the server unowned takes its lock;  *)
(* done_print releases it.  The server writes a character into the FIFO if *)
(* there is room, and otherwise buffers it and lets the notifier wait for  *)
(* the FIFO to be half empty.                                              *)
(***************************************************************************)
EXTENDS Integers, Sequences, FiniteSets

CONSTANTS Clients,        \* the tasks that call printf(COM2, ...) and done_print()
          PrintLength,    \* characters per print
          FifoSize,       \* 16 on the EP9302
          LockCapacity,   \* MAX_CAPACITY of lock_cb (100)
          Overtakes,      \* messages the server serves while its notifier is in the
                          \* ready queue: they have the same priority, and module
                          \* ReadyQueue says when the queue is first come first served
          NoOwner

Notifier == "UartCom2TxNotifier"

Uart2TxAssumption ==
  /\ IsFiniteSet(Clients) /\ NoOwner \notin Clients /\ Notifier \notin Clients
  /\ PrintLength \in Nat \ {0}
  /\ FifoSize \in Nat /\ FifoSize >= 2
  \* The tasks are fewer than the places: 27, and 100.
  /\ LockCapacity \in Nat /\ Cardinality(Clients) <= LockCapacity + 1
  /\ Overtakes \in Nat /\ Overtakes + 1 <= FifoSize - FifoSize \div 2

NoChar   == 0
\* The character a task prints is represented by its place in the print.
Chars    == 1 .. PrintLength

VARIABLES
  owned_by, lock_cb, char_buffer, notifier_parking,   \* the server's variables
  mailbox,     \* its want_send queue: records [from, type, char]
  notifier,    \* "woken" (before Send), "sent", "held" (received, not replied to),
               \* "released" (before AwaitEvent), "awaiting"
  client,      \* "ready", "sent", "received" (waits for the reply)
  place,       \* the character the task prints next; PrintLength + 1: the release
  fifo,        \* characters in the transmit FIFO
  overtaken,   \* messages served since the notifier became ready
  written,     \* history: the last character written to the FIFO, and whose
  lost,        \* history: a character was written into a full FIFO
  stray        \* history: Reply to a task that waits for none

server == <<owned_by, lock_cb, char_buffer, notifier_parking>>
vars == <<server, mailbox, notifier, client, place, fifo, overtaken, written, lost, stray>>

TypeOK ==
  /\ owned_by \in Clients \cup {NoOwner}
  /\ lock_cb \in Seq(Clients) /\ Len(lock_cb) <= LockCapacity
  /\ char_buffer \in [Clients -> Chars \cup {NoChar}]
  /\ notifier_parking \in BOOLEAN
  /\ mailbox \in Seq([from : Clients \cup {Notifier}, char : Chars \cup {NoChar},
                      type : {"NOTIFIER_TX_GOOD", "SEND_CHAR", "RELEASE_LOCK"}])
  /\ notifier \in {"woken", "sent", "held", "released", "awaiting"}
  /\ client \in [Clients -> {"ready", "sent", "received"}]
  /\ place \in [Clients -> 1 .. PrintLength + 1]
  /\ fifo \in 0 .. FifoSize
  /\ overtaken \in 0 .. Overtakes
  /\ written \in [by : Clients \cup {NoOwner}, char : Chars \cup {NoChar}]
  /\ lost \in BOOLEAN /\ stray \in BOOLEAN

\* The notifier is created before the server first calls Receive, and its first
\* NOTIFIER_TX_GOOD comes before any request.
Init ==
  /\ owned_by = NoOwner /\ lock_cb = <<>>
  /\ char_buffer = [c \in Clients |-> NoChar]
  /\ notifier_parking = FALSE
  /\ mailbox = << [from |-> Notifier, type |-> "NOTIFIER_TX_GOOD", char |-> NoChar] >>
  /\ notifier = "sent"
  /\ client = [c \in Clients |-> "ready"]
  /\ place = [c \in Clients |-> 1]
  /\ fifo = 0 /\ overtaken = 0
  /\ written = [by |-> NoOwner, char |-> NoChar]
  /\ lost = FALSE /\ stray = FALSE

-----------------------------------------------------------------------------
(* The notifier and the hardware *)

NotifierSends ==
  /\ notifier = "woken"
  /\ notifier' = "sent"
  /\ mailbox' = Append(mailbox, [from |-> Notifier, type |-> "NOTIFIER_TX_GOOD", char |-> NoChar])
  /\ overtaken' = 0
  /\ UNCHANGED <<server, client, place, fifo, written, lost, stray>>

NotifierAwaits ==
  /\ notifier = "released"
  /\ notifier' = "awaiting"
  /\ UNCHANGED <<server, mailbox, client, place, fifo, overtaken, written, lost, stray>>

\* UART2TXINTR: the FIFO is at most half full.  AwaitEvent enabled it, and the
\* kernel disables it when it wakes the notifier.
TransmitInterrupt ==
  /\ notifier = "awaiting"
  /\ fifo <= FifoSize \div 2
  /\ notifier' = "woken"
  /\ UNCHANGED <<server, mailbox, client, place, fifo, overtaken, written, lost, stray>>

\* The UART shifts a character out.
Transmit ==
  /\ fifo > 0
  /\ fifo' = fifo - 1
  /\ UNCHANGED <<server, mailbox, notifier, client, place, overtaken, written, lost, stray>>

-----------------------------------------------------------------------------
(* The tasks that print *)

Putc(c) ==
  /\ client[c] = "ready"
  /\ place[c] <= PrintLength
  /\ client' = [client EXCEPT ![c] = "sent"]
  /\ mailbox' = Append(mailbox, [from |-> c, type |-> "SEND_CHAR", char |-> place[c]])
  /\ UNCHANGED <<server, notifier, place, fifo, overtaken, written, lost, stray>>

ReleaseUartLock(c) ==
  /\ client[c] = "ready"
  /\ place[c] = PrintLength + 1
  /\ client' = [client EXCEPT ![c] = "sent"]
  /\ mailbox' = Append(mailbox, [from |-> c, type |-> "RELEASE_LOCK", char |-> NoChar])
  /\ UNCHANGED <<server, notifier, place, fifo, overtaken, written, lost, stray>>

-----------------------------------------------------------------------------
(* The server *)

Received(m) == mailbox # <<>> /\ m = Head(mailbox) /\ mailbox' = Tail(mailbox)

\* uart_put_char(COM2, c's character ch), which does not look at the FIFO.
PutChar(c, ch) ==
  /\ written' = [by |-> c, char |-> ch]
  /\ fifo' = IF fifo < FifoSize THEN fifo + 1 ELSE fifo
  /\ lost' = (lost \/ fifo = FifoSize)

NoPut == UNCHANGED <<fifo, written, lost>>

\* Reply to c, in the state cl of the clients: c goes on to its next character, or
\* to its next print.
ReplyTo(c, cl) ==
  /\ client' = [cl EXCEPT ![c] = "ready"]
  /\ stray' = (stray \/ cl[c] # "received")
  /\ place' = [place EXCEPT ![c] = IF @ = PrintLength + 1 THEN 1 ELSE @ + 1]

NoReply(cl) == client' = cl /\ UNCHANGED <<stray, place>>

\* unpark_com2_tx_notifier, if the notifier is parked.
Unpark ==
  /\ notifier_parking' = FALSE
  /\ notifier' = IF notifier_parking THEN "released" ELSE notifier

\* The clients once the server has received c's request.
Taken(c) == [client EXCEPT ![c] = "received"]

\* Seeded fault: whoever waits for the lock gets its character written.
TxGoodAnyone(m) ==
  /\ Received(m) /\ m.type = "NOTIFIER_TX_GOOD"
  /\ notifier' = "held" /\ notifier_parking' = TRUE
  /\ IF \E c \in Clients : char_buffer[c] # NoChar
       THEN LET any == CHOOSE x \in Clients : char_buffer[x] # NoChar
            IN  /\ PutChar(any, char_buffer[any])
                /\ char_buffer' = [char_buffer EXCEPT ![any] = NoChar]
                /\ ReplyTo(any, client)
       ELSE NoPut /\ NoReply(client) /\ UNCHANGED char_buffer
  /\ UNCHANGED <<owned_by, lock_cb>>

\* NOTIFIER_TX_GOOD: the notifier is parked, and the owner's buffered character is
\* written.
TxGood(m) ==
  /\ Received(m) /\ m.type = "NOTIFIER_TX_GOOD"
  /\ notifier' = "held" /\ notifier_parking' = TRUE
  /\ IF owned_by # NoOwner /\ char_buffer[owned_by] # NoChar
       THEN /\ PutChar(owned_by, char_buffer[owned_by])
            /\ char_buffer' = [char_buffer EXCEPT ![owned_by] = NoChar]
            /\ ReplyTo(owned_by, client)
       ELSE NoPut /\ NoReply(client) /\ UNCHANGED char_buffer
  /\ UNCHANGED <<owned_by, lock_cb>>

\* SEND_CHAR from the owner, or from the task that becomes it.
SendCharOwner(m) ==
  /\ Received(m) /\ m.type = "SEND_CHAR"
  /\ owned_by \in {m.from, NoOwner}
  /\ owned_by' = m.from
  /\ IF fifo < FifoSize
       THEN /\ PutChar(m.from, m.char) /\ ReplyTo(m.from, Taken(m.from))
            /\ UNCHANGED <<char_buffer, notifier_parking, notifier>>
       ELSE /\ char_buffer' = [char_buffer EXCEPT ![m.from] = m.char]
            /\ Unpark /\ NoPut /\ NoReply(Taken(m.from))
  /\ UNCHANGED lock_cb

\* SEND_CHAR while another task owns the lock.  The result of cb_push_back is
\* ignored: the task is not queued if lock_cb is full.
SendCharOther(m) ==
  /\ Received(m) /\ m.type = "SEND_CHAR"
  /\ owned_by \notin {m.from, NoOwner}
  /\ lock_cb' = IF Len(lock_cb) < LockCapacity THEN Append(lock_cb, m.from) ELSE lock_cb
  /\ char_buffer' = [char_buffer EXCEPT ![m.from] = m.char]
  /\ NoPut /\ NoReply(Taken(m.from))
  /\ UNCHANGED <<owned_by, notifier_parking, notifier>>

\* Seeded faults: the notifier is not unparked; the new owner stays in lock_cb.
ReleaseKeepsParked(m) ==
  /\ Received(m) /\ m.type = "RELEASE_LOCK"
  /\ owned_by = m.from
  /\ owned_by' = IF lock_cb = <<>> THEN NoOwner ELSE Head(lock_cb)
  /\ lock_cb' = IF lock_cb = <<>> THEN <<>> ELSE Tail(lock_cb)
  /\ ReplyTo(m.from, Taken(m.from)) /\ NoPut
  /\ UNCHANGED <<char_buffer, notifier_parking, notifier>>

ReleaseKeepsQueue(m) ==
  /\ Received(m) /\ m.type = "RELEASE_LOCK"
  /\ owned_by = m.from
  /\ owned_by' = IF lock_cb = <<>> THEN NoOwner ELSE Head(lock_cb)
  /\ Unpark
  /\ ReplyTo(m.from, Taken(m.from)) /\ NoPut
  /\ UNCHANGED <<lock_cb, char_buffer>>

\* RELEASE_LOCK: the lock goes to the first task of lock_cb; the notifier, which
\* the server now needs for the new owner's buffered character, is unparked.  A
\* task releases what it owns (LockConsistent), so the KASSERT is a guard here.
Release(m) ==
  /\ Received(m) /\ m.type = "RELEASE_LOCK"
  /\ owned_by = m.from
  /\ owned_by' = IF lock_cb = <<>> THEN NoOwner ELSE Head(lock_cb)
  /\ lock_cb' = IF lock_cb = <<>> THEN <<>> ELSE Tail(lock_cb)
  /\ Unpark
  /\ ReplyTo(m.from, Taken(m.from)) /\ NoPut
  /\ UNCHANGED char_buffer

Serve ==
  /\ IF notifier = "woken"
       THEN overtaken < Overtakes /\ overtaken' = overtaken + 1
       ELSE UNCHANGED overtaken
  /\ \E m \in {mailbox[i] : i \in 1 .. (IF mailbox = <<>> THEN 0 ELSE 1)} :
       TxGood(m) \/ SendCharOwner(m) \/ SendCharOther(m) \/ Release(m)

ClientStep(c) == Putc(c) \/ ReleaseUartLock(c)

Next ==
  \/ NotifierSends \/ NotifierAwaits \/ TransmitInterrupt \/ Transmit
  \/ \E c \in Clients : ClientStep(c)
  \/ Serve

\* Every task that can run does, interrupts are served, and the UART transmits.
Spec == Init /\ [][Next]_vars
        /\ WF_vars(NotifierSends) /\ WF_vars(NotifierAwaits)
        /\ WF_vars(TransmitInterrupt) /\ WF_vars(Transmit) /\ WF_vars(Serve)
        /\ \A c \in Clients : WF_vars(ClientStep(c))

-----------------------------------------------------------------------------
\* A character is never written into a full FIFO, although NOTIFIER_TX_GOOD writes
\* one without asking uart_can_write: the FIFO was half empty when the notifier was
\* woken, and fewer characters than fit in the other half are written before the
\* server serves the message.
NothingLost == ~lost

\* A waiting task is queued for the lock once and with its character buffered, and
\* the owner waits only for room in the FIFO; nobody waits while the lock is free.
\* A task that releases the lock owns it (the KASSERT of RELEASE_LOCK).
LockConsistent ==
  /\ \A i, j \in 1 .. Len(lock_cb) : i # j => lock_cb[i] # lock_cb[j]
  /\ \A c \in Clients :
       (c \in {lock_cb[i] : i \in 1 .. Len(lock_cb)}) <=> (client[c] = "received" /\ owned_by # c)
  /\ \A c \in Clients : char_buffer[c] # NoChar <=> client[c] = "received"
  /\ owned_by = NoOwner => lock_cb = <<>>
  /\ \A c \in Clients : place[c] = PrintLength + 1 => owned_by = c

\* The server knows where its notifier is: parked means received and not replied
\* to, so unparking never replies to a task that waits for none; and no client is
\* replied to twice or without a request.
NotifierTracked ==
  /\ notifier_parking <=> notifier = "held"
  /\ ~stray

\* The lock and the server's picture of its notifier.
LocksConsistent == LockConsistent /\ NotifierTracked

\* Characters of two prints do not mix, and each print comes out in order: what is
\* written after character k of a task is its character k + 1, and after the last
\* one the first of some print.
PrintsWhole ==
  [][written' # written =>
       IF written.char \in {NoChar, PrintLength}
         THEN written'.char = 1
         ELSE written' = [written EXCEPT !.char = @ + 1]]_vars

\* Every Putc and every release returns.
CallsReturn == \A c \in Clients : client[c] # "ready" ~> client[c] = "ready"
=============================================================================
