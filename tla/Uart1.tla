-------------------------------- MODULE Uart1 --------------------------------
(***************************************************************************)
(* The track's serial line: uart_com1_server, its two notifiers, the part  *)
(* of the kernel that waits for UART1 (AwaitEvent and the interrupt        *)
(* handler), the UART without FIFOs, and the train controller behind it.   *)
(*                                                                         *)
(* The controller lowers CTS when it has received a byte and raises it     *)
(* when it can take the next one.  The kernel wakes the transmit notifier  *)
(* when it has seen both the empty transmit register and the rise of CTS.  *)
(***************************************************************************)
EXTENDS Integers, Sequences, FiniteSets

CONSTANTS Clients,      \* the tasks that use the line
          Program,      \* what each does, over and over: a sequence of "put",
                        \* "ask" (a put the controller answers), "get", "release"
          Bytes,        \* bytes in an answer (10 in the program)
          LockCapacity, \* of lock_cb (MAX_NUM_TASKS)
          Prompt,       \* TRUE: the notifiers get to AwaitEvent, and the receive
                        \* register is read, within the time the line takes for a
                        \* byte (4.6 ms at 2400 baud)
          NoOwner

Tx == "UartCom1TxNotifier"
Rx == "UartCom1RxNotifier"

\* A task starts with a byte of its own, reads the bytes of an answer right after it has asked
\* for them, all of them and no more, and releases the line at its end, if at all (the train
\* worker, the only task of the program that uses the line, never does).
ProgramFits(p) ==
  /\ p # <<>> /\ p[1] \in {"put", "ask"}
  /\ \A i \in 1 .. Len(p) :
       /\ p[i] = "release" => i = Len(p)
       /\ p[i] = "ask" => i + Bytes <= Len(p) /\ \A k \in 1 .. Bytes : p[i + k] = "get"
       /\ p[i] = "get" => \E k \in 1 .. Bytes : k < i /\ p[i - k] = "ask"

Uart1Assumption ==
  /\ IsFiniteSet(Clients) /\ NoOwner \notin Clients /\ Clients \cap {Tx, Rx} = {}
  /\ Program \in [Clients -> Seq({"put", "ask", "get", "release"})]
  /\ \A c \in Clients : ProgramFits(Program[c])
  /\ Bytes \in Nat \ {0}
  \* The tasks are fewer than the places: 27, and 100.
  /\ LockCapacity \in Nat /\ Cardinality(Clients) <= LockCapacity + 1
  /\ Prompt \in BOOLEAN

NoByte  == 0
Ask     == 133      \* '\x85', the byte the controller answers
Command == 16       \* any other byte
Sent    == {Ask, Command}

VARIABLES
  owned_by, lock_cb, can_send, want_send, send_buffer,  \* the server's variables
  mailbox,        \* its want_send queue: records [from, type, data]
  notifier,       \* Tx and Rx: "woken" (before Send), "sent", "held" (received and
                  \* not replied to), "released" (before AwaitEvent), "awaiting"
  uart1_tx_flag, intr,                    \* the kernel's flags, enabled interrupts
  thr,            \* the transmit register: NoByte or what is being sent
  rdr,            \* the receive register: NoByte or the number of a byte
  cts, dcts,      \* the modem status: CTS, and "CTS has changed since last read"
  controller,     \* "clear", "receiving", "busy" (CTS low), and what it received
  toSend,         \* bytes of the answer that have not arrived
  client,         \* "ready", "sent", "received" (waits for the reply)
  pc,             \* where the task is in its program
  result          \* history: the byte the task's last Getc returned

server   == <<owned_by, lock_cb, can_send, want_send, send_buffer>>
kernel   == <<uart1_tx_flag, intr>>
line     == <<thr, rdr, cts, dcts, controller, toSend>>
tasks    == <<client, pc, result>>
vars == <<server, mailbox, notifier, kernel, line, tasks>>

Step(c) == Program[c][pc[c]]

TypeOK ==
  /\ owned_by \in Clients \cup {NoOwner}
  /\ lock_cb \in Seq(Clients) /\ Len(lock_cb) <= LockCapacity
  /\ can_send \in BOOLEAN /\ want_send \in BOOLEAN
  /\ send_buffer \in [Clients -> Sent \cup {NoByte}]
  /\ mailbox \in Seq([from : Clients \cup {Tx, Rx},
                      type : {"NOTIFIER_TX_GOOD", "NOTIFIER_RX_GOOD", "SEND_CHAR",
                              "GET_CHAR", "RELEASE_LOCK"},
                      data : Sent \cup 0 .. Bytes])
  /\ notifier \in [{Tx, Rx} -> {"woken", "sent", "held", "released", "awaiting"}]
  /\ uart1_tx_flag \in SUBSET {"TX", "CTS"}
  /\ intr \in SUBSET {"UART1TXINTR", "UART1CTSINTR", "UART1RXINTR"}
  /\ thr \in Sent \cup {NoByte}
  /\ rdr \in 0 .. Bytes
  /\ cts \in BOOLEAN /\ dcts \in BOOLEAN
  /\ controller \in {"clear", "receiving", "busy"} \X (Sent \cup {NoByte})
  /\ toSend \in 0 .. Bytes
  /\ client \in [Clients -> {"ready", "sent", "received"}]
  /\ \A c \in Clients : pc[c] \in 1 .. Len(Program[c])
  /\ result \in [Clients -> 0 .. Bytes]

\* The notifiers are created before the server first calls Receive, and their
\* first messages come before any request.
Init ==
  /\ owned_by = NoOwner /\ lock_cb = <<>> /\ can_send = TRUE /\ want_send = FALSE
  /\ send_buffer = [c \in Clients |-> NoByte]
  /\ mailbox = << [from |-> Tx, type |-> "NOTIFIER_TX_GOOD", data |-> NoByte],
                  [from |-> Rx, type |-> "NOTIFIER_RX_GOOD", data |-> NoByte] >>
  /\ notifier = [n \in {Tx, Rx} |-> "sent"]
  /\ uart1_tx_flag = {} /\ intr = {}
  /\ thr = NoByte /\ rdr = NoByte /\ cts = TRUE /\ dcts = FALSE
  /\ controller = <<"clear", NoByte>> /\ toSend = 0
  /\ client = [c \in Clients |-> "ready"]
  /\ pc = [c \in Clients |-> 1]
  /\ result = [c \in Clients |-> NoByte]

-----------------------------------------------------------------------------
(* The line and the controller (external) *)

\* The byte leaves the transmit register.
ShiftOut ==
  /\ thr # NoByte
  /\ thr' = NoByte /\ controller' = <<"receiving", thr>>
  /\ UNCHANGED <<server, mailbox, notifier, kernel, rdr, cts, dcts, toSend, tasks>>

LowerCts ==
  /\ controller[1] = "receiving"
  /\ controller' = <<"busy", controller[2]>>
  /\ cts' = FALSE /\ dcts' = TRUE
  /\ UNCHANGED <<server, mailbox, notifier, kernel, thr, rdr, toSend, tasks>>

RaiseCts ==
  /\ controller[1] = "busy"
  /\ Prompt => notifier[Tx] = "awaiting"
  /\ controller' = <<"clear", NoByte>>
  /\ cts' = TRUE /\ dcts' = TRUE
  /\ toSend' = IF controller[2] = Ask THEN Bytes ELSE toSend
  /\ UNCHANGED <<server, mailbox, notifier, kernel, thr, rdr, tasks>>

\* The next byte of the answer arrives, and replaces one that was not read.
ByteArrives ==
  /\ toSend > 0
  /\ Prompt => rdr = NoByte
  /\ rdr' = Bytes - toSend + 1 /\ toSend' = toSend - 1
  /\ UNCHANGED <<server, mailbox, notifier, kernel, thr, cts, dcts, controller, tasks>>

-----------------------------------------------------------------------------
(* The notifiers and the kernel *)

\* AwaitEvent(UART1_TX_INTR): the modem status is read, which forgets a change.
TxAwaits ==
  /\ notifier[Tx] = "released"
  /\ notifier' = [notifier EXCEPT ![Tx] = "awaiting"]
  /\ dcts' = FALSE
  /\ intr' = intr \cup {"UART1TXINTR", "UART1CTSINTR"}
  /\ uart1_tx_flag' = {}
  /\ UNCHANGED <<server, mailbox, thr, rdr, cts, controller, toSend, tasks>>

\* AwaitEvent(UART1_RX_INTR).
RxAwaits ==
  /\ notifier[Rx] = "released"
  /\ notifier' = [notifier EXCEPT ![Rx] = "awaiting"]
  /\ intr' = intr \cup {"UART1RXINTR"}
  /\ UNCHANGED <<server, mailbox, uart1_tx_flag, line, tasks>>

TxSends ==
  /\ notifier[Tx] = "woken"
  /\ notifier' = [notifier EXCEPT ![Tx] = "sent"]
  /\ mailbox' = Append(mailbox, [from |-> Tx, type |-> "NOTIFIER_TX_GOOD", data |-> NoByte])
  /\ UNCHANGED <<server, kernel, line, tasks>>

\* The receive notifier reads the byte and sends it.
RxSends ==
  /\ notifier[Rx] = "woken"
  /\ notifier' = [notifier EXCEPT ![Rx] = "sent"]
  /\ rdr' = NoByte
  /\ mailbox' = Append(mailbox, [from |-> Rx, type |-> "NOTIFIER_RX_GOOD", data |-> rdr])
  /\ UNCHANGED <<server, kernel, thr, cts, dcts, controller, toSend, tasks>>

\* The causes of the combined interrupt that are enabled.
Ris == "UART1RXINTR" \in intr /\ rdr # NoByte
Tis == "UART1TXINTR" \in intr /\ thr = NoByte
Mis == "UART1CTSINTR" \in intr /\ dcts

\* Seeded fault: a fall of CTS counts too.
SeenEitherWay == (IF Tis THEN {"TX"} ELSE {}) \cup (IF Mis THEN {"CTS"} ELSE {})

\* uart1_tx_flag == 3
Complete(flag) == flag = {"TX", "CTS"}

\* What the handler adds to uart1_tx_flag; a fall of CTS is read and forgotten.
Seen == (IF Tis THEN {"TX"} ELSE {}) \cup (IF Mis /\ cts THEN {"CTS"} ELSE {})

\* The UART1 part of the interrupt handler (the wake_up calls find their notifier:
\* invariant LocksConsistent).
Interrupt ==
  /\ Ris \/ Tis \/ Mis
  /\ LET flag == uart1_tx_flag \cup Seen
         woken == (IF Ris THEN {Rx} ELSE {}) \cup (IF Complete(flag) THEN {Tx} ELSE {})
     IN  /\ notifier' = [n \in {Tx, Rx} |-> IF n \in woken THEN "woken" ELSE notifier[n]]
         /\ uart1_tx_flag' = IF Complete(flag) THEN {} ELSE flag
  /\ intr' = intr \ ((IF Ris THEN {"UART1RXINTR"} ELSE {})
                      \cup (IF "TX" \in Seen THEN {"UART1TXINTR"} ELSE {})
                      \cup (IF "CTS" \in Seen THEN {"UART1CTSINTR"} ELSE {}))
  /\ dcts' = IF Mis THEN FALSE ELSE dcts
  /\ UNCHANGED <<server, mailbox, thr, rdr, cts, controller, toSend, tasks>>

-----------------------------------------------------------------------------
(* The tasks *)

\* The byte of a Putc.
Data(c) == CASE Step(c) = "put" -> Command [] Step(c) = "ask" -> Ask [] OTHER -> NoByte

\* What c's next call sends to the server.
Request(c) ==
  [from |-> c,
   type |-> CASE Step(c) \in {"put", "ask"} -> "SEND_CHAR"
              [] Step(c) = "get" -> "GET_CHAR"
              [] Step(c) = "release" -> "RELEASE_LOCK",
   data |-> Data(c)]

\* Putc, Getc or ReleaseUartLock.
Call(c) ==
  /\ client[c] = "ready"
  /\ client' = [client EXCEPT ![c] = "sent"]
  /\ mailbox' = Append(mailbox, Request(c))
  /\ UNCHANGED <<server, notifier, kernel, line, pc, result>>

-----------------------------------------------------------------------------
(* The server *)

Received(m) == mailbox # <<>> /\ m = Head(mailbox) /\ mailbox' = Tail(mailbox)

\* The clients and the notifiers once the server has received m.
Clients1(m) == IF m.from \in Clients THEN [client EXCEPT ![m.from] = "received"] ELSE client
Notifiers1(m) == IF m.from \in {Tx, Rx} THEN [notifier EXCEPT ![m.from] = "held"] ELSE notifier

\* The replies to the clients in C, with data d, and to the notifiers in N.
Reply(m, C, d, N) ==
  /\ client' = [c \in Clients |-> IF c \in C THEN "ready" ELSE Clients1(m)[c]]
  /\ pc' = [c \in Clients |-> IF c \notin C THEN pc[c]
                              ELSE IF pc[c] = Len(Program[c]) THEN 1 ELSE pc[c] + 1]
  /\ result' = [c \in Clients |-> IF c \in C THEN d ELSE result[c]]
  /\ notifier' = [n \in {Tx, Rx} |-> IF n \in N THEN "released" ELSE Notifiers1(m)[n]]

\* uart_put_char(COM1, b)
PutChar(b) == thr' = b /\ UNCHANGED <<rdr, cts, dcts, controller, toSend>>

\* NOTIFIER_TX_GOOD
TxGood(m) ==
  /\ Received(m) /\ m.type = "NOTIFIER_TX_GOOD"
  /\ IF want_send
       THEN /\ want_send' = FALSE
            /\ PutChar(send_buffer[owned_by])
            /\ Reply(m, {owned_by}, NoByte, {Tx})
            /\ UNCHANGED can_send
       ELSE /\ can_send' = TRUE
            /\ Reply(m, {}, NoByte, {})
            /\ UNCHANGED <<want_send, line>>
  /\ UNCHANGED <<owned_by, lock_cb, send_buffer, kernel>>

\* NOTIFIER_RX_GOOD; without an owner it matches no branch.
RxGood(m) ==
  /\ Received(m) /\ m.type = "NOTIFIER_RX_GOOD"
  /\ Reply(m, IF owned_by = NoOwner THEN {} ELSE {owned_by}, m.data, {})
  /\ UNCHANGED <<server, kernel, line>>

\* SEND_CHAR from the owner, or from the task that becomes it.
SendCharOwner(m) ==
  /\ Received(m) /\ m.type = "SEND_CHAR"
  /\ owned_by \in {NoOwner, m.from}
  /\ owned_by' = m.from
  /\ IF can_send
       THEN /\ can_send' = FALSE
            /\ PutChar(m.data)
            /\ Reply(m, {m.from}, NoByte, {Tx})
            /\ UNCHANGED <<want_send, send_buffer>>
       ELSE /\ want_send' = TRUE
            /\ send_buffer' = [send_buffer EXCEPT ![m.from] = m.data]
            /\ Reply(m, {}, NoByte, {})
            /\ UNCHANGED <<can_send, line>>
  /\ UNCHANGED <<lock_cb, kernel>>

\* SEND_CHAR while another task owns the line.
SendCharOther(m) ==
  /\ Received(m) /\ m.type = "SEND_CHAR"
  /\ owned_by \notin {NoOwner, m.from}
  /\ lock_cb' = IF Len(lock_cb) < LockCapacity THEN Append(lock_cb, m.from) ELSE lock_cb
  /\ send_buffer' = [send_buffer EXCEPT ![m.from] = m.data]
  /\ Reply(m, {}, NoByte, {})
  /\ UNCHANGED <<owned_by, can_send, want_send, kernel, line>>

\* Seeded fault: the byte stays in the register.
GetCharPeeks(m) ==
  /\ Received(m) /\ m.type = "GET_CHAR"
  /\ IF rdr # NoByte THEN Reply(m, {owned_by}, rdr, {}) ELSE Reply(m, {}, NoByte, {Rx})
  /\ UNCHANGED <<server, kernel, line>>

\* GET_CHAR; the server replies to owned_by, whoever asked.
GetChar(m) ==
  /\ Received(m) /\ m.type = "GET_CHAR"
  /\ IF rdr # NoByte
       THEN /\ rdr' = NoByte
            /\ Reply(m, {owned_by}, rdr, {})
            /\ UNCHANGED <<thr, cts, dcts, controller, toSend>>
       ELSE Reply(m, {}, NoByte, {Rx}) /\ UNCHANGED line
  /\ UNCHANGED <<server, kernel>>

\* RELEASE_LOCK (of the owner, which the KASSERT requires: LocksConsistent): the first
\* task of lock_cb becomes the owner, and its byte is sent if that is possible.
Release(m) ==
  /\ Received(m) /\ m.type = "RELEASE_LOCK"
  /\ IF lock_cb = <<>>
       THEN /\ owned_by' = NoOwner
            /\ Reply(m, {m.from}, NoByte, {})
            /\ UNCHANGED <<lock_cb, can_send, want_send, line>>
       ELSE /\ owned_by' = Head(lock_cb) /\ lock_cb' = Tail(lock_cb)
            /\ IF can_send
                 THEN /\ can_send' = FALSE
                      /\ PutChar(send_buffer[Head(lock_cb)])
                      /\ Reply(m, {m.from, Head(lock_cb)}, NoByte, {Tx})
                      /\ UNCHANGED want_send
                 ELSE /\ want_send' = TRUE
                      /\ Reply(m, {m.from}, NoByte, {})
                      /\ UNCHANGED <<can_send, line>>
  /\ UNCHANGED <<send_buffer, kernel>>

Serve ==
  \E m \in {mailbox[i] : i \in 1 .. (IF mailbox = <<>> THEN 0 ELSE 1)} :
    \/ TxGood(m) \/ RxGood(m)
    \/ SendCharOwner(m) \/ SendCharOther(m) \/ GetChar(m) \/ Release(m)

Line == ShiftOut \/ LowerCts \/ RaiseCts \/ ByteArrives
Notifiers == TxAwaits \/ RxAwaits \/ TxSends \/ RxSends

Next == Line \/ Notifiers \/ Interrupt \/ Serve \/ \E c \in Clients : Call(c)

\* Every task that can run does, interrupts are served, and the line works.
Fairness ==
  /\ WF_vars(ShiftOut) /\ WF_vars(LowerCts) /\ WF_vars(RaiseCts) /\ WF_vars(ByteArrives)
  /\ WF_vars(TxAwaits) /\ WF_vars(RxAwaits) /\ WF_vars(TxSends) /\ WF_vars(RxSends)
  /\ WF_vars(Interrupt) /\ WF_vars(Serve)
  /\ \A c \in Clients : WF_vars(Call(c))

Spec == Init /\ [][Next]_vars /\ Fairness

-----------------------------------------------------------------------------
\* A byte is put in the transmit register only when the register is empty and the
\* controller is ready for it, whichever of the three places in the server puts it.
TransmitsWhenClear ==
  [][thr' \notin {NoByte, thr} => thr = NoByte /\ cts /\ controller[1] = "clear"]_vars

\* Replies go to tasks that wait for one: an owner that is replied to waits, and
\* so do the notifiers the server holds (it never asks, it relies on can_send and
\* on the order of the requests).
RepliesAwaited ==
  [][/\ \A c \in Clients : client[c] # "ready" /\ client'[c] = "ready" =>
          client[c] = "received" \/ Head(mailbox).from = c
     /\ \A c \in Clients : pc'[c] # pc[c] => client[c] # "ready"
     /\ \A n \in {Tx, Rx} : notifier[n] # "released" /\ notifier'[n] = "released" =>
          notifier[n] = "held" \/ Head(mailbox).from = n]_vars

\* A waiting task is queued once and waits for the line; the owner alone reads and
\* releases (the KASSERT of RELEASE_LOCK, and GET_CHAR's Reply to owned_by); an
\* enabled interrupt has its notifier, so the handler's wake_up calls succeed.
LocksConsistent ==
  /\ \A i, j \in 1 .. Len(lock_cb) : i # j => lock_cb[i] # lock_cb[j]
  /\ \A c \in Clients :
       (c \in {lock_cb[i] : i \in 1 .. Len(lock_cb)}) <=> (client[c] = "received" /\ owned_by # c)
  /\ owned_by = NoOwner => lock_cb = <<>>
  /\ \A c \in Clients : Step(c) \in {"get", "release"} => owned_by = c
  /\ want_send => ~can_send /\ client[owned_by] = "received" /\ Step(owned_by) \in {"put", "ask"}
  /\ {"UART1TXINTR", "UART1CTSINTR"} \cap intr # {} => notifier[Tx] = "awaiting"
  /\ "UART1RXINTR" \in intr => notifier[Rx] = "awaiting"

\* The bytes of an answer are read in order and each once: a Getc that returns
\* gives the byte that its place among the gets since the question says.
ReadsInOrder ==
  [][\A c \in Clients : pc'[c] # pc[c] /\ Step(c) = "get" =>
       LET asks == {i \in 1 .. pc[c] : Program[c][i] = "ask"}
           ask == CHOOSE i \in asks : \A j \in asks : j <= i
       IN  result'[c] = pc[c] - ask]_vars

\* Both.
AnswersInOrder == RepliesAwaited /\ ReadsInOrder

\* Every call returns.
CallsReturn == \A c \in Clients : client[c] # "ready" ~> client[c] = "ready"
=============================================================================
